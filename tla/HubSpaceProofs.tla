--------------------------- MODULE HubSpaceProofs ---------------------------
(* The proof that the state of the hub has its type and that the count of the  *)
(* bytes of each port (outstandingPacketCnt, device/hubdevice.c) covers the    *)
(* packets that were claimed, for any number of ports, trackers and packets;   *)
(* and that a request that ends well had all its packets taken.                *)
EXTENDS HubPacketsProofs, FiniteSetTheorems

-----------------------------------------------------------------------------
(* Sums: the sum of f over S is the number of the bytes of all its members.  *)

BytesOf(x, n) == {<<x, k>> : k \in 1..n}
Bytes(f, S) == UNION {BytesOf(x, f[x]) : x \in S}

\* Every set of finite sets has one that contains no other.
LEMMA MinimalSet ==
    ASSUME NEW S, IsFiniteSet(S), NEW T, T \subseteq SUBSET S, T # {}
    PROVE  \E A \in T : \A B \in T : ~(B \subseteq A /\ B # A)
<1>1. T \subseteq FiniteSubsetsOf(S)
    BY FS_Subset DEF FiniteSubsetsOf
<1>2. IsWellFoundedOn(StrictSubsetOrdering(S), FiniteSubsetsOf(S))
    BY FS_StrictSubsetOrderingWellFounded
<1>3. PICK A \in T : \A B \in T : ~(<<B, A>> \in StrictSubsetOrdering(S))
    BY <1>1, <1>2, WFMin
<1>4. ASSUME NEW B \in T, B \subseteq A, B # A PROVE FALSE
    <2>1. B \in SUBSET S /\ A \in SUBSET S
        OBVIOUS
    <2>2. <<B, A>> \in StrictSubsetOrdering(S)
        BY <1>4, <2>1 DEF StrictSubsetOrdering
    <2>. QED
        BY <1>3, <2>2
<1>. QED
    BY <1>3, <1>4

LEMMA OneMember ==
    ASSUME NEW x, NEW n \in Nat
    PROVE  IsFiniteSet(BytesOf(x, n)) /\ Cardinality(BytesOf(x, n)) = n
<1>. DEFINE g == [k \in 1..n |-> <<x, k>>]
<1>1. IsFiniteSet(1..n) /\ Cardinality(1..n) = n
    BY FS_Interval
<1>2. g \in Bijection(1..n, BytesOf(x, n))
    <2>1. \A i, j \in 1..n : <<x, i>> = <<x, j>> => i = j
        OBVIOUS
    <2>2. \A b \in BytesOf(x, n) : \E k \in 1..n : b = <<x, k>>
        BY DEF BytesOf
    <2>3. \A k \in 1..n : <<x, k>> \in BytesOf(x, n)
        BY DEF BytesOf
    <2>. QED
        BY <2>1, <2>2, <2>3 DEF Bijection, Injection, Surjection, IsInjective
<1>3. ExistsBijection(1..n, BytesOf(x, n))
    BY <1>2 DEF ExistsBijection
<1>. QED
    BY <1>1, <1>3, FS_Bijection

LEMMA ByteOf ==
    ASSUME NEW f, NEW S, NEW b
    PROVE  b \in Bytes(f, S) <=> \E x \in S : \E k \in 1..f[x] : b = <<x, k>>
BY DEF Bytes, BytesOf

\* One more member.
LEMMA BytesAdded ==
    ASSUME NEW f, NEW S, NEW x, x \notin S, f[x] \in Nat, IsFiniteSet(Bytes(f, S))
    PROVE  /\ IsFiniteSet(Bytes(f, S \cup {x}))
           /\ Cardinality(Bytes(f, S \cup {x})) = Cardinality(Bytes(f, S)) + f[x]
<1>. PICK n \in Nat : n = f[x]
    OBVIOUS
<1>. PICK A, B : A = Bytes(f, S) /\ B = BytesOf(x, n)
    OBVIOUS
<1>1. Bytes(f, S \cup {x}) = A \cup B
    BY DEF Bytes
<1>2. A \cap B = {}
    <2>1. ASSUME NEW b \in A, b \in B PROVE FALSE
        <3>1. PICK y \in S : \E k \in 1..f[y] : b = <<y, k>>
            BY ByteOf
        <3>2. PICK k \in 1..n : b = <<x, k>>
            BY <2>1 DEF BytesOf
        <3>. QED
            BY <3>1, <3>2
    <2>. QED
        BY <2>1
<1>3. IsFiniteSet(B) /\ Cardinality(B) = n
    BY OneMember
<1>4. IsFiniteSet(A) /\ Cardinality(A) \in Nat
    BY FS_CardinalityType
<1>5. /\ IsFiniteSet(A \cup B)
      /\ Cardinality(A \cup B) = Cardinality(A) + Cardinality(B) - Cardinality(A \cap B)
    BY <1>3, <1>4, FS_Union
<1>6. Cardinality(A \cap B) = 0
    BY <1>2, FS_EmptySet
<1>7. Cardinality(A \cup B) = Cardinality(A) + n
    BY <1>3, <1>4, <1>5, <1>6
<1>. QED
    BY <1>1, <1>5, <1>7

LEMMA NoBytes ==
    ASSUME NEW f
    PROVE  IsFiniteSet(Bytes(f, {})) /\ Cardinality(Bytes(f, {})) = 0
<1>1. Bytes(f, {}) = {}
    BY DEF Bytes
<1>. QED
    BY <1>1, FS_EmptySet

\* Induction over the subsets of S, by a smallest one that fails.
LEMMA BytesFinite ==
    ASSUME NEW S, IsFiniteSet(S), NEW f, \A x \in S : f[x] \in Nat
    PROVE  \A A \in SUBSET S : IsFiniteSet(Bytes(f, A)) /\ Cardinality(Bytes(f, A)) \in Nat
<1>. DEFINE T == {A \in SUBSET S : ~IsFiniteSet(Bytes(f, A))}
<1>1. SUFFICES ASSUME T # {} PROVE FALSE
    BY FS_CardinalityType
<1>2. PICK A \in T : \A B \in T : ~(B \subseteq A /\ B # A)
    <2>1. T \subseteq SUBSET S
        OBVIOUS
    <2>. HIDE DEF T
    <2>. QED
        BY <1>1, <2>1, MinimalSet
<1>3. A # {}
    BY NoBytes
<1>4. PICK x : x \in A
    BY <1>3
<1>5. A \ {x} \notin T
    BY <1>2, <1>4
<1>6. IsFiniteSet(Bytes(f, A \ {x})) /\ f[x] \in Nat
    BY <1>4, <1>5
<1>7. IsFiniteSet(Bytes(f, (A \ {x}) \cup {x}))
    BY <1>6, BytesAdded
<1>8. (A \ {x}) \cup {x} = A
    BY <1>4
<1>. QED
    BY <1>7, <1>8

\* The sum of f over S.
Sum(f, S) == Cardinality(Bytes(f, S))

LEMMA SumAdded ==
    ASSUME NEW S, IsFiniteSet(S), NEW x, x \notin S, NEW f, \A y \in S \cup {x} : f[y] \in Nat
    PROVE  /\ Sum(f, S) \in Nat
           /\ Sum(f, S \cup {x}) = Sum(f, S) + f[x]
<1>1. IsFiniteSet(Bytes(f, S)) /\ Cardinality(Bytes(f, S)) \in Nat
    BY BytesFinite
<1>. QED
    BY <1>1, BytesAdded DEF Sum

LEMMA SumRemoved ==
    ASSUME NEW S, IsFiniteSet(S), NEW x \in S, NEW f, \A y \in S : f[y] \in Nat
    PROVE  /\ Sum(f, S \ {x}) \in Nat
           /\ Sum(f, S) = Sum(f, S \ {x}) + f[x]
<1>. PICK A : A = S \ {x}
    OBVIOUS
<1>1. IsFiniteSet(A) /\ x \notin A /\ A \cup {x} = S
    BY FS_RemoveElement
<1>. QED
    BY <1>1, SumAdded

LEMMA SumSame ==
    ASSUME NEW S, NEW f, NEW g, \A x \in S : f[x] = g[x]
    PROVE  Sum(f, S) = Sum(g, S)
<1>1. Bytes(f, S) = Bytes(g, S)
    BY DEF Bytes
<1>. QED
    BY <1>1 DEF Sum

LEMMA SumEmpty == ASSUME NEW f PROVE Sum(f, {}) = 0
BY NoBytes DEF Sum

Chosen(s) == CHOOSE x \in s : TRUE

\* A function that adds up f, as a fold does, is the sum: the smallest set on
\* which it is not would be one member larger than one on which it is.
AddsUp(g, f, S) ==
    \A s \in SUBSET S :
        /\ s = {} => g[s] = 0
        /\ s # {} /\ g[s \ {Chosen(s)}] \in Nat => g[s] = f[Chosen(s)] + g[s \ {Chosen(s)}]

Sums(f, S) == [s \in SUBSET S |-> Sum(f, s)]
Summable(f, S) == IsFiniteSet(S) /\ \A x \in S : f[x] \in Nat

LEMMA SumsEmpty ==
    ASSUME NEW f, NEW S
    PROVE  Sums(f, S)[{}] = 0
BY SumEmpty DEF Sums

LEMMA SumsAddUp ==
    ASSUME NEW f, NEW S, Summable(f, S), NEW s, s \in SUBSET S, s # {}
    PROVE  /\ Chosen(s) \in S
           /\ f[Chosen(s)] \in Nat
           /\ Sums(f, S)[s \ {Chosen(s)}] \in Nat
           /\ Sums(f, S)[s] = f[Chosen(s)] + Sums(f, S)[s \ {Chosen(s)}]
<1>1. IsFiniteSet(s) /\ \A x \in S : f[x] \in Nat
    BY FS_Subset DEF Summable
<1>2. Chosen(s) \in s
    BY DEF Chosen
<1>3. f[Chosen(s)] \in Nat
    BY <1>1, <1>2
<1>4. Sum(f, s \ {Chosen(s)}) \in Nat /\ Sum(f, s) = Sum(f, s \ {Chosen(s)}) + f[Chosen(s)]
    BY <1>1, <1>2, SumRemoved
<1>. QED
    BY <1>2, <1>3, <1>4 DEF Sums

LEMMA AddingCounts ==
    ASSUME NEW S, IsFiniteSet(S), NEW f, \A x \in S : f[x] \in Nat, NEW g, AddsUp(g, f, S)
    PROVE  g[S] = Sum(f, S)
<1>. DEFINE T == {s \in SUBSET S : g[s] # Sum(f, s)}
<1>1. SUFFICES ASSUME T # {} PROVE FALSE
    OBVIOUS
<1>2. PICK A \in T : \A B \in T : ~(B \subseteq A /\ B # A)
    <2>1. T \subseteq SUBSET S
        OBVIOUS
    <2>. HIDE DEF T
    <2>. QED
        BY <1>1, <2>1, MinimalSet
<1>3. A \in SUBSET S /\ g[A] # Sum(f, A)
    OBVIOUS
<1>4. A # {}
    BY <1>3, SumEmpty DEF AddsUp
<1>. PICK x, B : x = Chosen(A) /\ B = A \ {x}
    OBVIOUS
<1>5. /\ Sums(f, S)[A] = f[x] + Sums(f, S)[B] /\ Sums(f, S)[B] \in Nat
      /\ x \in A
    <2>0. x \in A
        BY <1>4 DEF Chosen
    <2>1. Summable(f, S)
        BY DEF Summable
    <2>. QED
        BY <1>3, <1>4, <2>0, <2>1, SumsAddUp
<1>6. B \in SUBSET S /\ B \subseteq A /\ B # A
    BY <1>5
<1>10. Sum(f, A) = f[x] + Sum(f, B) /\ Sum(f, B) \in Nat
    BY <1>3, <1>5, <1>6 DEF Sums
<1>7. g[B] = Sum(f, B)
    BY <1>2, <1>6
<1>8. g[A] = f[x] + g[B]
    BY <1>3, <1>4, <1>7, <1>10 DEF AddsUp
<1>. QED
    BY <1>3, <1>7, <1>8, <1>10

\* The fold of FiniteSetsExt, and the one over a sequence of packets.
SumsUp(g, f, S) ==
    g = [s \in SUBSET S |-> IF s = {} THEN 0 ELSE f[Chosen(s)] + g[s \ {Chosen(s)}]]

LEMMA SumFold ==
    ASSUME NEW S, IsFiniteSet(S), NEW f, \A x \in S : f[x] \in Nat
    PROVE  /\ \E g : SumsUp(g, f, S)
           /\ \A h : SumsUp(h, f, S) => h[S] = Sum(f, S)
<1>1. \E g : SumsUp(g, f, S)
    <2>1. PICK g : g = Sums(f, S)
        OBVIOUS
    <2>2. g = [s \in SUBSET S |-> g[s]]
        BY <2>1 DEF Sums
    <2>3. ASSUME NEW s \in SUBSET S
          PROVE  g[s] = IF s = {} THEN 0 ELSE f[Chosen(s)] + g[s \ {Chosen(s)}]
        <3>1. Summable(f, S)
            BY DEF Summable
        <3>2. CASE s = {}
            BY <2>1, <3>2, SumsEmpty
        <3>3. CASE s # {}
            <4>1. Sums(f, S)[s] = f[Chosen(s)] + Sums(f, S)[s \ {Chosen(s)}]
                BY <3>1, <3>3, SumsAddUp
            <4>. QED
                BY <2>1, <3>3, <4>1
        <3>. QED
            BY <3>2, <3>3
    <2>4. SumsUp(g, f, S)
        BY <2>2, <2>3 DEF SumsUp
    <2>. QED
        BY <2>4
<1>2. ASSUME NEW h, SumsUp(h, f, S) PROVE h[S] = Sum(f, S)
    <2>1. AddsUp(h, f, S)
        BY <1>2 DEF AddsUp, SumsUp
    <2>. QED
        BY <2>1, AddingCounts
<1>. QED
    BY <1>1, <1>2

Lens(s) == [k \in DOMAIN s |-> s[k].len]

Adds(g, s, S) ==
    g = [a \in SUBSET S |-> IF a = {} THEN 0 ELSE g[a \ {Chosen(a)}] + s[Chosen(a)].len]

LEMMA PacketFold ==
    ASSUME NEW s, NEW f, NEW S, Summable(f, S), \A k \in S : s[k].len = f[k]
    PROVE  /\ \E g : Adds(g, s, S)
           /\ \A h : Adds(h, s, S) => h[S] = Sum(f, S)
<1>1. IsFiniteSet(S) /\ \A x \in S : f[x] \in Nat
    BY DEF Summable
<1>2. \E g : Adds(g, s, S)
    <2>1. PICK g : g = Sums(f, S)
        OBVIOUS
    <2>2. g = [a \in SUBSET S |-> g[a]]
        BY <2>1 DEF Sums
    <2>3. ASSUME NEW a \in SUBSET S
          PROVE  g[a] = IF a = {} THEN 0 ELSE g[a \ {Chosen(a)}] + s[Chosen(a)].len
        <3>1. CASE a = {}
            BY <2>1, <3>1, SumsEmpty
        <3>2. CASE a # {}
            <4>1. /\ Chosen(a) \in S
                  /\ f[Chosen(a)] \in Nat
                  /\ g[a \ {Chosen(a)}] \in Nat
                  /\ g[a] = f[Chosen(a)] + g[a \ {Chosen(a)}]
                <5>1. /\ Chosen(a) \in S
                      /\ f[Chosen(a)] \in Nat
                      /\ Sums(f, S)[a \ {Chosen(a)}] \in Nat
                      /\ Sums(f, S)[a] = f[Chosen(a)] + Sums(f, S)[a \ {Chosen(a)}]
                    BY <3>2, SumsAddUp
                <5>. QED
                    BY <2>1, <5>1
            <4>. QED
                BY <3>2, <4>1
        <3>. QED
            BY <3>1, <3>2
    <2>4. Adds(g, s, S)
        BY <2>2, <2>3 DEF Adds
    <2>. QED
        BY <2>4
<1>3. ASSUME NEW h, Adds(h, s, S) PROVE AddsUp(h, f, S)
    <2>. SUFFICES ASSUME NEW a \in SUBSET S
         PROVE  /\ a = {} => h[a] = 0
                /\ a # {} /\ h[a \ {Chosen(a)}] \in Nat =>
                        h[a] = f[Chosen(a)] + h[a \ {Chosen(a)}]
        BY DEF AddsUp
    <2>1. h[a] = IF a = {} THEN 0 ELSE h[a \ {Chosen(a)}] + s[Chosen(a)].len
        BY <1>3 DEF Adds
    <2>2. a # {} => Chosen(a) \in S
        BY DEF Chosen
    <2>. QED
        BY <1>1, <2>1, <2>2
<1>. QED
    BY <1>1, <1>2, <1>3, AddingCounts

LEMMA FoldCounts ==
    ASSUME NEW s \in Seq(Packet)
    PROVE  /\ FoldSeq(LAMBDA pkt, n : n + pkt.len, 0, s) = Sum(Lens(s), DOMAIN s)
           /\ IsFiniteSet(DOMAIN s)
           /\ \A k \in DOMAIN s : Lens(s)[k] \in Nat /\ s[k].len = Lens(s)[k]
<1>. PICK S, f : S = DOMAIN s /\ f = Lens(s)
    OBVIOUS
<1>1. \A k \in S : f[k] \in Nat /\ s[k].len = f[k]
    <2>1. \A k \in DOMAIN s : s[k] \in Packet
        BY LenProperties, ElementOfSeq
    <2>. QED
        BY <2>1 DEF Lens, Packet
<1>2. IsFiniteSet(S)
    BY LenProperties, FS_Interval
<1>3. Summable(f, S)
    BY <1>1, <1>2 DEF Summable
<1>. DEFINE P(g) == g = [a \in SUBSET S |-> IF a = {} THEN 0
                                ELSE LET x == CHOOSE x \in a : TRUE IN g[a \ {x}] + s[x].len]
            h == CHOOSE g : P(g)
<1>4. FoldSeq(LAMBDA pkt, n : n + pkt.len, 0, s) = h[S]
    BY DEF FoldSeq, FoldFunction, FoldFunctionOnSet, MapThenFoldSet
<1>5. \A g : P(g) <=> Adds(g, s, S)
    BY DEF Adds, Chosen
<1>. HIDE DEF P
<1>6. Adds(h, s, S)
    BY <1>1, <1>3, <1>5, PacketFold
<1>. HIDE DEF h
<1>7. h[S] = Sum(f, S)
    BY <1>1, <1>3, <1>6, PacketFold
<1>. QED
    BY <1>1, <1>2, <1>4, <1>7

\* The packets of a port have different ids, so what they add up to is at most
\* the sum over any set of ids they are among.
LEMMA UsedBelow ==
    ASSUME NEW s \in Seq(Packet), Once(s), NEW T, IsFiniteSet(T), Ids(s) \subseteq T,
           NEW f, \A i \in T : f[i] \in Nat,
           \A k \in DOMAIN s : s[k].len = f[s[k].id]
    PROVE  /\ FoldSeq(LAMBDA pkt, n : n + pkt.len, 0, s) \in Nat
           /\ FoldSeq(LAMBDA pkt, n : n + pkt.len, 0, s) <= Sum(f, T)
<1>. PICK A, B, g : /\ A = Bytes(Lens(s), DOMAIN s)
                    /\ B = Bytes(f, T)
                    /\ g = [b \in A |-> <<s[b[1]].id, b[2]>>]
    OBVIOUS
<1>1. IsFiniteSet(A) /\ Cardinality(A) \in Nat
    BY FoldCounts, BytesFinite
<1>2. IsFiniteSet(B) /\ Cardinality(B) \in Nat
    BY BytesFinite
<1>3. ASSUME NEW b \in A
      PROVE  /\ b[1] \in DOMAIN s /\ b = <<b[1], b[2]>>
             /\ <<s[b[1]].id, b[2]>> \in B
    <2>1. PICK k \in DOMAIN s : \E m \in 1..Lens(s)[k] : b = <<k, m>>
        BY ByteOf
    <2>2. PICK m \in 1..Lens(s)[k] : b = <<k, m>>
        BY <2>1
    <2>3. s[k].id \in T /\ m \in 1..f[s[k].id]
        BY <2>1, FoldCounts DEF Ids
    <2>4. <<s[k].id, m>> \in B
        BY <2>3, ByteOf
    <2>. QED
        BY <2>1, <2>2, <2>4
<1>4. ASSUME NEW b \in A, NEW c \in A, g[b] = g[c] PROVE b = c
    <2>1. s[b[1]].id = s[c[1]].id /\ b[2] = c[2]
        BY <1>4
    <2>2. b[1] = c[1]
        BY <1>3, <2>1 DEF Once
    <2>. QED
        BY <1>3, <2>1, <2>2
<1>5. g \in Injection(A, B)
    BY <1>3, <1>4 DEF Injection, IsInjective
<1>6. Cardinality(A) <= Cardinality(B)
    BY <1>2, <1>5, FS_Injection
<1>. QED
    BY <1>1, <1>6, FoldCounts DEF Sum

-----------------------------------------------------------------------------
(* The reports and the packets as sets                                        *)

LEMMA AppendSet ==
    ASSUME NEW S, NEW s \in Seq(S), NEW x
    PROVE  ToSet(Append(s, x)) = ToSet(s) \cup {x}
<1>1. s \in Seq(S \cup {x}) /\ x \in S \cup {x}
    OBVIOUS
<1>2. /\ Len(s) \in Nat /\ DOMAIN s = 1..Len(s)
      /\ DOMAIN Append(s, x) = 1..Len(s) + 1
      /\ \A k \in 1..Len(s) : Append(s, x)[k] = s[k]
      /\ Append(s, x)[Len(s) + 1] = x
    BY <1>1, AppendFacts
<1>3. 1..Len(s) + 1 = (1..Len(s)) \cup {Len(s) + 1}
    BY <1>2
<1>. QED
    BY <1>2, <1>3 DEF ToSet

LEMMA TailSet ==
    ASSUME NEW S, NEW s \in Seq(S), s # <<>>
    PROVE  Head(s) \in ToSet(s) /\ ToSet(Tail(s)) \subseteq ToSet(s)
<1>1. /\ Len(s) \in Nat \ {0} /\ DOMAIN s = 1..Len(s)
      /\ DOMAIN Tail(s) = 1..Len(s) - 1
      /\ \A k \in 1..Len(s) - 1 : Tail(s)[k] = s[k + 1]
      /\ Head(s) = s[1]
    BY TailFacts
<1>2. \A k \in 1..Len(s) - 1 : k + 1 \in 1..Len(s)
    BY <1>1
<1>3. 1 \in 1..Len(s)
    BY <1>1
<1>. QED
    BY <1>1, <1>2, <1>3 DEF ToSet

LEMMA IdsOfSet ==
    ASSUME NEW s
    PROVE  Ids(s) = {pkt.id : pkt \in ToSet(s)}
BY DEF Ids, ToSet

-----------------------------------------------------------------------------
(* The steps of a sender that claim and send nothing                           *)

LEMMA SentSize ==
    ASSUME NEW t \in ThreadState, NEW res \in Code
    PROVE  /\ Sent(t, res).size \in {0, t.size}
           /\ Ends(t).size \in {0, t.size}
<1>1. \A r \in Code : Idle(r) \in ThreadState /\ Idle(r).size = 0
    BY IdleOK DEF Idle
<1>2. ASSUME NEW u \in ThreadState, NEW r \in Code PROVE Over(u, r).size = 0
    BY <1>1, <1>2 DEF Over, ThreadState
<1>3. ASSUME NEW u \in ThreadState PROVE Ends(u).size \in {0, u.size}
    <2>1. FirstError(u.error, u.res) \in Code
        BY DEF FirstError, ThreadState
    <2>2. [u EXCEPT !.pc = "wait", !.id = Head(u.list), !.ending = TRUE].size = u.size
        BY DEF ThreadState
    <2>. QED
        BY <2>1, <2>2, <1>2 DEF Ends
<1>4. [t EXCEPT !.pc = "get", !.id = NoId, !.todo = @ - 1].size = t.size
    BY DEF ThreadState
<1>5. [t EXCEPT !.res = res] \in ThreadState /\ [t EXCEPT !.res = res].size = t.size
    BY DEF ThreadState
<1>6. Ends([t EXCEPT !.res = res]).size \in {0, t.size}
    BY <1>3, <1>5
<1>7. Sent(t, res).size \in {0, t.size}
    BY <1>2, <1>4, <1>6 DEF Sent
<1>. QED
    BY <1>3, <1>7

\* The sender of port p goes on, and claims and sends nothing.
Rests(p) ==
    /\ th'[p].pc \notin Sending
    /\ th'[p].size \in {0, th[p].size}
    /\ \A q \in Port \ {p} : th'[q] = th[q]
    /\ \A i \in Id : state'[i] \in {state[i], state[i] \cup {"ABANDONED"}, {}}
    /\ UNCHANGED <<len, fw, pipe, rd, space, gap, lost, asked>>

LEMMA SentRests ==
    ASSUME IInv, NEW p \in Port, NEW t \in ThreadState, t.size = th[p].size, NEW res \in Code,
           NEW u \in {Sent(t, res), Ends(t)}, th' = [th EXCEPT ![p] = u],
           \A i \in Id : state'[i] \in {state[i], state[i] \cup {"ABANDONED"}, {}},
           UNCHANGED <<len, fw, pipe, rd, space, gap, lost, asked>>
    PROVE  Rests(p)
<1>1. u.pc \notin Sending /\ u.size \in {0, th[p].size}
    BY SentPc, SentSize
<1>. QED
    BY <1>1, ThreadFacts DEF Rests

LEMMA WaitRests ==
    ASSUME IInv, NEW p \in Port,
           \/ GetTimesOut(p) \/ ClaimTimesOut(p) \/ Request(p)
           \/ SendFails(p) \/ SendInterrupted(p) \/ WaitAnswered(p) \/ WaitTimesOut(p)
    PROVE  Rests(p)
<1>1. th[p] \in ThreadState /\ th \in [Port -> ThreadState] /\ "TIMEOUT" \in Code
      /\ state \in [Id -> SUBSET Flag]
    BY ThreadFacts DEF Code
<1>2. CASE GetTimesOut(p)
    BY <1>1, <1>2, SentRests DEF GetTimesOut, trackers, hub, bounds
<1>3. CASE ClaimTimesOut(p)
    <2>1. \A i \in Id : state'[i] \in {state[i], {}}
        BY <1>1, <1>3 DEF ClaimTimesOut
    <2>. QED
        BY <1>1, <1>3, <2>1, SentRests DEF ClaimTimesOut, hub, bounds
<1>4. CASE Request(p)
    <2>1. PICK n \in 1..MaxBatch :
            th' = [th EXCEPT ![p] = [Idle("OK") EXCEPT !.pc = "get", !.todo = n,
                                                       !.all = n, !.trans = n > 1]]
        BY <1>4 DEF Request
    <2>2. th'[p].pc = "get" /\ th'[p].size = 0
        BY <1>1, <2>1 DEF Idle
    <2>. QED
        BY <1>1, <1>4, <2>1, <2>2 DEF Rests, Request, Sending, trackers, hub
<1>5. CASE SendFails(p) \/ SendInterrupted(p) \/ WaitAnswered(p) \/ WaitTimesOut(p)
    <2>1. th'[p].pc = "release" /\ th'[p].size = th[p].size /\ \A q \in Port \ {p} : th'[q] = th[q]
        BY <1>1, <1>5
           DEF SendFails, SendInterrupted, WaitAnswered, WaitTimesOut, Waited, ThreadState
    <2>2. UNCHANGED <<state, len, fw, pipe, rd, space, gap, lost, asked>>
        BY <1>5 DEF SendFails, SendInterrupted, WaitAnswered, WaitTimesOut, trackers, hub, bounds
    <2>. QED
        BY <2>1, <2>2 DEF Rests, Sending
<1>. QED
    BY <1>2, <1>3, <1>4, <1>5

LEMMA ReapRests ==
    ASSUME IInv, NEW p \in Port, Reap(p)
    PROVE  Rests(p)
<1>1. PICK u \in ThreadState : th' = [th EXCEPT ![p] = Sent(u, "OK")] /\ u.size = th[p].size
    <2>1. th[p] \in ThreadState /\ th[p].list \in Seq(Id) /\ th[p].id \in Id
        BY ThreadFacts, HoldingFacts, Holds DEF Reap, At
    <2>2. CASE Done(p) = {}
        <3>1. Append(th[p].list, th[p].id) \in Seq(Id)
            BY <2>1, AppendProperties
        <3>2. /\ [th[p] EXCEPT !.list = Append(@, th[p].id)] \in ThreadState
              /\ [th[p] EXCEPT !.list = Append(@, th[p].id)].size = th[p].size
            BY <2>1, <3>1 DEF ThreadState
        <3>. QED
            BY <2>2, <3>2 DEF Reap
    <2>3. CASE Done(p) # {}
        <3>1. PICK k \in Done(p) : th' = [th EXCEPT ![p] =
                Sent([th[p] EXCEPT !.list = Append(RemoveAt(@, k), th[p].id),
                                   !.error = FirstError(@, code[th[p].list[k]])], "OK")]
            BY <2>3 DEF Reap
        <3>2. k \in 1..Len(th[p].list) /\ th[p].list[k] \in Id
            BY <2>1, LenProperties DEF Done
        <3>3. Append(RemoveAt(th[p].list, k), th[p].id) \in Seq(Id)
            BY <2>1, <3>2, RemoveAtElements, AppendProperties
        <3>4. FirstError(th[p].error, code[th[p].list[k]]) \in Code
            BY <2>1, <3>2, ThreadFacts DEF FirstError, ThreadState
        <3>5. /\ [th[p] EXCEPT !.list = Append(RemoveAt(@, k), th[p].id),
                               !.error = FirstError(@, code[th[p].list[k]])] \in ThreadState
              /\ [th[p] EXCEPT !.list = Append(RemoveAt(@, k), th[p].id),
                               !.error = FirstError(@, code[th[p].list[k]])].size = th[p].size
            BY <2>1, <3>3, <3>4 DEF ThreadState
        <3>. QED
            BY <3>1, <3>5
    <2>. QED
        BY <2>2, <2>3
<1>2. \A i \in Id : state'[i] \in {state[i], {}}
    BY ThreadFacts DEF Reap
<1>3. UNCHANGED <<len, fw, pipe, rd, space, gap, lost, asked>>
    BY DEF Reap, hub, bounds
<1>. QED
    BY <1>1, <1>2, <1>3, SentRests DEF Code

LEMMA ReleaseRests ==
    ASSUME IInv, NEW p \in Port, Release(p)
    PROVE  Rests(p)
<1>1. th[p].pc \in Holding /\ th[p] \in ThreadState /\ th[p].res \in Code
    BY ThreadFacts, Holds DEF Release, At, ThreadState
<1>2. \A i \in Id : state'[i] \in {state[i], state[i] \cup {"ABANDONED"}, {}}
    BY ThreadFacts DEF Release, Released
<1>3. UNCHANGED <<len, fw, pipe, rd, space, gap, lost, asked>>
    BY DEF Release, hub, bounds
<1>4. CASE th[p].ending
    <2>1. Tail(th[p].list) \in Seq(Id)
        BY <1>1, <1>4, ThreadFacts, HoldingFacts, HeadTailProperties
    <2>2. /\ [th[p] EXCEPT !.list = Tail(@)] \in ThreadState
          /\ [th[p] EXCEPT !.list = Tail(@)].size = th[p].size
        BY <1>1, <2>1 DEF ThreadState
    <2>3. th' = [th EXCEPT ![p] = Ends([th[p] EXCEPT !.list = Tail(@)])]
        BY <1>4 DEF Release
    <2>. QED
        BY <1>1, <1>2, <1>3, <2>2, <2>3, SentRests
<1>5. CASE ~th[p].ending
    <2>1. th' = [th EXCEPT ![p] = Sent(th[p], th[p].res)]
        BY <1>5 DEF Release
    <2>. QED
        BY <1>1, <1>2, <1>3, <2>1, SentRests
<1>. QED
    BY <1>4, <1>5

LEMMA SenderCases ==
    ASSUME IInv, NEW p \in Port, Request(p) \/ Sender(p) \/ TimesOut(p) \/ SendFails(p)
    PROVE  \/ Rests(p)
           \/ GetTracker(p) \/ ClaimSpace(p) \/ SetLength(p) \/ Send(p)
BY WaitRests, ReapRests, ReleaseRests DEF Sender, TimesOut

-----------------------------------------------------------------------------
(* The types                                                                  *)

\* A report with the buffer status has a count for each port.
KindOK(r) ==
    /\ r.kind \in {"return", "status", "data"}
    /\ r.kind = "status" => r.used \in [Port -> Nat]

TypeRest ==
    /\ space \in [Port -> Nat \cup {Unknown}]
    /\ \A p \in Port : th[p].size \in Sizes \cup {0}
    /\ asked \in Nat
    /\ \A r \in ToSet(pipe) : KindOK(r)

LEMMA UsedType ==
    ASSUME IInv, NEW p \in Port
    PROVE  Used(p) \in Nat
<1>1. fw[p] \in Seq(Packet)
    BY TypeFacts
<1>2. IsFiniteSet(DOMAIN fw[p]) /\ \A k \in DOMAIN fw[p] : Lens(fw[p])[k] \in Nat
    BY <1>1, FoldCounts
<1>3. Sum(Lens(fw[p]), DOMAIN fw[p]) \in Nat
    BY <1>2, BytesFinite DEF Sum
<1>. QED
    BY <1>1, <1>3, FoldCounts DEF Used

\* The reports after a step.
StatusNow == [kind |-> "status", used |-> [p \in Port |-> Used(p)]]

LEMMA PipeAfter ==
    ASSUME IInv, [Next]_vars
    PROVE  \A r \in ToSet(pipe)' : \/ r \in ToSet(pipe)
                                   \/ r.kind \in {"return", "data"}
                                   \/ r = StatusNow
<1>1. PICK S : pipe \in Seq(S)
    BY TypeFacts
<1>2. CASE pipe' = pipe
    BY <1>2
<1>3. CASE pipe # <<>> /\ pipe' = Tail(pipe)
    BY <1>1, <1>3, TailSet
<1>4. ASSUME NEW p \in Port, Send(p) \/ Answer(p)
      PROVE  pipe' = pipe \/ \E r : r.kind = "return" /\ pipe' = Append(pipe, r)
    <2>1. CASE Send(p)
        <3>. DEFINE r == [kind |-> "return", id |-> th[p].id, code |-> "NOSPC"]
        <3>1. (pipe' = pipe \/ pipe' = Append(pipe, r)) /\ r.kind = "return"
            BY <2>1 DEF Send
        <3>. HIDE DEF r
        <3>. QED
            BY <3>1
    <2>2. CASE Answer(p)
        <3>1. PICK c \in {"OK", "UNEXPECTED"} :
                pipe' = Append(pipe, [kind |-> "return", id |-> Head(fw[p]).id, code |-> c])
            BY <2>2 DEF Answer
        <3>. DEFINE r == [kind |-> "return", id |-> Head(fw[p]).id, code |-> c]
        <3>2. pipe' = Append(pipe, r) /\ r.kind = "return"
            BY <3>1
        <3>. HIDE DEF r
        <3>. QED
            BY <3>2
    <2>. QED
        BY <1>4, <2>1, <2>2
<1>5. CASE \E r : r.kind = "return" /\ pipe' = Append(pipe, r)
    BY <1>1, <1>5, AppendSet
<1>6. CASE Status
    <2>1. pipe' = Append(pipe, StatusNow)
        BY <1>6 DEF Status, StatusNow
    <2>. QED
        BY <1>1, <2>1, AppendSet
<1>7. CASE Data
    <2>. PICK r : r = [kind |-> "data"]
        OBVIOUS
    <2>1. pipe' = <<r>> /\ r.kind = "data"
        BY <1>7 DEF Data
    <2>2. DOMAIN <<r>> = {1} /\ <<r>>[1] = r
        OBVIOUS
    <2>3. ToSet(<<r>>) = {r}
        BY <2>2 DEF ToSet
    <2>. QED
        BY <2>1, <2>3
<1>8. ASSUME NEW p \in Port, Request(p) \/ Sender(p) \/ TimesOut(p) \/ SendFails(p), ~Send(p)
      PROVE  pipe' = pipe
    BY <1>8, SenderCases DEF Rests, GetTracker, ClaimSpace, SetLength, hub
<1>9. CASE Reader \/ AskFails
    BY <1>2, <1>3, <1>9 DEF Reader, ReadReturn, ReadStatus, ReadData, ReturnUnexpected,
        SetReturnCode, ReleaseSpace, CountsUnknown, AskStatus, AskFails, KillOutstanding, hub
<1>10. CASE Lose
    BY <1>2, <1>3, <1>10 DEF Lose
<1>11. CASE UNCHANGED vars
    BY <1>2, <1>11 DEF vars, hub
<1>. QED
    BY <1>2, <1>4, <1>5, <1>6, <1>7, <1>8, <1>9, <1>10, <1>11 DEF Next

LEMMA ReportFacts ==
    ASSUME IInv, pipe # <<>>
    PROVE  Head(pipe) \in ToSet(pipe)
BY TypeFacts, TailSet

LEMMA SpaceType ==
    ASSUME IInv, TypeRest, [Next]_vars
    PROVE  space' \in [Port -> Nat \cup {Unknown}]
<1>1. space \in [Port -> Nat \cup {Unknown}]
    BY DEF TypeRest
<1>2. CASE space' = space
    BY <1>1, <1>2
<1>3. ASSUME NEW p \in Port, ClaimSpace(p)
      PROVE  space' \in [Port -> Nat \cup {Unknown}]
    <2>1. space[p] \in Nat /\ th[p].size \in Nat
        BY <1>1, <1>3, ThreadFacts DEF ClaimSpace, Fits, ThreadState
    <2>2. space' = [space EXCEPT ![p] = space[p] + th[p].size]
        BY <1>3 DEF ClaimSpace
    <2>. QED
        BY <1>1, <2>1, <2>2
<1>4. CASE ReadStatus
    <2>1. Head(pipe).used \in [Port -> Nat]
        BY <1>4, ReportFacts DEF ReadStatus, TypeRest, KindOK
    <2>. QED
        BY <1>1, <1>4, <2>1 DEF ReadStatus
<1>5. CASE ReleaseSpace
    <2>. PICK q : q = PortOf(rd.id)
        OBVIOUS
    <2>1. space' = [space EXCEPT ![q] = IF @ = Unknown THEN Unknown ELSE GivenBack(@, rd.len)]
        BY <1>5 DEF ReleaseSpace, Length
    <2>2. rd.len \in Nat
        BY TypeFacts
    <2>3. \A n \in Nat : GivenBack(n, rd.len) \in Nat
        BY <2>2 DEF GivenBack
    <2>. QED
        BY <1>1, <2>1, <2>3
<1>6. CASE CountsUnknown
    BY <1>1, <1>6 DEF CountsUnknown
<1>7. CASE KillOutstanding
    BY <1>7 DEF KillOutstanding
<1>8. ASSUME NEW p \in Port, Request(p) \/ Sender(p) \/ TimesOut(p) \/ SendFails(p) \/ Answer(p)
      PROVE  space' \in [Port -> Nat \cup {Unknown}]
    BY <1>2, <1>3, <1>8, SenderCases DEF Rests, GetTracker, SetLength, Send, Answer
<1>9. CASE Reader \/ AskFails
    BY <1>2, <1>4, <1>5, <1>6, <1>7, <1>9 DEF Reader, ReadReturn, ReadData, ReturnUnexpected,
        SetReturnCode, AskStatus, AskFails
<1>10. CASE Status \/ Data \/ Lose \/ UNCHANGED vars
    BY <1>2, <1>10 DEF Status, Data, Lose, vars
<1>. QED
    BY <1>8, <1>9, <1>10 DEF Next

LEMMA SizeType ==
    ASSUME IInv, TypeRest, [Next]_vars
    PROVE  \A p \in Port : th'[p].size \in Sizes \cup {0}
<1>1. \A p \in Port : th[p].size \in Sizes \cup {0}
    BY DEF TypeRest
<1>2. CASE th' = th
    BY <1>1, <1>2
<1>3. ASSUME NEW p \in Port, NEW q \in Port, Rests(p)
      PROVE  th'[q].size \in Sizes \cup {0}
    BY <1>1, <1>3 DEF Rests
<1>4. ASSUME NEW p \in Port, NEW q \in Port,
             GetTracker(p) \/ ClaimSpace(p) \/ SetLength(p) \/ Send(p)
      PROVE  th'[q].size \in Sizes \cup {0}
    <2>1. th \in [Port -> ThreadState] /\ th[p] \in ThreadState /\ th[q].size \in Sizes \cup {0}
        BY <1>1, ThreadFacts
    <2>2. CASE GetTracker(p)
        <3>1. PICK j \in FreeAt(p), n \in Sizes :
                th' = [th EXCEPT ![p].pc = "claim", ![p].id = Candidate(p, j), ![p].size = n]
            BY <2>2 DEF GetTracker
        <3>. QED
            BY <2>1, <3>1 DEF ThreadState
    <2>3. CASE ClaimSpace(p) \/ SetLength(p) \/ Send(p)
        <3>1. PICK pc : th' = [th EXCEPT ![p].pc = pc]
            BY <2>3 DEF ClaimSpace, SetLength, Send, Goto
        <3>. QED
            BY <2>1, <3>1 DEF ThreadState
    <2>. QED
        BY <1>4, <2>2, <2>3
<1>5. ASSUME NEW p \in Port, Request(p) \/ Sender(p) \/ TimesOut(p) \/ SendFails(p)
      PROVE  \A q \in Port : th'[q].size \in Sizes \cup {0}
    BY <1>3, <1>4, <1>5, SenderCases
<1>6. ASSUME NEW p \in Port, Answer(p) PROVE th' = th
    BY <1>6 DEF Answer
<1>7. CASE Reader \/ AskFails
    BY <1>2, <1>7 DEF Reader, ReadReturn, ReadStatus, ReadData, ReturnUnexpected,
        SetReturnCode, ReleaseSpace, CountsUnknown, AskStatus, AskFails, KillOutstanding
<1>8. CASE Status \/ Data \/ Lose \/ UNCHANGED vars
    BY <1>2, <1>8 DEF Status, Data, Lose, vars
<1>. QED
    BY <1>2, <1>5, <1>6, <1>7, <1>8 DEF Next

LEMMA AskedType ==
    ASSUME IInv, asked \in Nat, [Next]_vars
    PROVE  asked' \in Nat
<1>1. ASSUME NEW p \in Port, Request(p) \/ Sender(p) \/ TimesOut(p) \/ SendFails(p) \/ Answer(p)
      PROVE  asked' = asked
    BY <1>1, SenderCases DEF Rests, GetTracker, ClaimSpace, SetLength, Send, Answer, hub
<1>2. CASE Reader \/ AskFails
    BY <1>2 DEF Reader, ReadReturn, ReadStatus, ReadData, ReturnUnexpected,
        SetReturnCode, ReleaseSpace, CountsUnknown, AskStatus, AskFails, KillOutstanding, hub
<1>3. CASE Status \/ Data \/ Lose \/ UNCHANGED vars
    BY <1>3 DEF Status, Data, Lose, vars, hub
<1>. QED
    BY <1>1, <1>2, <1>3 DEF Next

LEMMA NextTypes == IInv /\ TypeRest /\ [Next]_vars => TypeRest'
<1>. SUFFICES ASSUME IInv, TypeRest, [Next]_vars PROVE TypeRest'
    OBVIOUS
<1>1. StatusNow.used \in [Port -> Nat] /\ StatusNow.kind = "status"
    BY UsedType DEF StatusNow
<1>2. \A r \in ToSet(pipe)' : KindOK(r)
    BY <1>1, PipeAfter DEF KindOK, TypeRest
<1>3. \A r \in ToSet(pipe)' : KindOK(r)'
    BY <1>2 DEF KindOK
<1>4. asked' \in Nat
    BY AskedType DEF TypeRest
<1>. QED
    BY <1>3, <1>4, SpaceType, SizeType DEF TypeRest

LEMMA InitTypes == Init => TypeRest
<1>. SUFFICES ASSUME Init PROVE TypeRest
    OBVIOUS
<1>1. ToSet(pipe) = {}
    BY EmptyList DEF Init
<1>2. \A p \in Port : th[p].size = 0
    BY DEF Init, Idle
<1>. QED
    BY <1>1, <1>2 DEF Init, TypeRest

LEMMA TypesImply == IInv /\ IdInv /\ TypeRest => TypeOK
<1>. SUFFICES ASSUME IInv, IdInv, TypeRest PROVE TypeOK
    OBVIOUS
<1>1. /\ state \in [Id -> SUBSET Flag]
      /\ code \in [Id -> Code]
      /\ len \in [Id -> Nat]
      /\ counter \in [Port -> Nat]
      /\ gap \in BOOLEAN
    BY DEF IInv, TypesOK
<1>2. space \in [Port -> Nat \cup {Unknown}] /\ asked \in Nat
    BY DEF TypeRest
<1>3. /\ rd.pc \in {"idle", "code", "space", "unknown", "ask", "asklost", "kill"}
      /\ rd.id \in Id \cup {NoId}
    BY TypeFacts
<1>4. \A k \in DOMAIN pipe : pipe[k].kind \in {"return", "status", "data"}
    BY DEF TypeRest, KindOK, ToSet
<1>5. ASSUME NEW p \in Port
      PROVE  /\ th[p].pc \in Holding \cup {"idle", "get"}
             /\ th[p].id \in IF th[p].pc \in Holding THEN IdsOf(p) ELSE {NoId}
             /\ th[p].size \in Sizes \cup {0}
             /\ th[p].list \in Seq(IdsOf(p))
             /\ {th[p].todo, th[p].all} \subseteq Nat
             /\ {th[p].trans, th[p].ending} \subseteq BOOLEAN
             /\ {th[p].res, th[p].error} \subseteq Code
             /\ \A k \in DOMAIN fw[p] : fw[p][k].id \in IdsOf(p)
    <2>1. th[p] \in ThreadState /\ ThreadOK(p, th[p]) /\ th[p].list \in Seq(Id)
        BY ThreadFacts
    <2>2. th[p].list \in Seq(IdsOf(p))
        <3>1. \A k \in 1..Len(th[p].list) : th[p].list[k] \in IdsOf(p)
            BY <2>1, ToSetMembers DEF ThreadOK
        <3>. QED
            BY <2>1, <3>1, LenProperties, SeqDef
    <2>3. \A k \in DOMAIN fw[p] : fw[p][k].id \in IdsOf(p)
        BY DEF IdInv, Ids
    <2>4. th[p].id \in IF th[p].pc \in Holding THEN IdsOf(p) ELSE {NoId}
        BY <2>1 DEF ThreadOK
    <2>5. th[p].size \in Sizes \cup {0}
        BY DEF TypeRest
    <2>. QED
        BY <2>1, <2>2, <2>3, <2>4, <2>5 DEF ThreadState
<1>. QED
    BY <1>1, <1>2, <1>3, <1>4, <1>5 DEF TypeOK

\* Whatever is lost and fails, the hub's state has its type: a count of bytes is a
\* natural number or unknown, and never below 0 (releasePacketSpace,
\* hubdevice.c), and a tracker in use by the sender of a port is one of the
\* port's ids.
THEOREM HubTypes == Spec => []TypeOK
<1>1. Init => IInv /\ IdInv /\ TypeRest
    BY InitOK, InitIds, InitTypes
<1>2. IInv /\ IdInv /\ TypeRest /\ [Next]_vars => (IInv /\ IdInv /\ TypeRest)'
    BY NextOK, NextIds, NextTypes
<1>3. IInv /\ IdInv /\ TypeRest => TypeOK
    BY TypesImply
<1>. QED
    BY <1>1, <1>2, <1>3, PTL DEF Spec

-----------------------------------------------------------------------------
(* The lengths: a packet has the length that its tracker has, wherever it is   *)

Lengths ==
    /\ \A i \in Id : "SIGNALLED" \in state[i] => "SENT" \in state[i]
    /\ \A p \in Port : th[p].pc = "send" => len[th[p].id] = th[p].size
    /\ \A p \in Port : \A pkt \in ToSet(fw[p]) : pkt.len = len[pkt.id]
    /\ rd.pc = "code" => rd.len = len[rd.id]

LengthInv == lost = 0 => Lengths

\* A packet on its way waits for its answer.
LEMMA WayFacts ==
    ASSUME IInv, IdInv, lost = 0
    PROVE  /\ NoGap /\ Apart /\ Unsent
           /\ \A i \in Id : OnWay(i) => "INUSE" \in state[i] /\ "SENT" \in state[i]
                                      /\ "SIGNALLED" \notin state[i]
           /\ \A p \in Port : \A pkt \in ToSet(fw[p]) : pkt.id \in IdsOf(p) /\ pkt.id \in Id
                                                       /\ OnWay(pkt.id)
           /\ rd.pc = "code" => rd.id \in Id /\ OnWay(rd.id)
<1>1. \A p \in Port : \A pkt \in ToSet(fw[p]) : pkt.id \in IdsOf(p) /\ pkt.id \in Id
                                               /\ OnWay(pkt.id)
    BY IdsOfSet, PortBounds DEF IdInv, OnWay
<1>2. rd.pc = "code" => rd.id \in Id /\ OnWay(rd.id)
    BY TypeFacts DEF OnWay, ReaderIds
<1>. QED
    BY <1>1, <1>2 DEF IdInv, Waits

LEMMA SendingFacts ==
    ASSUME IInv, NEW p \in Port, th[p].pc \in Sending
    PROVE  th[p].id \in IdsOf(p) /\ th[p].id \in Id
BY HoldingFacts, Holds DEF Sending

LEMMA RestsLengths ==
    ASSUME IInv, IdInv, LengthInv, NEW p \in Port, Rests(p)
    PROVE  LengthInv'
<1>. SUFFICES ASSUME lost = 0 PROVE Lengths'
    BY DEF LengthInv, Rests
<1>1. Lengths
    BY DEF LengthInv
<1>2. \A i \in Id : "SIGNALLED" \in state'[i] => "SENT" \in state'[i]
    BY <1>1 DEF Lengths, Rests
<1>3. \A q \in Port : th'[q].pc = "send" => len[th'[q].id] = th'[q].size
    BY <1>1 DEF Lengths, Rests, Sending
<1>. QED
    BY <1>1, <1>2, <1>3 DEF Lengths, Rests

\* The tracker that is taken, and the one whose length is set, belong to no
\* packet on its way.
LEMMA NewLength ==
    ASSUME IInv, IdInv, Lengths, lost = 0, NEW p \in Port, NEW i \in IdsOf(p), ~OnWay(i),
           NEW n \in Nat, len' = [len EXCEPT ![i] = n], UNCHANGED <<fw, rd>>
    PROVE  /\ \A q \in Port : \A pkt \in ToSet(fw[q])' : pkt.len = len'[pkt.id]
           /\ rd'.pc = "code" => rd'.len = len'[rd'.id]
           /\ \A q \in Port \ {p} : th[q].pc = "send" => len'[th[q].id] = th[q].size
<1>1. i \in Id /\ len \in [Id -> Nat]
    BY PortBounds DEF IInv, TypesOK
<1>2. \A q \in Port : \A pkt \in ToSet(fw[q]) : pkt.id # i /\ pkt.id \in Id
    BY WayFacts
<1>3. rd.pc = "code" => rd.id # i
    BY WayFacts
<1>4. ASSUME NEW q \in Port \ {p}, th[q].pc = "send" PROVE th[q].id # i
    <2>1. th[q].id \in IdsOf(q)
        BY <1>4, SendingFacts DEF Sending
    <2>. QED
        BY <2>1, IdsDisjoint
<1>. QED
    BY <1>1, <1>2, <1>3, <1>4 DEF Lengths

LEMMA GetTrackerLengths ==
    ASSUME IInv, IdInv, LengthInv, NEW p \in Port, GetTracker(p)
    PROVE  LengthInv'
<1>1. PICK j \in FreeAt(p), n \in Sizes :
        /\ state' = [state EXCEPT ![Candidate(p, j)] = @ \cup {"INUSE"}]
        /\ len' = [len EXCEPT ![Candidate(p, j)] = 0]
        /\ th' = [th EXCEPT ![p].pc = "claim", ![p].id = Candidate(p, j), ![p].size = n]
    BY DEF GetTracker
<1>. PICK i : i = Candidate(p, j)
    OBVIOUS
<1>2. i \in IdsOf(p) /\ i \in Id /\ "INUSE" \notin state[i]
    BY CandidateOK, PortBounds DEF FreeAt, Is, IInv, TypesOK
<1>3. state[i] = {}
    BY <1>2, ThreadFacts DEF Accounted
<1>4. UNCHANGED <<fw, rd, lost>>
    BY DEF GetTracker, hub, bounds
<1>. SUFFICES ASSUME lost = 0 PROVE Lengths'
    BY <1>4 DEF LengthInv
<1>5. Lengths
    BY DEF LengthInv
<1>6. ~OnWay(i)
    BY <1>2, <1>3, WayFacts
<1>7. \A k \in Id : "SIGNALLED" \in state'[k] => "SENT" \in state'[k]
    BY <1>1, <1>2, <1>3, <1>5, TypeFacts DEF Lengths
<1>8. th'[p].pc = "claim" /\ \A q \in Port \ {p} : th'[q] = th[q]
    BY <1>1, ThreadFacts DEF ThreadState
<1>9. /\ \A q \in Port : \A pkt \in ToSet(fw[q])' : pkt.len = len'[pkt.id]
      /\ rd'.pc = "code" => rd'.len = len'[rd'.id]
      /\ \A q \in Port \ {p} : th[q].pc = "send" => len'[th[q].id] = th[q].size
    BY <1>1, <1>2, <1>4, <1>5, <1>6, NewLength
<1>. QED
    BY <1>7, <1>8, <1>9 DEF Lengths

LEMMA SetLengthLengths ==
    ASSUME IInv, IdInv, LengthInv, NEW p \in Port, SetLength(p)
    PROVE  LengthInv'
<1>. PICK i, n : i = th[p].id /\ n = th[p].size
    OBVIOUS
<1>1. /\ th'[p].id = i /\ th'[p].size = n /\ \A q \in Port \ {p} : th'[q] = th[q]
      /\ len' = [len EXCEPT ![i] = n]
    BY ThreadFacts DEF SetLength, Goto, ThreadState
<1>2. th[p].pc \in Sending
    BY DEF SetLength, At, Sending
<1>3. i \in IdsOf(p) /\ i \in Id
    BY <1>2, SendingFacts
<1>4. UNCHANGED <<fw, rd, lost>> /\ UNCHANGED state
    BY DEF SetLength, hub, bounds
<1>. SUFFICES ASSUME lost = 0 PROVE Lengths'
    BY <1>4 DEF LengthInv
<1>5. Lengths
    BY DEF LengthInv
<1>6. ~OnWay(i)
    BY <1>2, <1>3, WayFacts DEF Unsent
<1>7. /\ \A q \in Port : \A pkt \in ToSet(fw[q])' : pkt.len = len'[pkt.id]
      /\ rd'.pc = "code" => rd'.len = len'[rd'.id]
      /\ \A q \in Port \ {p} : th[q].pc = "send" => len'[th[q].id] = th[q].size
    <2>1. n \in Nat
        BY ThreadFacts DEF ThreadState
    <2>. QED
        BY <1>1, <1>3, <1>4, <1>5, <1>6, <2>1, NewLength
<1>8. len'[i] = n
    BY <1>1, <1>3 DEF IInv, TypesOK
<1>. QED
    BY <1>1, <1>4, <1>5, <1>7, <1>8 DEF Lengths

LEMMA ClaimLengths ==
    ASSUME IInv, IdInv, LengthInv, NEW p \in Port, ClaimSpace(p)
    PROVE  LengthInv'
<1>1. UNCHANGED <<state, len, fw, rd, lost>>
    BY DEF ClaimSpace, trackers, hub, bounds
<1>2. th'[p].pc = "length" /\ \A q \in Port \ {p} : th'[q] = th[q]
    BY ThreadFacts DEF ClaimSpace, Goto, ThreadState
<1>. QED
    BY <1>1, <1>2 DEF LengthInv, Lengths

LEMMA SendLengths ==
    ASSUME IInv, IdInv, LengthInv, NEW p \in Port, Send(p)
    PROVE  LengthInv'
<1>1. UNCHANGED <<len, rd, lost>>
    BY DEF Send, bounds
<1>. SUFFICES ASSUME lost = 0 PROVE Lengths'
    BY <1>1 DEF LengthInv
<1>2. Lengths
    BY DEF LengthInv
<1>3. th[p].pc = "send" /\ th[p].id \in Id /\ len[th[p].id] = th[p].size
    BY <1>2, SendingFacts DEF Send, At, Lengths, Sending
<1>4. th'[p].pc \in {"reap", "wait"} /\ \A q \in Port \ {p} : th'[q] = th[q]
    BY ThreadFacts DEF Send, Goto, ThreadState
<1>5. \A i \in Id : "SIGNALLED" \in state'[i] => "SENT" \in state'[i]
    BY <1>2, <1>3, TypeFacts DEF Send, Lengths
<1>. DEFINE pkt == [id |-> th[p].id, len |-> th[p].size, request |-> left[p]]
<1>6. pkt.id = th[p].id /\ pkt.len = th[p].size
    OBVIOUS
<1>7. fw' = [fw EXCEPT ![p] = Append(@, pkt)] \/ fw' = fw
    BY DEF Send
<1>. HIDE DEF pkt
<1>8. fw \in [Port -> Seq(Packet)]
    BY TypeFacts
<1>9. ASSUME NEW q \in Port, NEW k \in ToSet(fw'[q]) PROVE k.len = len[k.id]
    <2>1. CASE k \in ToSet(fw[q])
        BY <1>2, <2>1 DEF Lengths
    <2>2. CASE k \notin ToSet(fw[q])
        <3>1. q = p /\ fw'[q] = Append(fw[q], pkt)
            BY <1>7, <1>8, <1>9, <2>2
        <3>2. k = pkt
            BY <1>8, <1>9, <2>2, <3>1, AppendSet
        <3>. QED
            BY <1>3, <1>6, <3>2
    <2>. QED
        BY <2>1, <2>2
<1>. QED
    BY <1>1, <1>2, <1>4, <1>5, <1>9 DEF Lengths

LEMMA ReaderPc ==
    ASSUME IInv, lost = 0, NoGap, Reader \/ AskFails, ~ReadReturn
    PROVE  /\ ~KillOutstanding
           /\ rd'.pc # "code"
           /\ UNCHANGED <<th, len, fw, lost, fails>>
<1>1. ~KillOutstanding
    BY DEF NoGap, KillOutstanding
<1>2. UNCHANGED <<th, len, fw, lost, fails>>
    BY DEF Reader, ReadStatus, ReadData, ReturnUnexpected, SetReturnCode, ReleaseSpace,
        CountsUnknown, AskStatus, AskFails, KillOutstanding, trackers, hub, bounds
<1>3. \A pc \in {"unknown", "ask", "asklost", "kill", "space"} : [rd EXCEPT !.pc = pc].pc = pc
    BY TypeFacts
<1>4. Reads.pc = "idle"
    BY DEF Reads
<1>5. CASE ReturnUnexpected \/ SetReturnCode \/ ReleaseSpace \/ CountsUnknown \/ AskStatus \/ AskFails
    <2>1. Checked(rd).pc \in {"idle", "asklost"}
        BY <1>3, <1>4 DEF Checked
    <2>2. Asked.pc \in {"idle", "asklost", "kill"}
        BY <1>3, <2>1 DEF Asked
    <2>3. rd'.pc # "code"
        BY <1>3, <1>5, <2>1, <2>2 DEF ReturnUnexpected, SetReturnCode, ReleaseSpace,
            CountsUnknown, AskStatus, AskFails
    <2>. QED
        BY <1>1, <1>2, <2>3
<1>6. CASE ReadStatus \/ ReadData
    <2>. PICK r : r = [rd EXCEPT !.gap = gap]
        OBVIOUS
    <2>1. ~r.gap
        BY TypeFacts DEF NoGap
    <2>2. rd' = Reads
        BY <1>6, <2>1 DEF ReadStatus, ReadData, Checked
    <2>. QED
        BY <1>1, <1>2, <1>4, <2>2
<1>. QED
    BY <1>1, <1>2, <1>5, <1>6 DEF Reader

LEMMA ReaderLengths ==
    ASSUME IInv, IdInv, LengthInv, Reader \/ AskFails
    PROVE  LengthInv'
<1>1. lost' = lost
    BY DEF Reader, ReadReturn, ReadStatus, ReadData, ReturnUnexpected, SetReturnCode,
        ReleaseSpace, CountsUnknown, AskStatus, AskFails, KillOutstanding, bounds
<1>. SUFFICES ASSUME lost = 0 PROVE Lengths'
    BY <1>1 DEF LengthInv
<1>2. Lengths /\ NoGap
    BY WayFacts DEF LengthInv
<1>3. CASE ReadReturn
    <2>1. rd'.len = len[rd'.id] /\ UNCHANGED <<state, th, len, fw>>
        BY <1>3 DEF ReadReturn, trackers
    <2>. QED
        BY <1>2, <2>1 DEF Lengths
<1>4. CASE SetReturnCode
    <2>1. rd.id \in Id /\ "SENT" \in state[rd.id]
        BY <1>4, WayFacts DEF SetReturnCode
    <2>2. \A i \in Id : "SIGNALLED" \in state'[i] => "SENT" \in state'[i]
        BY <1>2, <1>4, <2>1, TypeFacts DEF SetReturnCode, Answered, Lengths
    <2>3. rd'.pc # "code" /\ UNCHANGED <<th, len, fw>>
        BY <1>2, <1>4, ReaderPc DEF Reader, SetReturnCode, ReadReturn
    <2>. QED
        BY <1>2, <2>2, <2>3 DEF Lengths
<1>5. CASE ~ReadReturn /\ ~SetReturnCode
    <2>1. /\ ~KillOutstanding
          /\ rd'.pc # "code" /\ UNCHANGED <<th, len, fw>>
        BY <1>2, <1>5, ReaderPc
    <2>2. state' = state
        BY <1>5, <2>1 DEF Reader, ReadStatus, ReadData, ReturnUnexpected, ReleaseSpace,
            CountsUnknown, AskStatus, AskFails, trackers
    <2>. QED
        BY <1>2, <2>1, <2>2 DEF Lengths
<1>. QED
    BY <1>3, <1>4, <1>5

LEMMA HubLengths ==
    ASSUME IInv, IdInv, LengthInv, Status \/ Data \/ Lose \/ \E p \in Port : Answer(p)
    PROVE  LengthInv'
<1>. SUFFICES ASSUME lost' = 0 PROVE Lengths'
    BY DEF LengthInv
<1>1. lost = 0 /\ UNCHANGED <<state, th, len, rd>>
    <2>1. ~Lose
        BY DEF Lose, IdInv
    <2>. QED
        BY <2>1 DEF Status, Data, Answer, trackers, bounds
<1>2. Lengths
    BY <1>1 DEF LengthInv
<1>3. \A p \in Port : ToSet(fw[p])' \subseteq ToSet(fw[p])
    <2>1. CASE Status \/ Data \/ Lose
        BY <2>1 DEF Status, Data, Lose
    <2>2. ASSUME NEW p \in Port, NEW q \in Port, Answer(p)
          PROVE  ToSet(fw[q])' \subseteq ToSet(fw[q])
        <3>1. /\ fw \in [Port -> Seq(Packet)] /\ fw[p] # <<>>
              /\ fw' = [fw EXCEPT ![p] = Tail(fw[p])]
            BY <2>2, TypeFacts DEF Answer
        <3>2. ToSet(Tail(fw[p])) \subseteq ToSet(fw[p])
            BY <3>1, TailSet
        <3>. QED
            BY <3>1, <3>2
    <2>. QED
        BY <2>1, <2>2
<1>. QED
    BY <1>1, <1>2, <1>3 DEF Lengths

LEMMA NextLengths == IInv /\ IdInv /\ LengthInv /\ [Next]_vars => LengthInv'
<1>. SUFFICES ASSUME IInv, IdInv, LengthInv, [Next]_vars PROVE LengthInv'
    OBVIOUS
<1>1. ASSUME NEW p \in Port, Request(p) \/ Sender(p) \/ TimesOut(p) \/ SendFails(p)
      PROVE  LengthInv'
    BY <1>1, SenderCases, RestsLengths, GetTrackerLengths, ClaimLengths,
       SetLengthLengths, SendLengths
<1>2. CASE UNCHANGED vars
    <2>1. UNCHANGED <<lost, state, th, len, fw, rd>>
        BY <1>2 DEF vars, trackers, hub, bounds
    <2>. QED
        BY <2>1 DEF LengthInv, Lengths
<1>. QED
    BY <1>1, <1>2, ReaderLengths, HubLengths DEF Next

LEMMA InitLengths == Init => LengthInv
<1>. SUFFICES ASSUME Init PROVE Lengths
    BY DEF LengthInv
<1>1. \A p \in Port : fw[p] = <<>> /\ th[p].pc = "idle"
    BY DEF Init, Idle
<1>2. \A p \in Port : ToSet(fw[p]) = {}
    BY <1>1, EmptyList
<1>3. rd.pc = "idle" /\ \A i \in Id : state[i] = {}
    BY DEF Init, Reads
<1>. QED
    BY <1>1, <1>2, <1>3 DEF Lengths

-----------------------------------------------------------------------------
(* The count of a port and the bytes it is for                                *)

ToGive(p) == IF rd.pc = "space" /\ PortOf(rd.id) = p THEN rd.len ELSE 0
ToSend(p) == IF th[p].pc \in {"length", "send"} THEN th[p].size ELSE 0
Due(p) == Sum(len, OnTheWay(p)) + ToGive(p) + ToSend(p)

\* While the count is unknown nobody claims, so nothing is on its way, and what
\* the hub then tells of its buffer is that it is empty.
Quiet(p) ==
    /\ OnTheWay(p) = {}
    /\ th[p].pc \notin {"length", "send"}
    /\ ~(rd.pc = "space" /\ PortOf(rd.id) = p)
    /\ \A r \in ToSet(pipe) : r.kind = "status" => r.used[p] = 0

Counts(p) ==
    IF space[p] = Unknown THEN Quiet(p)
    ELSE /\ space[p] < BufferLen
         /\ Due(p) <= space[p]
         /\ fails = 0 => Due(p) = space[p]

\* The hub has room for every packet, so the count never becomes unknown.
NoRefusal ==
    /\ \A r \in ToSet(pipe) : r.kind = "return" => r.code # "NOSPC"
    /\ rd.pc \in {"code", "space"} => rd.code # "NOSPC"
    /\ rd.pc \notin {"unknown", "ask"}

SpaceInv ==
    /\ fails \in Nat
    /\ lost = 0 => NoRefusal /\ \A p \in Port : Counts(p)

\* Where a step starts as long as nothing is lost.
Before ==
    /\ IInv /\ IdInv /\ TypeRest /\ Lengths
    /\ lost = 0 /\ fails \in Nat
    /\ NoRefusal /\ \A p \in Port : Counts(p)

LEMMA WayIs ==
    ASSUME NEW p \in Port
    PROVE  /\ OnTheWay(p) = Ids(fw[p]) \cup (IdsOf(p) \cap (AnsIds(pipe) \cup ReaderIds))
           /\ OnTheWay(p)' =
                Ids(fw'[p]) \cup (IdsOf(p) \cap (AnsIds(pipe') \cup ReaderIds'))
BY DEF OnTheWay, PacketIds, Ids, AnswerIds, Answers, AnsIds, Ans

LEMMA WayMembers ==
    ASSUME IInv, IdInv, NEW p \in Port
    PROVE  /\ OnTheWay(p) \subseteq IdsOf(p)
           /\ IsFiniteSet(OnTheWay(p))
           /\ \A i \in OnTheWay(p) : i \in Id /\ OnWay(i) /\ len[i] \in Nat
           /\ Sum(len, OnTheWay(p)) \in Nat
<1>1. Ids(fw[p]) \subseteq IdsOf(p)
    BY DEF IdInv
<1>2. OnTheWay(p) \subseteq IdsOf(p) /\ \A i \in OnTheWay(p) : OnWay(i)
    BY <1>1, WayIs DEF OnWay
<1>3. IsFiniteSet(OnTheWay(p))
    <2>1. FirstId(p) \in Int /\ LastId(p) \in Int
        BY PortBounds, HubAssumption DEF FirstId, LastId, Port
    <2>. QED
        BY <1>2, <2>1, FS_Interval, FS_Subset DEF IdsOf
<1>4. \A i \in OnTheWay(p) : i \in Id /\ len[i] \in Nat
    BY <1>2, PortBounds DEF IInv, TypesOK
<1>5. Sum(len, OnTheWay(p)) \in Nat
    BY <1>3, <1>4, BytesFinite DEF Sum
<1>. QED
    BY <1>2, <1>3, <1>4, <1>5

LEMMA DueTypes ==
    ASSUME IInv, NEW p \in Port
    PROVE  ToGive(p) \in Nat /\ ToSend(p) \in Nat
BY ThreadFacts, TypeFacts DEF ToGive, ToSend, ThreadState

LEMMA DueIs ==
    ASSUME NEW p \in Port
    PROVE  /\ Due(p) = Sum(len, OnTheWay(p)) + ToGive(p) + ToSend(p)
           /\ Due(p)' = Sum(len', OnTheWay(p)') + ToGive(p)' + ToSend(p)'
BY DEF Due

\* The bytes of port p stay what they were.
LEMMA CountKept ==
    ASSUME Before, NEW p \in Port, space'[p] = space[p],
           OnTheWay(p)' = OnTheWay(p), \A i \in OnTheWay(p) : len'[i] = len[i],
           ToGive(p)' = ToGive(p), ToSend(p)' = ToSend(p), fails' = fails \/ fails' # 0,
           Quiet(p) => Quiet(p)'
    PROVE  Counts(p)'
<1>1. Sum(len', OnTheWay(p)') = Sum(len, OnTheWay(p))
    BY SumSame
<1>2. Due(p)' = Due(p)
    BY <1>1, DueIs
<1>. QED
    BY <1>2 DEF Before, Counts

-----------------------------------------------------------------------------
(* The steps of a sender and its port's count                                  *)

\* ... leave the others' alone.
LEMMA OtherPorts ==
    ASSUME Before, NEW p \in Port, NEW q \in Port, q # p, th'[q] = th[q],
           UNCHANGED <<rd, pipe>>, fails' = fails \/ fails' # 0,
           space'[q] = space[q], fw'[q] = fw[q],
           \A i \in Id \ IdsOf(p) : len'[i] = len[i]
    PROVE  Counts(q)'
<1>1. OnTheWay(q)' = OnTheWay(q)
    BY WayIs DEF ReaderIds
<1>2. \A i \in OnTheWay(q) : len'[i] = len[i]
    <2>1. OnTheWay(q) \subseteq IdsOf(q) /\ \A i \in OnTheWay(q) : i \in Id
        BY WayMembers DEF Before
    <2>. QED
        BY <2>1, IdsDisjoint
<1>3. ToGive(q)' = ToGive(q) /\ ToSend(q)' = ToSend(q) /\ (Quiet(q) => Quiet(q)')
    BY <1>1 DEF ToGive, ToSend, Quiet
<1>. QED
    BY <1>1, <1>2, <1>3, CountKept

LEMMA SenderCovers ==
    ASSUME Before, NEW p \in Port, \A q \in Port \ {p} : th'[q] = th[q],
           UNCHANGED <<rd, pipe>>, fails' = fails \/ fails' # 0,
           \A q \in Port \ {p} : space'[q] = space[q] /\ fw'[q] = fw[q],
           \A i \in Id \ IdsOf(p) : len'[i] = len[i],
           Counts(p)'
    PROVE  NoRefusal' /\ \A q \in Port : Counts(q)'
<1>1. NoRefusal'
    BY DEF Before, NoRefusal
<1>2. ASSUME NEW q \in Port PROVE Counts(q)'
    <2>1. CASE q = p
        BY <2>1
    <2>2. CASE q # p
        BY <2>2, OtherPorts
    <2>. QED
        BY <2>1, <2>2
<1>. QED
    BY <1>1, <1>2

\* A packet that is claimed is sent, unless that fails: then its bytes stay
\* claimed.
LEMMA RestsPc ==
    ASSUME Before, NEW p \in Port,
           Request(p) \/ Sender(p) \/ TimesOut(p) \/ SendFails(p),
           ~GetTracker(p), ~ClaimSpace(p), ~SetLength(p), ~Send(p)
    PROVE  /\ Rests(p)
           /\ fails' = fails \/ fails' # 0
           /\ th[p].pc \in {"length", "send"} => fails' # 0
<1>1. Rests(p)
    BY SenderCases DEF Before
<1>2. CASE SendFails(p)
    BY <1>1, <1>2 DEF SendFails, Before
<1>3. CASE SendInterrupted(p)
    <2>1. th[p].pc \in Sending /\ "SIGNALLED" \in state[th[p].id]
        BY <1>3 DEF SendInterrupted, At, Is, Sending
    <2>2. th[p].id \in Id /\ "SENT" \notin state[th[p].id]
        BY <2>1, SendingFacts, WayFacts DEF Before, Unsent
    <2>. QED
        BY <2>1, <2>2 DEF Before, Lengths
<1>4. CASE ~SendFails(p) /\ ~SendInterrupted(p)
    <2>1. fails' = fails /\ th[p].pc \notin {"length", "send"}
        BY <1>4 DEF Request, Sender, TimesOut, Reap, WaitAnswered, Release, GetTimesOut,
            ClaimTimesOut, WaitTimesOut, At, bounds
    <2>. QED
        BY <1>1, <2>1
<1>. QED
    BY <1>2, <1>3, <1>4

LEMMA RestsCovers ==
    ASSUME Before, NEW p \in Port, Rests(p), fails' = fails \/ fails' # 0,
           th[p].pc \in {"length", "send"} => fails' # 0
    PROVE  NoRefusal' /\ \A q \in Port : Counts(q)'
<1>1. /\ UNCHANGED <<len, fw, pipe, rd, space>> /\ th'[p].pc \notin {"length", "send"}
      /\ \A q \in Port \ {p} : th'[q] = th[q]
    BY DEF Rests, Sending
<1>2. OnTheWay(p)' = OnTheWay(p) /\ ToGive(p)' = ToGive(p) /\ ToSend(p)' = 0
    BY <1>1, WayIs DEF ReaderIds, ToGive, ToSend
<1>3. Quiet(p) => Quiet(p)'
    BY <1>1, <1>2 DEF Quiet
<1>4. CASE th[p].pc \notin {"length", "send"}
    <2>1. ToSend(p)' = ToSend(p)
        BY <1>2, <1>4 DEF ToSend
    <2>2. Counts(p)'
        BY <1>1, <1>2, <1>3, <2>1, CountKept
    <2>. QED
        BY <1>1, <2>2, SenderCovers
<1>5. CASE th[p].pc \in {"length", "send"}
    <2>1. space[p] # Unknown /\ space[p] < BufferLen /\ Due(p) <= space[p]
        BY <1>5 DEF Before, Counts, Quiet
    <2>2. Due(p)' <= Due(p) /\ Due(p)' \in Nat /\ Due(p) \in Nat
        BY <1>1, <1>2, DueIs, DueTypes, WayMembers DEF Before
    <2>3. space[p] \in Nat
        BY <2>1 DEF Before, TypeRest
    <2>4. Counts(p)'
        BY <1>1, <1>5, <2>1, <2>2, <2>3 DEF Counts
    <2>. QED
        BY <1>1, <2>4, SenderCovers
<1>. QED
    BY <1>4, <1>5

\* The tracker that is taken, and the one whose length is set, is not on its way.
LEMMA NewLengthCount ==
    ASSUME Before, NEW p \in Port, NEW i \in IdsOf(p), ~OnWay(i), NEW n,
           len' = [len EXCEPT ![i] = n], UNCHANGED <<fw, pipe, rd, space, fails>>,
           \A q \in Port \ {p} : th'[q] = th[q], ToSend(p)' = ToSend(p),
           th[p].pc \notin {"length", "send"} => th'[p].pc \notin {"length", "send"}
    PROVE  NoRefusal' /\ \A q \in Port : Counts(q)'
<1>1. len \in [Id -> Nat] /\ i \in Id
    BY PortBounds DEF Before, IInv, TypesOK
<1>2. \A j \in Id \ {i} : len'[j] = len[j]
    BY <1>1
<1>3. OnTheWay(p)' = OnTheWay(p) /\ ToGive(p)' = ToGive(p)
    BY WayIs DEF ReaderIds, ToGive
<1>4. \A j \in OnTheWay(p) : len'[j] = len[j]
    BY <1>2, WayMembers DEF Before
<1>5. Quiet(p) => Quiet(p)'
    BY <1>3 DEF Quiet
<1>6. Counts(p)'
    BY <1>3, <1>4, <1>5, CountKept
<1>. QED
    BY <1>2, <1>6, SenderCovers

LEMMA GetTrackerCovers ==
    ASSUME Before, NEW p \in Port, GetTracker(p)
    PROVE  NoRefusal' /\ \A q \in Port : Counts(q)'
<1>0. IInv /\ IdInv /\ lost = 0
    BY DEF Before
<1>1. PICK j \in FreeAt(p), n \in Sizes :
        /\ len' = [len EXCEPT ![Candidate(p, j)] = 0]
        /\ th' = [th EXCEPT ![p].pc = "claim", ![p].id = Candidate(p, j), ![p].size = n]
    BY DEF GetTracker
<1>. PICK i : i = Candidate(p, j)
    OBVIOUS
<1>2. i \in IdsOf(p) /\ i \in Id /\ "INUSE" \notin state[i]
    BY <1>0, CandidateOK, PortBounds DEF FreeAt, Is, IInv, TypesOK
<1>3. ~OnWay(i)
    BY <1>0, <1>2, WayFacts
<1>4. UNCHANGED <<fw, pipe, rd, space, fails>>
    BY DEF GetTracker, hub, bounds
<1>5. th'[p].pc = "claim" /\ th[p].pc = "get" /\ \A q \in Port \ {p} : th'[q] = th[q]
    BY <1>0, <1>1, ThreadFacts DEF ThreadState, GetTracker, At
<1>6. ToSend(p)' = ToSend(p)
    BY <1>5 DEF ToSend
<1>. QED
    BY <1>1, <1>2, <1>3, <1>4, <1>5, <1>6, NewLengthCount

LEMMA SetLengthCovers ==
    ASSUME Before, NEW p \in Port, SetLength(p)
    PROVE  NoRefusal' /\ \A q \in Port : Counts(q)'
<1>0. IInv /\ IdInv /\ lost = 0
    BY DEF Before
<1>. PICK i, n : i = th[p].id /\ n = th[p].size
    OBVIOUS
<1>1. /\ th'[p].pc = "send" /\ th[p].pc = "length" /\ th'[p].size = n
      /\ \A q \in Port \ {p} : th'[q] = th[q]
      /\ len' = [len EXCEPT ![i] = n]
    BY <1>0, ThreadFacts DEF SetLength, Goto, ThreadState, At
<1>2. i \in IdsOf(p) /\ i \in Id /\ ~OnWay(i)
    BY <1>0, <1>1, SendingFacts, WayFacts DEF Unsent, Sending
<1>3. UNCHANGED <<fw, pipe, rd, space, fails>>
    BY DEF SetLength, hub, bounds
<1>4. ToSend(p)' = ToSend(p)
    BY <1>1 DEF ToSend
<1>. QED
    BY <1>1, <1>2, <1>3, <1>4, NewLengthCount

LEMMA ClaimCovers ==
    ASSUME Before, NEW p \in Port, ClaimSpace(p)
    PROVE  NoRefusal' /\ \A q \in Port : Counts(q)'
<1>0. IInv /\ IdInv /\ TypeRest /\ Counts(p)
    BY DEF Before
<1>1. UNCHANGED <<len, fw, pipe, rd, fails>>
    BY DEF ClaimSpace, trackers, hub, bounds
<1>2. /\ th[p].pc = "claim" /\ th'[p].pc = "length" /\ th'[p].size = th[p].size
      /\ \A q \in Port \ {p} : th'[q] = th[q]
    BY <1>0, ThreadFacts DEF ClaimSpace, Goto, ThreadState, At
<1>3. /\ space[p] # Unknown /\ space[p] \in Nat
      /\ space[p] + th[p].size < BufferLen
      /\ space'[p] = space[p] + th[p].size
      /\ \A q \in Port \ {p} : space'[q] = space[q]
    BY <1>0 DEF ClaimSpace, Fits, TypeRest
<1>4. th[p].size \in Nat
    BY <1>0, ThreadFacts DEF ThreadState
<1>5. OnTheWay(p)' = OnTheWay(p) /\ ToGive(p)' = ToGive(p)
    BY <1>1, WayIs DEF ReaderIds, ToGive
<1>6. ToSend(p)' = th[p].size /\ ToSend(p) = 0
    BY <1>2 DEF ToSend
<1>7. Sum(len, OnTheWay(p)) \in Nat /\ ToGive(p) \in Nat
    BY <1>0, DueTypes, WayMembers
<1>8. Due(p)' = Due(p) + th[p].size /\ Due(p) \in Nat
    BY <1>1, <1>4, <1>5, <1>6, <1>7, DueIs
<1>9. space'[p] # Unknown
    BY <1>3, <1>4, HubAssumption
<1>10. Due(p) <= space[p] /\ (fails = 0 => Due(p) = space[p])
    BY <1>0, <1>3 DEF Counts
<1>11. Counts(p)'
    BY <1>1, <1>3, <1>4, <1>8, <1>9, <1>10 DEF Counts
<1>. QED
    BY <1>1, <1>2, <1>3, <1>11, SenderCovers

\* The packet that is sent is one of the packets the count is for, so the buffer
\* of its port has room for it.
LEMMA UsedCovered ==
    ASSUME Before, NEW p \in Port
    PROVE  Used(p) \in Nat /\ Used(p) <= Sum(len, OnTheWay(p))
<1>0. IInv /\ IdInv /\ lost = 0 /\ Lengths
    BY DEF Before
<1>. PICK s, T, f : s = fw[p] /\ T = OnTheWay(p) /\ f = len
    OBVIOUS
<1>1. s \in Seq(Packet) /\ Once(s)
    BY <1>0, TypeFacts, WayFacts DEF Apart
<1>2. IsFiniteSet(T) /\ Ids(s) \subseteq T /\ \A i \in T : f[i] \in Nat
    BY <1>0, WayMembers, WayIs
<1>3. \A k \in DOMAIN s : s[k].len = f[s[k].id]
    BY <1>0 DEF Lengths, ToSet
<1>4. /\ FoldSeq(LAMBDA pkt, n : n + pkt.len, 0, s) \in Nat
      /\ FoldSeq(LAMBDA pkt, n : n + pkt.len, 0, s) <= Sum(f, T)
    BY <1>1, <1>2, <1>3, UsedBelow
<1>. QED
    BY <1>4 DEF Used

LEMMA SendFits ==
    ASSUME Before, NEW p \in Port, th[p].pc = "send"
    PROVE  space[p] # Unknown /\ Used(p) + th[p].size < BufferLen
<1>1. /\ space[p] # Unknown /\ space[p] < BufferLen /\ Due(p) <= space[p]
      /\ space[p] \in Nat
    BY DEF Before, Counts, Quiet, TypeRest
<1>2. Used(p) \in Nat /\ Used(p) <= Sum(len, OnTheWay(p)) /\ Sum(len, OnTheWay(p)) \in Nat
    BY UsedCovered, WayMembers DEF Before
<1>3. ToSend(p) = th[p].size /\ ToSend(p) \in Nat /\ ToGive(p) \in Nat
    BY DueTypes DEF ToSend, Before
<1>4. Due(p) = Sum(len, OnTheWay(p)) + ToGive(p) + ToSend(p)
    BY DueIs
<1>5. BufferLen \in Nat
    BY HubAssumption
<1>. QED
    BY <1>1, <1>2, <1>3, <1>4, <1>5

LEMMA SendCovers ==
    ASSUME Before, NEW p \in Port, Send(p)
    PROVE  NoRefusal' /\ \A q \in Port : Counts(q)'
<1>0. IInv /\ IdInv /\ TypeRest /\ Counts(p) /\ lost = 0 /\ Lengths
    BY DEF Before
<1>. PICK i, n : i = th[p].id /\ n = th[p].size
    OBVIOUS
<1>1. th[p].pc = "send" /\ th[p].pc \in Sending
    BY DEF Send, At, Sending
<1>2. space[p] # Unknown /\ Used(p) + n < BufferLen
    BY <1>1, SendFits
<1>. PICK pkt : pkt = [id |-> i, len |-> n, request |-> left[p]]
    OBVIOUS
<1>3. fw' = [fw EXCEPT ![p] = Append(@, pkt)] /\ pipe' = pipe
    BY <1>2 DEF Send
<1>4. UNCHANGED <<len, rd, space, fails>>
    BY DEF Send, bounds
<1>5. i \in IdsOf(p) /\ i \in Id /\ ~OnWay(i) /\ n = len[i] /\ n \in Nat
    <2>1. i \in IdsOf(p) /\ i \in Id /\ n = len[i]
        BY <1>0, <1>1, SendingFacts DEF Lengths
    <2>2. ~OnWay(i)
        BY <1>0, <1>1, <2>1, WayFacts DEF Unsent
    <2>. QED
        BY <1>0, <2>1, <2>2, ThreadFacts DEF ThreadState
<1>6. pkt.id = i /\ pkt \in Packet
    BY <1>0, <1>5 DEF Packet, IInv, TypesOK
<1>7. fw[p] \in Seq(Packet) /\ fw \in [Port -> Seq(Packet)]
    BY <1>0, TypeFacts
<1>8. fw'[p] = Append(fw[p], pkt) /\ \A q \in Port \ {p} : fw'[q] = fw[q]
    BY <1>3, <1>7
<1>9. Ids(fw'[p]) = Ids(fw[p]) \cup {i}
    BY <1>6, <1>7, <1>8, IdsAppend
<1>10. th'[p].pc \in {"reap", "wait"} /\ \A q \in Port \ {p} : th'[q] = th[q]
    BY <1>0, ThreadFacts DEF Send, Goto, ThreadState
<1>. PICK W : W = OnTheWay(p)
    OBVIOUS
<1>11. OnTheWay(p)' = W \cup {i} /\ i \notin W
    <2>1. ReaderIds' = ReaderIds
        BY <1>4 DEF ReaderIds
    <2>. QED
        BY <1>0, <1>3, <1>5, <1>9, <2>1, WayIs, WayMembers
<1>12. Sum(len, W) \in Nat /\ Sum(len, W \cup {i}) = Sum(len, W) + n
    <2>. PICK f : f = len
        OBVIOUS
    <2>1. IsFiniteSet(W) /\ \A j \in W \cup {i} : f[j] \in Nat
        BY <1>0, <1>5, WayMembers
    <2>2. Sum(f, W) \in Nat /\ Sum(f, W \cup {i}) = Sum(f, W) + f[i]
        BY <1>11, <2>1, SumAdded
    <2>. QED
        BY <1>5, <2>2
<1>13. ToGive(p)' = ToGive(p) /\ ToGive(p) \in Nat /\ ToSend(p) = n /\ ToSend(p)' = 0
    BY <1>0, <1>1, <1>4, <1>10, DueTypes DEF ToGive, ToSend
<1>14. Due(p)' = Due(p)
    <2>1. Sum(len', OnTheWay(p)') = Sum(len, W \cup {i})
        BY <1>4, <1>11
    <2>. QED
        BY <1>5, <1>12, <1>13, <2>1, DueIs
<1>15. Counts(p)'
    BY <1>0, <1>2, <1>4, <1>14 DEF Counts
<1>. QED
    BY <1>3, <1>4, <1>8, <1>10, <1>15, SenderCovers

-----------------------------------------------------------------------------
(* The steps of the reader and of the hub and the counts                       *)

\* ... that move no packet off the way and touch no tracker's length.
LEMMA WayKept ==
    ASSUME Before, UNCHANGED <<th, len, fails>>,
           NEW p \in Port, OnTheWay(p)' = OnTheWay(p), space'[p] = space[p],
           ~(rd.pc = "space" /\ PortOf(rd.id) = p),
           ~(rd'.pc = "space" /\ PortOf(rd'.id) = p),
           Quiet(p) => \A r \in ToSet(pipe)' : r.kind = "status" => r.used[p] = 0
    PROVE  Counts(p)'
<1>1. ToGive(p)' = ToGive(p) /\ ToSend(p)' = ToSend(p)
    BY DEF ToGive, ToSend
<1>2. Quiet(p) => Quiet(p)'
    BY DEF Quiet
<1>. QED
    BY <1>1, <1>2, CountKept

LEMMA ReadReturnCovers ==
    ASSUME Before, ReadReturn
    PROVE  NoRefusal' /\ \A q \in Port : Counts(q)'
<1>0. IInv /\ IdInv /\ lost = 0 /\ NoRefusal
    BY DEF Before
<1>1. /\ UNCHANGED <<th, len, fails, fw, space>> /\ pipe # <<>> /\ pipe' = Tail(pipe)
      /\ rd.pc = "idle" /\ rd'.pc = "code" /\ rd'.id = Head(pipe).id
      /\ rd'.code = Head(pipe).code /\ Head(pipe).kind = "return"
    BY DEF ReadReturn, trackers, bounds
<1>2. PICK S : pipe \in Seq(S)
    BY <1>0, TypeFacts
<1>3. Head(pipe) \in ToSet(pipe) /\ ToSet(pipe') \subseteq ToSet(pipe)
    BY <1>1, <1>2, TailSet
<1>4. NoRefusal'
    BY <1>0, <1>1, <1>3 DEF NoRefusal
<1>5. AnsIds(pipe') \cup ReaderIds' = AnsIds(pipe) \cup ReaderIds
    <2>1. AnsOnce(pipe)
        BY <1>0, WayFacts DEF Apart
    <2>2. Head(pipe).id \in AnsIds(pipe) /\ AnsIds(pipe') = AnsIds(pipe) \ {Head(pipe).id}
        BY <1>1, <1>2, <2>1, AnsTail
    <2>3. ReaderIds = {} /\ ReaderIds' = {Head(pipe).id}
        BY <1>1 DEF ReaderIds
    <2>. QED
        BY <2>2, <2>3
<1>6. ASSUME NEW q \in Port PROVE Counts(q)'
    <2>1. OnTheWay(q)' = OnTheWay(q)
        BY <1>1, <1>5, WayIs
    <2>. QED
        BY <1>1, <1>3, <2>1, WayKept DEF Quiet
<1>. QED
    BY <1>4, <1>6

\* A report with the buffer status fills in counts of ports with nothing on its way.
LEMMA ReadQuietly ==
    ASSUME Before, ReadStatus \/ ReadData
    PROVE  /\ NoRefusal' /\ rd'.pc = "idle" /\ rd.pc = "idle"
           /\ UNCHANGED <<th, len, fails>>
           /\ ToSet(pipe') \subseteq ToSet(pipe)
           /\ \A q \in Port : OnTheWay(q)' = OnTheWay(q)
<1>0. IInv /\ IdInv /\ lost = 0 /\ NoRefusal
    BY DEF Before
<1>1. /\ UNCHANGED <<th, len, fails, fw>> /\ pipe # <<>> /\ pipe' = Tail(pipe)
      /\ rd.pc = "idle" /\ Head(pipe).kind # "return"
    BY DEF ReadStatus, ReadData, trackers, bounds
<1>2. PICK S : pipe \in Seq(S)
    BY <1>0, TypeFacts
<1>3. ToSet(pipe') \subseteq ToSet(pipe)
    BY <1>1, <1>2, TailSet
<1>4. rd' = Reads
    <2>. PICK r : r = [rd EXCEPT !.gap = gap]
        OBVIOUS
    <2>1. ~r.gap
        BY <1>0, TypeFacts, WayFacts DEF NoGap
    <2>. QED
        BY <2>1 DEF ReadStatus, ReadData, Checked
<1>5. rd'.pc = "idle"
    BY <1>4 DEF Reads
<1>6. NoRefusal'
    BY <1>0, <1>3, <1>5 DEF NoRefusal
<1>7. AnsIds(pipe') = AnsIds(pipe) /\ ReaderIds' = ReaderIds
    <2>1. AnsOnce(pipe)
        BY <1>0, WayFacts DEF Apart
    <2>. QED
        BY <1>1, <1>2, <1>5, <2>1, AnsTail DEF ReaderIds
<1>8. \A q \in Port : OnTheWay(q)' = OnTheWay(q)
    BY <1>1, <1>7, WayIs
<1>. QED
    BY <1>1, <1>3, <1>5, <1>6, <1>8

LEMMA ReadDataCovers ==
    ASSUME Before, ReadData
    PROVE  NoRefusal' /\ \A q \in Port : Counts(q)'
<1>1. space' = space
    BY DEF ReadData
<1>2. ASSUME NEW q \in Port PROVE Counts(q)'
    BY <1>1, ReadQuietly, WayKept DEF Quiet
<1>. QED
    BY <1>2, ReadQuietly

LEMMA ReadStatusCovers ==
    ASSUME Before, ReadStatus
    PROVE  NoRefusal' /\ \A q \in Port : Counts(q)'
<1>0. IInv /\ IdInv
    BY DEF Before
<1>1. /\ space' = [q \in Port |-> IF space[q] = Unknown THEN Head(pipe).used[q] ELSE space[q]]
      /\ pipe # <<>> /\ Head(pipe).kind = "status"
    BY DEF ReadStatus, FilledIn
<1>2. Head(pipe) \in ToSet(pipe)
    BY <1>0, <1>1, ReportFacts
<1>3. ASSUME NEW q \in Port PROVE Counts(q)'
    <2>1. CASE space[q] # Unknown
        <3>1. space'[q] = space[q]
            BY <1>1, <2>1
        <3>2. ~Quiet(q) \/ \A r \in ToSet(pipe)' : r.kind = "status" => r.used[q] = 0
            BY ReadQuietly DEF Quiet
        <3>. QED
            BY <3>1, <3>2, ReadQuietly, WayKept
    <2>2. CASE space[q] = Unknown
        <3>1. Quiet(q)
            BY <2>2 DEF Before, Counts
        <3>2. space'[q] = 0
            BY <1>1, <1>2, <2>2, <3>1 DEF Quiet
        <3>3. OnTheWay(q)' = {} /\ ToGive(q)' = 0 /\ ToSend(q)' = 0
            BY <3>1, ReadQuietly DEF Quiet, ToGive, ToSend
        <3>4. Sum(len', OnTheWay(q)') = 0
            BY <3>3, SumEmpty
        <3>5. Due(q)' = 0
            BY <3>3, <3>4, DueIs
        <3>6. 0 < BufferLen /\ 0 # Unknown
            BY HubAssumption
        <3>. QED
            BY <3>2, <3>5, <3>6 DEF Counts
    <2>. QED
        BY <2>1, <2>2
<1>. QED
    BY <1>3, ReadQuietly

\* The answer is through with its tracker, and its bytes are still to be given back.
LEMMA SetReturnCodeCovers ==
    ASSUME Before, SetReturnCode
    PROVE  NoRefusal' /\ \A q \in Port : Counts(q)'
<1>0. IInv /\ IdInv /\ lost = 0 /\ NoRefusal /\ Lengths /\ TypeRest
    BY DEF Before
<1>. PICK i : i = rd.id
    OBVIOUS
<1>1. /\ UNCHANGED <<th, len, fails, fw, pipe, space>> /\ rd.pc = "code"
      /\ rd' = [rd EXCEPT !.pc = "space"]
    BY DEF SetReturnCode, hub, bounds
<1>2. rd'.pc = "space" /\ rd'.id = i /\ rd'.code = rd.code /\ rd'.len = rd.len
    BY <1>0, <1>1, TypeFacts
<1>3. i \in Id /\ OnWay(i) /\ rd.len = len[i] /\ ReaderIds = {i} /\ ReaderIds' = {}
    BY <1>0, <1>1, <1>2, WayFacts DEF Lengths, ReaderIds
<1>4. NoRefusal'
    BY <1>0, <1>1, <1>2 DEF NoRefusal
<1>5. /\ \A q \in Port : i \notin Ids(fw[q])
      /\ i \notin AnsIds(pipe)
    BY <1>0, <1>3, WayFacts DEF Apart
<1>6. \A q \in Port : OnTheWay(q)' = OnTheWay(q) \ {i}
    BY <1>1, <1>3, <1>5, WayIs
<1>7. PortOf(i) \in Port /\ i \in IdsOf(PortOf(i))
    BY <1>3, IdHasPort, IdInPort
<1>8. ASSUME NEW q \in Port, q # PortOf(i) PROVE Counts(q)'
    <2>1. i \notin IdsOf(q)
        BY <1>7, <1>8, IdsDisjoint
    <2>2. OnTheWay(q)' = OnTheWay(q)
        BY <1>0, <1>6, <2>1, WayMembers
    <2>3. Quiet(q) => \A r \in ToSet(pipe)' : r.kind = "status" => r.used[q] = 0
        BY <1>1 DEF Quiet
    <2>. QED
        BY <1>1, <1>2, <1>8, <2>2, <2>3, WayKept
<1>9. ASSUME NEW q \in Port, q = PortOf(i) PROVE Counts(q)'
    <2>. PICK W, f : W = OnTheWay(q) /\ f = len
        OBVIOUS
    <2>1. i \in W
        BY <1>3, <1>7, <1>9, WayIs
    <2>2. IsFiniteSet(W) /\ \A j \in W : f[j] \in Nat
        BY <1>0, WayMembers
    <2>3. Sum(f, W \ {i}) \in Nat /\ Sum(f, W) = Sum(f, W \ {i}) + f[i] /\ f[i] \in Nat
        BY <2>1, <2>2, SumRemoved
    <2>4. Sum(len', OnTheWay(q)') = Sum(f, W \ {i})
        BY <1>1, <1>6
    <2>5. ToGive(q) = 0 /\ ToGive(q)' = f[i]
        BY <1>1, <1>2, <1>3, <1>9 DEF ToGive
    <2>6. ToSend(q)' = ToSend(q) /\ ToSend(q) \in Nat
        BY <1>0, <1>1, DueTypes DEF ToSend
    <2>7. Due(q) = Sum(f, W) + ToGive(q) + ToSend(q)
        BY DueIs
    <2>8. Due(q)' = Sum(f, W \ {i}) + ToGive(q)' + ToSend(q)'
        BY <2>4, DueIs
    <2>9. Due(q)' = Due(q)
        BY <2>3, <2>5, <2>6, <2>7, <2>8
    <2>10. space[q] # Unknown
        BY <2>1 DEF Before, Counts, Quiet
    <2>. QED
        BY <1>1, <2>9, <2>10 DEF Before, Counts
<1>. QED
    BY <1>4, <1>8, <1>9

LEMMA ReleaseSpaceCovers ==
    ASSUME Before, ReleaseSpace
    PROVE  NoRefusal' /\ \A q \in Port : Counts(q)'
<1>0. IInv /\ IdInv /\ lost = 0 /\ NoRefusal /\ TypeRest
    BY DEF Before
<1>1. /\ UNCHANGED <<th, len, fails, fw, pipe>> /\ rd.pc = "space" /\ rd.code # "NOSPC"
      /\ rd' = Reads
    <2>1. rd.pc = "space" /\ rd.code # "NOSPC" /\ ~rd.gap
        BY <1>0, WayFacts DEF ReleaseSpace, NoRefusal, NoGap
    <2>. QED
        BY <2>1 DEF ReleaseSpace, Checked, trackers, hub, bounds
<1>2. rd'.pc = "idle" /\ ReaderIds = {} /\ ReaderIds' = {}
    BY <1>1 DEF Reads, ReaderIds
<1>3. NoRefusal'
    BY <1>0, <1>1, <1>2 DEF NoRefusal
<1>4. \A q \in Port : OnTheWay(q)' = OnTheWay(q)
    BY <1>1, <1>2, WayIs
<1>. PICK p : p = PortOf(rd.id)
    OBVIOUS
<1>5. space' = [space EXCEPT ![p] = IF @ = Unknown THEN Unknown ELSE GivenBack(@, rd.len)]
    BY DEF ReleaseSpace, Length
<1>6. space \in [Port -> Nat \cup {Unknown}] /\ rd.len \in Nat
    BY <1>0, TypeFacts DEF TypeRest
<1>7. ASSUME NEW q \in Port, q # p PROVE Counts(q)'
    <2>1. space'[q] = space[q]
        BY <1>5, <1>6, <1>7
    <2>2. Quiet(q) => \A r \in ToSet(pipe)' : r.kind = "status" => r.used[q] = 0
        BY <1>1 DEF Quiet
    <2>. QED
        BY <1>1, <1>2, <1>4, <1>7, <2>1, <2>2, WayKept
<1>8. ASSUME NEW q \in Port, q = p PROVE Counts(q)'
    <2>1. /\ space[q] # Unknown /\ space[q] \in Nat
          /\ space[q] < BufferLen /\ Due(q) <= space[q]
          /\ fails = 0 => Due(q) = space[q]
        BY <1>1, <1>6, <1>8 DEF Before, Counts, Quiet
    <2>2. ToGive(q) = rd.len /\ ToGive(q)' = 0
        BY <1>1, <1>2, <1>8 DEF ToGive
    <2>3. ToSend(q)' = ToSend(q) /\ ToSend(q) \in Nat
        BY <1>0, <1>1, DueTypes DEF ToSend
    <2>4. Sum(len', OnTheWay(q)') = Sum(len, OnTheWay(q)) /\ Sum(len, OnTheWay(q)) \in Nat
        BY <1>0, <1>1, <1>4, WayMembers
    <2>5. Due(q)' = Due(q) - rd.len /\ Due(q) \in Nat /\ rd.len <= Due(q)
        BY <1>6, <2>2, <2>3, <2>4, DueIs
    <2>6. space'[q] = space[q] - rd.len /\ space'[q] \in Nat
        <3>1. space'[q] = GivenBack(space[q], rd.len)
            BY <1>5, <1>6, <1>8, <2>1
        <3>2. rd.len <= space[q]
            BY <1>6, <2>1, <2>5
        <3>. QED
            BY <1>6, <2>1, <3>1, <3>2 DEF GivenBack
    <2>7. space'[q] # Unknown
        BY <2>6, HubAssumption
    <2>8. BufferLen \in Nat
        BY HubAssumption
    <2>. QED
        BY <1>1, <1>6, <2>1, <2>5, <2>6, <2>7, <2>8 DEF Counts
<1>. QED
    BY <1>3, <1>7, <1>8

\* As long as nothing is lost the reader knows every answer, and never asks for
\* the status or kills what is outstanding.
LEMMA ReaderKnows ==
    ASSUME Before,
           ReturnUnexpected \/ CountsUnknown \/ AskStatus \/ AskFails \/ KillOutstanding
    PROVE  FALSE
<1>0. IInv /\ IdInv /\ lost = 0 /\ NoRefusal
    BY DEF Before
<1>1. CASE ReturnUnexpected
    <2>1. "INUSE" \in state[rd.id] /\ "SIGNALLED" \notin state[rd.id]
        BY <1>0, <1>1, WayFacts DEF ReturnUnexpected
    <2>. QED
        BY <1>1, <2>1 DEF ReturnUnexpected, Is
<1>2. rd.pc \notin {"unknown", "ask", "asklost", "kill"}
    BY <1>0, WayFacts DEF NoRefusal, NoGap
<1>. QED
    BY <1>1, <1>2 DEF CountsUnknown, AskStatus, AskFails, KillOutstanding

\* A packet that is answered is still on its way.
LEMMA AnswerCovers ==
    ASSUME Before, NEW p \in Port, Answer(p)
    PROVE  NoRefusal' /\ \A q \in Port : Counts(q)'
<1>0. IInv /\ IdInv /\ lost = 0 /\ NoRefusal
    BY DEF Before
<1>1. /\ UNCHANGED <<th, len, fails, rd, space>> /\ fw[p] # <<>>
      /\ fw' = [fw EXCEPT ![p] = Tail(@)]
    BY DEF Answer, trackers, bounds
<1>2. PICK c \in {"OK", "UNEXPECTED"} :
        pipe' = Append(pipe, [kind |-> "return", id |-> Head(fw[p]).id, code |-> c])
    BY DEF Answer
<1>. PICK i : i = Head(fw[p]).id
    OBVIOUS
<1>. PICK r : r = [kind |-> "return", id |-> i, code |-> c]
    OBVIOUS
<1>3. pipe' = Append(pipe, r) /\ r.id = i /\ r.kind = "return" /\ r.code # "NOSPC"
    BY <1>2
<1>4. PICK S : pipe \in Seq(S)
    BY <1>0, TypeFacts
<1>5. fw[p] \in Seq(Packet) /\ fw \in [Port -> Seq(Packet)]
    BY <1>0, TypeFacts
<1>6. Apart
    BY <1>0, WayFacts
<1>7. i \in Ids(fw[p]) /\ Ids(Tail(fw[p])) = Ids(fw[p]) \ {i}
    BY <1>1, <1>5, <1>6, IdsTail DEF Apart
<1>8. fw'[p] = Tail(fw[p]) /\ \A q \in Port \ {p} : fw'[q] = fw[q]
    BY <1>1, <1>5
<1>9. i \notin AnsIds(pipe) /\ AnsOnce(pipe)
    BY <1>6, <1>7 DEF Apart
<1>10. AnsIds(pipe') = AnsIds(pipe) \cup {i}
    BY <1>3, <1>4, <1>9, AnsAppend
<1>11. ToSet(pipe') = ToSet(pipe) \cup {r}
    BY <1>3, <1>4, AppendSet
<1>12. ReaderIds' = ReaderIds
    BY <1>1 DEF ReaderIds
<1>13. i \in IdsOf(p)
    BY <1>0, <1>7 DEF IdInv
<1>14. NoRefusal'
    BY <1>0, <1>1, <1>3, <1>11 DEF NoRefusal
<1>15. ASSUME NEW q \in Port PROVE Counts(q)'
    <2>1. OnTheWay(q)' = OnTheWay(q)
        <3>1. CASE q = p
            <4>1. OnTheWay(p)' = (Ids(fw[p]) \ {i})
                        \cup (IdsOf(p) \cap (AnsIds(pipe) \cup {i} \cup ReaderIds))
                BY <1>7, <1>8, <1>10, <1>12, WayIs
            <4>2. OnTheWay(p) = Ids(fw[p]) \cup (IdsOf(p) \cap (AnsIds(pipe) \cup ReaderIds))
                BY WayIs
            <4>3. OnTheWay(p)' = OnTheWay(p)
                BY <1>7, <1>13, <4>1, <4>2
            <4>. QED
                BY <3>1, <4>3
        <3>2. CASE q # p
            <4>1. i \notin IdsOf(q)
                BY <1>13, <3>2, IdsDisjoint
            <4>. QED
                BY <1>8, <1>10, <1>12, <3>2, <4>1, WayIs
        <3>. QED
            BY <3>1, <3>2
    <2>2. ToGive(q)' = ToGive(q) /\ ToSend(q)' = ToSend(q)
        BY <1>1 DEF ToGive, ToSend
    <2>3. \A s \in ToSet(pipe)' : s \in ToSet(pipe) \/ s.kind # "status"
        BY <1>3, <1>11
    <2>4. Quiet(q) => Quiet(q)'
        BY <1>1, <2>1, <2>3 DEF Quiet
    <2>. QED
        BY <1>1, <2>1, <2>2, <2>4, CountKept
<1>. QED
    BY <1>14, <1>15

\* The status the hub tells of a port whose count is unknown is that its buffer is empty.
LEMMA StatusCovers ==
    ASSUME Before, Status
    PROVE  NoRefusal' /\ \A q \in Port : Counts(q)'
<1>0. IInv /\ IdInv /\ lost = 0 /\ NoRefusal
    BY DEF Before
<1>. PICK r : r = StatusNow
    OBVIOUS
<1>1. UNCHANGED <<th, len, fails, rd, space, fw>> /\ pipe' = Append(pipe, r)
    BY DEF Status, StatusNow, trackers, bounds
<1>2. r.kind = "status" /\ \A q \in Port : r.used[q] = Used(q)
    BY DEF StatusNow
<1>3. PICK S : pipe \in Seq(S)
    BY <1>0, TypeFacts
<1>4. ToSet(pipe') = ToSet(pipe) \cup {r}
    BY <1>1, <1>3, AppendSet
<1>5. NoRefusal'
    BY <1>0, <1>1, <1>2, <1>4 DEF NoRefusal
<1>6. AnsIds(pipe') = AnsIds(pipe) /\ ReaderIds' = ReaderIds
    <2>1. AnsOnce(pipe)
        BY <1>0, WayFacts DEF Apart
    <2>. QED
        BY <1>1, <1>2, <1>3, <2>1, AnsAppend DEF ReaderIds
<1>7. ASSUME NEW q \in Port PROVE Counts(q)'
    <2>1. OnTheWay(q)' = OnTheWay(q)
        BY <1>1, <1>6, WayIs
    <2>2. ToGive(q)' = ToGive(q) /\ ToSend(q)' = ToSend(q)
        BY <1>1 DEF ToGive, ToSend
    <2>3. OnTheWay(q) = {} => r.used[q] = 0
        <3>1. ASSUME OnTheWay(q) = {} PROVE Used(q) = 0
            <4>1. Sum(len, OnTheWay(q)) = 0
                BY <3>1, SumEmpty
            <4>. QED
                BY <4>1, UsedCovered
        <3>. QED
            BY <1>2, <3>1
    <2>4. Quiet(q) => Quiet(q)'
        BY <1>1, <1>4, <2>1, <2>3 DEF Quiet
    <2>. QED
        BY <1>1, <2>1, <2>2, <2>4, CountKept
<1>. QED
    BY <1>5, <1>7

-----------------------------------------------------------------------------
(* The theorem                                                                *)

LEMMA InitSpace == Init => SpaceInv
<1>. SUFFICES ASSUME Init PROVE SpaceInv
    OBVIOUS
<1>1. ToSet(pipe) = {} /\ fails = 0
    BY EmptyList DEF Init
<1>2. rd.pc = "idle"
    BY DEF Init, Reads
<1>3. NoRefusal
    BY <1>1, <1>2 DEF NoRefusal
<1>4. ASSUME NEW p \in Port PROVE Counts(p)
    <2>1. space[p] = Unknown /\ th[p].pc = "idle" /\ fw[p] = <<>> /\ pipe = <<>>
        BY DEF Init, Idle
    <2>2. Ids(fw[p]) = {} /\ AnsIds(pipe) = {} /\ ReaderIds = {}
        BY <1>2, <2>1 DEF Ids, AnsIds, Ans, ReaderIds
    <2>3. OnTheWay(p) = {}
        BY <2>2, WayIs
    <2>. QED
        BY <1>1, <1>2, <2>1, <2>3 DEF Counts, Quiet
<1>. QED
    BY <1>1, <1>3, <1>4 DEF SpaceInv

LEMMA FailsType ==
    ASSUME fails \in Nat, [Next]_vars
    PROVE  fails' \in Nat
<1>1. CASE \E p \in Port : SendFails(p)
    BY <1>1 DEF SendFails
<1>2. ASSUME NEW p \in Port, Request(p) \/ Sender(p) \/ TimesOut(p) \/ Answer(p)
      PROVE  fails' = fails
    BY <1>2 DEF Request, Sender, TimesOut, Answer, GetTracker, GetTimesOut, ClaimSpace,
        ClaimTimesOut, SetLength, Send, SendInterrupted, Reap, WaitAnswered, WaitTimesOut,
        Release, bounds
<1>3. CASE Reader \/ AskFails
    BY <1>3 DEF Reader, ReadReturn, ReadStatus, ReadData, ReturnUnexpected, SetReturnCode,
        ReleaseSpace, CountsUnknown, AskStatus, AskFails, KillOutstanding, bounds
<1>4. CASE Status \/ Data \/ Lose \/ UNCHANGED vars
    BY <1>4 DEF Status, Data, Lose, vars, bounds
<1>. QED
    BY <1>1, <1>2, <1>3, <1>4 DEF Next

LEMMA NextCovers ==
    ASSUME Before, [Next]_vars, lost' = 0
    PROVE  NoRefusal' /\ \A q \in Port : Counts(q)'
<1>0. lost = 0 /\ IdInv
    BY DEF Before
<1>1. ASSUME NEW p \in Port, Request(p) \/ Sender(p) \/ TimesOut(p) \/ SendFails(p)
      PROVE  NoRefusal' /\ \A q \in Port : Counts(q)'
    BY <1>1, RestsPc, RestsCovers, GetTrackerCovers, ClaimCovers, SetLengthCovers, SendCovers
<1>2. CASE Reader \/ AskFails
    BY <1>2, ReadReturnCovers, ReadStatusCovers, ReadDataCovers, SetReturnCodeCovers,
       ReleaseSpaceCovers, ReaderKnows DEF Reader
<1>3. ~Data
    BY <1>0, WayFacts DEF Data, NoGap, Before
<1>4. ~Lose
    BY <1>0 DEF Lose
<1>5. CASE UNCHANGED vars
    <2>1. UNCHANGED <<th, len, fails, rd, space, fw, pipe>>
        BY <1>5 DEF vars, trackers, hub, bounds
    <2>2. NoRefusal'
        BY <2>1 DEF Before, NoRefusal
    <2>3. ASSUME NEW q \in Port PROVE Counts(q)'
        <3>1. OnTheWay(q)' = OnTheWay(q)
            BY <2>1, WayIs DEF ReaderIds
        <3>2. ToGive(q)' = ToGive(q) /\ ToSend(q)' = ToSend(q) /\ (Quiet(q) => Quiet(q)')
            BY <2>1, <3>1 DEF ToGive, ToSend, Quiet
        <3>. QED
            BY <2>1, <3>1, <3>2, CountKept
    <2>. QED
        BY <2>2, <2>3
<1>. QED
    BY <1>1, <1>2, <1>3, <1>4, <1>5, AnswerCovers, StatusCovers DEF Next

LEMMA NextSpace == IInv /\ IdInv /\ TypeRest /\ LengthInv /\ SpaceInv /\ [Next]_vars => SpaceInv'
<1>. SUFFICES ASSUME IInv, IdInv, TypeRest, LengthInv, SpaceInv, [Next]_vars PROVE SpaceInv'
    OBVIOUS
<1>1. fails' \in Nat
    BY FailsType DEF SpaceInv
<1>2. ASSUME lost' = 0 PROVE NoRefusal' /\ \A q \in Port : Counts(q)'
    <2>1. lost = 0
        <3>1. lost \in Nat
            BY DEF IdInv
        <3>2. CASE Lose
            BY <1>2, <3>1, <3>2 DEF Lose
        <3>3. CASE ~Lose
            <4>1. ASSUME NEW p \in Port,
                         Request(p) \/ Sender(p) \/ TimesOut(p) \/ SendFails(p) \/ Answer(p)
                  PROVE  lost' = lost
                BY <4>1 DEF Request, Sender, TimesOut, SendFails, Answer, GetTracker,
                    GetTimesOut, ClaimSpace, ClaimTimesOut, SetLength, Send, SendInterrupted,
                    Reap, WaitAnswered, WaitTimesOut, Release, bounds
            <4>2. CASE Reader \/ AskFails
                BY <1>2, <4>2 DEF Reader, ReadReturn, ReadStatus, ReadData, ReturnUnexpected,
                    SetReturnCode, ReleaseSpace, CountsUnknown, AskStatus, AskFails,
                    KillOutstanding, bounds
            <4>3. CASE Status \/ Data \/ UNCHANGED vars
                BY <1>2, <4>3 DEF Status, Data, vars, bounds
            <4>. QED
                BY <1>2, <3>3, <4>1, <4>2, <4>3 DEF Next
        <3>. QED
            BY <3>2, <3>3
    <2>2. Before
        BY <2>1 DEF Before, LengthInv, SpaceInv
    <2>. QED
        BY <1>2, <2>2, NextCovers
<1>. QED
    BY <1>1, <1>2 DEF SpaceInv

LEMMA SpaceImplies == IInv /\ IdInv /\ SpaceInv => SpaceCovers
<1>. SUFFICES ASSUME IInv, IdInv, SpaceInv, lost = 0,
                     NEW p \in Port, space[p] # Unknown
     PROVE  space[p] >= Claimed(p) /\ (fails = 0 => space[p] = Claimed(p))
    BY DEF SpaceCovers
<1>1. Due(p) <= space[p] /\ (fails = 0 => Due(p) = space[p])
    BY DEF SpaceInv, Counts
<1>2. MapThenSumSet(LAMBDA i : len[i], OnTheWay(p)) = Sum(len, OnTheWay(p))
    <2>. PICK S, f : S = OnTheWay(p) /\ f = len
        OBVIOUS
    <2>. DEFINE P(g) == g = [s \in SUBSET S |-> IF s = {} THEN 0
                               ELSE LET x == CHOOSE x \in s : TRUE IN f[x] + g[s \ {x}]]
                h == CHOOSE g : P(g)
    <2>1. MapThenSumSet(LAMBDA i : f[i], S) = h[S]
        BY DEF MapThenSumSet, MapThenFoldSet
    <2>2. \A g : P(g) <=> SumsUp(g, f, S)
        BY DEF SumsUp, Chosen
    <2>3. IsFiniteSet(S) /\ \A i \in S : f[i] \in Nat
        BY WayMembers
    <2>. HIDE DEF P
    <2>4. (\E g : SumsUp(g, f, S)) /\ \A g : SumsUp(g, f, S) => g[S] = Sum(f, S)
        BY <2>3, SumFold
    <2>5. SumsUp(h, f, S)
        BY <2>2, <2>4
    <2>. HIDE DEF h
    <2>. QED
        BY <2>1, <2>4, <2>5
<1>3. Claimed(p) = Due(p)
    BY <1>2 DEF Claimed, Due, ToGive, ToSend
<1>. QED
    BY <1>1, <1>3

\* As long as no report is lost, the count that claimPacketSpace goes by
\* (hubdevice.c) is at least the bytes of the packets that were claimed and not
\* given back, whatever times out and fails, and exactly that until a send
\* fails.  So no packet finds the buffer of its port full.
THEOREM SpaceAccounted == Spec => []SpaceCovers
<1>1. Init => IInv /\ IdInv /\ TypeRest /\ LengthInv /\ SpaceInv
    BY InitOK, InitIds, InitTypes, InitLengths, InitSpace
<1>2. IInv /\ IdInv /\ TypeRest /\ LengthInv /\ SpaceInv /\ [Next]_vars
        => (IInv /\ IdInv /\ TypeRest /\ LengthInv /\ SpaceInv)'
    BY NextOK, NextIds, NextTypes, NextLengths, NextSpace
<1>3. IInv /\ IdInv /\ TypeRest /\ LengthInv /\ SpaceInv => SpaceCovers
    BY SpaceImplies
<1>. QED
    BY <1>1, <1>2, <1>3, PTL DEF Spec

-----------------------------------------------------------------------------
(* The proof that a request that ends well had all its packets taken.          *)

\* An answer that the device took the packet, for tracker i.
TookAnswer(r, i) == r.kind = "return" /\ r.code = "OK" /\ r.id = i
Says(s, i) == \E r \in ToSet(s) : TookAnswer(r, i)

LEMMA SaysAppend ==
    ASSUME NEW S, NEW s \in Seq(S), NEW x, NEW i
    PROVE  Says(Append(s, x), i) <=> Says(s, i) \/ TookAnswer(x, i)
BY AppendSet DEF Says

LEMMA SaysTail ==
    ASSUME NEW S, NEW s \in Seq(S), s # <<>>, NEW i
    PROVE  Says(s, i) <=> Says(Tail(s), i) \/ TookAnswer(Head(s), i)
<1>1. /\ Len(s) \in Nat \ {0} /\ DOMAIN s = 1..Len(s)
      /\ DOMAIN Tail(s) = 1..Len(s) - 1
      /\ \A k \in 1..Len(s) - 1 : Tail(s)[k] = s[k + 1]
      /\ Head(s) = s[1]
    BY TailFacts
<1>2. ToSet(s) \subseteq ToSet(Tail(s)) \cup {Head(s)}
    <2>. SUFFICES ASSUME NEW k \in 1..Len(s), k # 1
         PROVE  s[k] \in ToSet(Tail(s))
        BY <1>1 DEF ToSet
    <2>1. k - 1 \in 1..Len(s) - 1 /\ Tail(s)[k - 1] = s[k]
        BY <1>1
    <2>. QED
        BY <1>1, <2>1 DEF ToSet
<1>3. ToSet(s) = ToSet(Tail(s)) \cup {Head(s)}
    BY <1>2, TailSet
<1>. QED
    BY <1>3 DEF Says

LEMMA SaysOnWay ==
    ASSUME NEW s, NEW i, Says(s, i)
    PROVE  i \in AnsIds(s)
BY DEF Says, TookAnswer, AnsIds, Ans, ToSet

\* The packet of tracker i was taken: the sender can know, or will be told.
Took(i) == "SIGNALLED" \in state[i] /\ code[i] = "OK"
ReaderSays(i) == rd.pc = "code" /\ rd.id = i /\ rd.code = "OK"
Accepted(i) == Took(i) \/ Says(pipe, i) \/ ReaderSays(i)

\* The trackers of a sender whose packets it has sent, and those of them whose
\* packets the device has not taken.
SentBy(t) == IF t.pc \in Sending THEN ToSet(t.list) ELSE HeldBy(t)
Open(p) == {i \in SentBy(th[p]) : ~Accepted(i)}

\* The packets of its request that a sender has sent, while nothing went wrong.
Good(t) == t.res = "OK" /\ t.error = "OK"
SentSoFar(t) ==
    IF t.pc \in {"reap", "wait", "release"} THEN t.all - t.todo + 1 ELSE t.all - t.todo

\* How far a sender is.
Stage(t) ==
    /\ t.pc = "idle" => t.todo = 0 /\ ~t.trans
    /\ t.pc # "idle" => t.todo \in 1..t.all
    /\ ~t.trans => t.error = "OK"
    /\ t.pc # "idle" /\ ~t.trans => t.todo = 1
    /\ t.trans /\ ~t.ending => t.pc # "wait" /\ (Good(t) => t.pc # "release")
    /\ t.ending /\ Good(t) => t.todo = 1
    /\ t.pc \notin {"idle", "release"} /\ ~t.ending => t.res = "OK"

\* The packets of the request in the buffer of the port are those whose trackers
\* the sender still has; the others are of earlier requests.
Linked(p) ==
    \A k \in DOMAIN fw[p] : fw[p][k].request = left[p] <=> fw[p][k].id \in SentBy(th[p])

Honest(p) ==
    /\ Stage(th[p])
    /\ \A k \in DOMAIN fw[p] : fw[p][k].request >= left[p]
    /\ Good(th[p]) =>
        /\ th[p].pc = "release" => Took(th[p].id)
        /\ Linked(p)
        /\ taken[p] + Cardinality(Open(p)) = SentSoFar(th[p])

HonestInv ==
    /\ taken \in [Port -> Nat]
    /\ lost = 0 => \A p \in Port : Honest(p)

LEMMA SentByFacts ==
    ASSUME IInv, NEW p \in Port
    PROVE  /\ SentBy(th[p]) \subseteq HeldBy(th[p])
           /\ HeldBy(th[p]) \subseteq IdsOf(p)
           /\ th[p].pc = "release" => th[p].id \in HeldBy(th[p])
           /\ IsFiniteSet(Open(p)) /\ Cardinality(Open(p)) \in Nat
<1>1. SentBy(th[p]) \subseteq HeldBy(th[p])
    BY DEF SentBy, HeldBy
<1>2. /\ HeldBy(th[p]) \subseteq IdsOf(p)
      /\ th[p].pc = "release" => th[p].id \in HeldBy(th[p])
    BY ThreadFacts, NoIdIsNone, Holds DEF ThreadOK, HeldBy
<1>3. IsFiniteSet(IdsOf(p))
    <2>1. FirstId(p) \in Int /\ LastId(p) \in Int
        BY HubAssumption DEF Port, FirstId, LastId
    <2>. QED
        BY <2>1, FS_Interval DEF IdsOf
<1>4. Open(p) \subseteq IdsOf(p)
    BY <1>1, <1>2 DEF Open
<1>. QED
    BY <1>1, <1>2, <1>3, <1>4, FS_Subset, FS_CardinalityType

-----------------------------------------------------------------------------
(* A step that leaves the sender of a port alone, and one of the sender        *)

LEMMA HonestKept ==
    ASSUME IInv, NEW p \in Port, Honest(p),
           th'[p] = th[p], fw'[p] = fw[p], left'[p] = left[p], taken'[p] = taken[p],
           \A i \in HeldBy(th[p]) : (Accepted(i)' <=> Accepted(i)) /\ (Took(i) => Took(i)')
    PROVE  Honest(p)'
<1>1. Open(p)' = Open(p)
    BY SentByFacts DEF Open
<1>2. Linked(p) => Linked(p)'
    BY DEF Linked
<1>3. th[p].pc = "release" /\ Took(th[p].id) => Took(th[p].id)'
    BY SentByFacts
<1>. QED
    BY <1>1, <1>2, <1>3 DEF Honest

LEMMA OnWayNotTook ==
    ASSUME IInv, IdInv, lost = 0, NEW p \in Port, NEW k \in DOMAIN fw[p]
    PROVE  fw[p][k].id \in IdsOf(p) /\ OnWay(fw[p][k].id) /\ Waits(fw[p][k].id)
<1>1. fw[p][k].id \in Ids(fw[p])
    BY DEF Ids
<1>. QED
    BY <1>1, PortBounds DEF IdInv, OnWay

LEMMA HonestMoves ==
    ASSUME IInv, IdInv, lost = 0, NEW p \in Port, Honest(p), NEW t, th'[p] = t,
           fw'[p] = fw[p], left'[p] = left[p], taken'[p] = taken[p],
           Stage(t),
           Good(t) =>
                /\ Good(th[p]) /\ SentSoFar(t) = SentSoFar(th[p])
                /\ SentBy(t) \subseteq SentBy(th[p])
                /\ \A i \in SentBy(th[p]) \ SentBy(t) : Took(i)
                /\ \A i \in SentBy(t) : Accepted(i)' <=> Accepted(i)
                /\ t.pc = "release" => Took(t.id)'
    PROVE  Honest(p)'
<1>. SUFFICES ASSUME Good(t)
     PROVE  Linked(p)' /\ taken'[p] + Cardinality(Open(p)') = SentSoFar(t)
    BY DEF Honest
<1>1. Linked(p)'
    <2>. SUFFICES ASSUME NEW k \in DOMAIN fw[p]
         PROVE  fw[p][k].request = left[p] <=> fw[p][k].id \in SentBy(t)
        BY DEF Linked
    <2>1. fw[p][k].request = left[p] <=> fw[p][k].id \in SentBy(th[p])
        BY DEF Honest, Linked
    <2>2. ~Took(fw[p][k].id)
        BY OnWayNotTook DEF Waits, Took
    <2>. QED
        BY <2>1, <2>2
<1>2. Open(p)' = Open(p)
    BY DEF Open, Accepted
<1>. QED
    BY <1>1, <1>2 DEF Honest

-----------------------------------------------------------------------------
(* What a sender makes of a packet that is through                             *)

LEMMA OverStage ==
    ASSUME NEW t \in ThreadState, NEW res \in Code
    PROVE  LET u == Over(t, res) IN
           /\ u \in ThreadState /\ u.pc = "idle" /\ Stage(u)
           /\ u.res = res /\ u.error = "OK" /\ SentSoFar(u) = t.all
<1>. PICK v : v = Idle(res)
    OBVIOUS
<1>1. /\ v \in ThreadState /\ v.pc = "idle" /\ ~v.ending /\ ~v.trans
      /\ v.res = res /\ v.error = "OK" /\ v.todo = 0
    <2>1. v \in ThreadState /\ v.pc = "idle" /\ ~v.ending /\ ~v.trans
        BY IdleOK
    <2>. QED
        BY <2>1 DEF Idle
<1>. PICK u : u = [v EXCEPT !.all = t.all]
    OBVIOUS
<1>2. /\ u \in ThreadState /\ u.pc = "idle" /\ ~u.ending /\ ~u.trans
      /\ u.res = res /\ u.error = "OK" /\ u.todo = 0 /\ u.all = t.all /\ t.all \in Nat
    BY <1>1 DEF ThreadState
<1>3. Over(t, res) = u
    BY DEF Over
<1>4. Stage(u) /\ SentSoFar(u) = t.all
    BY <1>2 DEF Stage, SentSoFar
<1>. QED
    BY <1>2, <1>3, <1>4

\* A transaction ends, with the trackers that are left.
LEMMA EndsStage ==
    ASSUME NEW p \in Port, NEW t \in ThreadState, IsInjective(t.list),
           ToSet(t.list) \subseteq IdsOf(p),
           t.trans, t.todo \in 1..t.all, Good(t) => t.todo = 1
    PROVE  LET u == Ends(t) IN
           /\ Stage(u) /\ u.pc # "release"
           /\ Good(u) => Good(t) /\ SentBy(u) = ToSet(t.list) /\ SentSoFar(u) = t.all
<1>. PICK u : u = Ends(t)
    OBVIOUS
<1>1. SentBy(u) = ToSet(t.list)
    <2>1. HeldBy(u) = ToSet(t.list)
        BY EndsOK
    <2>2. u.pc \notin Sending
        <3>1. "OK" \in Code
            BY DEF Code
        <3>. QED
            BY <3>1, SentPc
    <2>. QED
        BY <2>1, <2>2 DEF SentBy
<1>2. t.all \in Nat /\ t.todo \in Nat /\ t.error \in Code /\ t.res \in Code
    BY DEF ThreadState
<1>3. CASE t.list = <<>>
    <2>. PICK res : res = FirstError(t.error, t.res)
        OBVIOUS
    <2>1. u = Over(t, res) /\ res \in Code
        BY <1>2, <1>3 DEF Ends, FirstError
    <2>2. /\ u.pc = "idle" /\ Stage(u)
          /\ u.res = res /\ u.error = "OK" /\ SentSoFar(u) = t.all
        BY <2>1, OverStage
    <2>3. Good(u) => Good(t)
        BY <2>2 DEF Good, FirstError
    <2>. QED
        BY <1>1, <2>2, <2>3
<1>4. CASE t.list # <<>>
    <2>1. u = [t EXCEPT !.pc = "wait", !.id = Head(t.list), !.ending = TRUE]
        BY <1>4 DEF Ends
    <2>2. /\ u.pc = "wait" /\ u.ending /\ u.trans = t.trans /\ u.todo = t.todo
          /\ u.all = t.all /\ u.res = t.res /\ u.error = t.error
        BY <2>1 DEF ThreadState
    <2>3. Good(u) <=> Good(t)
        BY <2>2 DEF Good
    <2>4. Stage(u)
        BY <2>2, <2>3 DEF Stage
    <2>5. Good(u) => SentSoFar(u) = t.all
        BY <1>2, <2>2, <2>3 DEF SentSoFar
    <2>. QED
        BY <1>1, <2>2, <2>3, <2>4, <2>5
<1>. QED
    BY <1>3, <1>4

\* sendpacket returned res.
LEMMA SentStage ==
    ASSUME NEW p \in Port, NEW t \in ThreadState, NEW res \in Code, IsInjective(t.list),
           ToSet(t.list) \subseteq IdsOf(p), ~t.ending, t.trans \/ t.list = <<>>,
           t.todo \in 1..t.all,
           ~t.trans => t.error = "OK" /\ t.todo = 1,
           t.res \in {"OK", res}
    PROVE  LET u == Sent(t, res) IN
           /\ Stage(u) /\ u.pc # "release"
           /\ Good(u) => /\ Good(t) /\ res = "OK"
                         /\ SentBy(u) = ToSet(t.list)
                         /\ SentSoFar(u) = t.all - t.todo + 1
<1>. PICK u : u = Sent(t, res)
    OBVIOUS
<1>1. SentBy(u) = ToSet(t.list)
    <2>1. HeldBy(u) = ToSet(t.list) /\ u.pc \notin Sending
        BY SentOK, SentPc
    <2>. QED
        BY <2>1 DEF SentBy
<1>2. t.all \in Nat /\ t.todo \in Nat
    BY DEF ThreadState
<1>3. CASE ~t.trans
    <2>1. u = Over(t, res)
        BY <1>3 DEF Sent
    <2>2. /\ u.pc = "idle" /\ Stage(u)
          /\ u.res = res /\ u.error = "OK" /\ SentSoFar(u) = t.all
        BY <2>1, OverStage
    <2>3. Good(u) => Good(t) /\ res = "OK"
        BY <1>3, <2>2 DEF Good
    <2>. QED
        BY <1>1, <1>2, <1>3, <2>2, <2>3
<1>4. CASE t.trans /\ res = "OK" /\ t.todo > 1
    <2>1. u = [t EXCEPT !.pc = "get", !.id = NoId, !.todo = @ - 1]
        BY <1>4 DEF Sent
    <2>2. /\ u.pc = "get" /\ u.ending = t.ending /\ u.trans = t.trans
          /\ u.todo = t.todo - 1 /\ u.all = t.all /\ u.res = t.res /\ u.error = t.error
        BY <2>1 DEF ThreadState
    <2>3. Good(u) <=> Good(t)
        BY <2>2 DEF Good
    <2>4. Stage(u)
        <3>1. u.todo \in 1..u.all
            BY <1>2, <1>4, <2>2
        <3>2. u.res = "OK" /\ ~u.ending /\ u.trans
            BY <1>4, <2>2
        <3>. QED
            BY <2>2, <3>1, <3>2 DEF Stage
    <2>5. SentSoFar(u) = t.all - t.todo + 1
        BY <1>2, <2>2 DEF SentSoFar
    <2>. QED
        BY <1>1, <1>4, <2>2, <2>3, <2>4, <2>5
<1>5. CASE t.trans /\ ~(res = "OK" /\ t.todo > 1)
    <2>. PICK v : v = [t EXCEPT !.res = res]
        OBVIOUS
    <2>1. u = Ends(v)
        BY <1>5 DEF Sent
    <2>2. /\ v \in ThreadState /\ v.list = t.list /\ v.trans = t.trans /\ v.todo = t.todo
          /\ v.all = t.all /\ v.res = res /\ v.error = t.error
        BY DEF ThreadState
    <2>3. Good(v) => v.todo = 1
        BY <1>2, <1>5, <2>2 DEF Good
    <2>4. /\ Stage(u) /\ u.pc # "release"
          /\ Good(u) => Good(v) /\ SentSoFar(u) = v.all
        BY <1>5, <2>1, <2>2, <2>3, EndsStage
    <2>5. Good(v) => Good(t) /\ res = "OK"
        BY <2>2 DEF Good
    <2>. QED
        BY <1>1, <1>2, <2>2, <2>3, <2>4, <2>5
<1>. QED
    BY <1>3, <1>4, <1>5

-----------------------------------------------------------------------------
(* The steps of a sender                                                       *)

\* What a step of the sender of port p leaves alone.
OnlyPort(p) ==
    /\ \A q \in Port \ {p} : /\ th'[q] = th[q] /\ fw'[q] = fw[q]
                             /\ left'[q] = left[q] /\ taken'[q] = taken[q]
    /\ \A i \in Id \ IdsOf(p) : state'[i] = state[i] /\ code'[i] = code[i]
    /\ \A i : Says(pipe', i) <=> Says(pipe, i)
    /\ rd' = rd /\ lost' = lost

LEMMA SenderElsewhere ==
    ASSUME IInv, HonestInv, NEW p \in Port,
           Request(p) \/ Sender(p) \/ TimesOut(p) \/ SendFails(p)
    PROVE  OnlyPort(p) /\ taken' \in [Port -> Nat]
<1>1. /\ th \in [Port -> ThreadState] /\ fw \in [Port -> Seq(Packet)]
      /\ left \in [Port -> Nat] /\ taken \in [Port -> Nat]
      /\ state \in [Id -> SUBSET Flag] /\ code \in [Id -> Code]
      /\ th[p].list \in Seq(Id)
      /\ \A i \in IdsOf(p) : i \in Id
    BY ThreadFacts, TypeFacts DEF HonestInv, IInv, TypesOK
<1>2. \A q \in Port \ {p} : th'[q] = th[q]
    BY <1>1 DEF Request, Sender, TimesOut, SendFails, GetTracker, ClaimSpace, SetLength, Send,
        SendInterrupted, Reap, WaitAnswered, Release, GetTimesOut, ClaimTimesOut, WaitTimesOut,
        Goto, Waited
<1>3. rd' = rd /\ lost' = lost
    BY DEF Request, Sender, TimesOut, SendFails, GetTracker, ClaimSpace, SetLength, Send,
        SendInterrupted, Reap, WaitAnswered, Release, GetTimesOut, ClaimTimesOut, WaitTimesOut,
        bounds
<1>4. /\ \A q \in Port \ {p} : left'[q] = left[q] /\ taken'[q] = taken[q]
      /\ taken' \in [Port -> Nat]
    <2>1. CASE Request(p)
        BY <1>1, <2>1 DEF Request
    <2>2. CASE ~Request(p)
        <3>1. left' = left /\ taken' = taken
            BY <2>2 DEF Sender, TimesOut, SendFails, GetTracker, ClaimSpace, SetLength, Send,
                SendInterrupted, Reap, WaitAnswered, Release, GetTimesOut, ClaimTimesOut,
                WaitTimesOut, bounds
        <3>. QED
            BY <1>1, <3>1
    <2>. QED
        BY <2>1, <2>2
<1>5. /\ \A q \in Port \ {p} : fw'[q] = fw[q]
      /\ \A i : Says(pipe', i) <=> Says(pipe, i)
    <2>1. CASE Send(p)
        <3>. PICK r : r = [kind |-> "return", id |-> th[p].id, code |-> "NOSPC"]
            OBVIOUS
        <3>1. \A i : ~TookAnswer(r, i)
            BY DEF TookAnswer
        <3>2. \A q \in Port \ {p} : fw'[q] = fw[q]
            BY <1>1, <2>1 DEF Send
        <3>3. pipe' = pipe \/ pipe' = Append(pipe, r)
            BY <2>1 DEF Send
        <3>4. PICK S : pipe \in Seq(S)
            BY TypeFacts
        <3>5. \A i : Says(Append(pipe, r), i) <=> Says(pipe, i)
            BY <3>1, <3>4, SaysAppend
        <3>6. \A i : Says(pipe', i) <=> Says(pipe, i)
            BY <3>3, <3>5
        <3>. QED
            BY <3>2, <3>6
    <2>2. CASE ~Send(p)
        <3>1. fw' = fw /\ pipe' = pipe
            BY <2>2 DEF Request, Sender, TimesOut, SendFails, GetTracker, ClaimSpace, SetLength,
                SendInterrupted, Reap, WaitAnswered, Release, GetTimesOut, ClaimTimesOut,
                WaitTimesOut, hub
        <3>. QED
            BY <3>1
    <2>. QED
        BY <2>1, <2>2
<1>6. ASSUME NEW i \in Id \ IdsOf(p) PROVE state'[i] = state[i] /\ code'[i] = code[i]
    <2>1. CASE GetTracker(p)
        <3>1. PICK j \in FreeAt(p) :
                /\ state' = [state EXCEPT ![Candidate(p, j)] = @ \cup {"INUSE"}]
                /\ code' = [code EXCEPT ![Candidate(p, j)] = "UNKNOWNVAL"]
            BY <2>1 DEF GetTracker
        <3>2. Candidate(p, j) \in IdsOf(p)
            BY CandidateOK DEF FreeAt, IInv, TypesOK
        <3>. QED
            BY <1>1, <1>6, <3>1, <3>2
    <2>2. CASE Reap(p)
        <3>1. \A k \in Done(p) : th[p].list[k] \in IdsOf(p)
            <4>1. \A k \in Done(p) : th[p].list[k] \in ToSet(th[p].list)
                BY DEF Done, ToSet
            <4>. QED
                BY <4>1, ThreadFacts DEF ThreadOK
        <3>2. state' = state \/ \E k \in Done(p) : state' = [state EXCEPT ![th[p].list[k]] = {}]
            BY <2>2 DEF Reap
        <3>3. code' = code
            BY <2>2 DEF Reap
        <3>. QED
            BY <1>1, <1>6, <3>1, <3>2, <3>3
    <2>3. CASE ClaimTimesOut(p) \/ Send(p) \/ Release(p)
        <3>1. th[p].id \in IdsOf(p)
            BY <2>3, HoldingFacts, Holds DEF ClaimTimesOut, Send, Release, At
        <3>2. \E s : state' = [state EXCEPT ![th[p].id] = s]
            BY <2>3 DEF ClaimTimesOut, Send, Release
        <3>3. code' = code
            BY <2>3 DEF ClaimTimesOut, Send, Release
        <3>. QED
            BY <1>1, <1>6, <3>1, <3>2, <3>3
    <2>4. CASE \/ Request(p) \/ ClaimSpace(p) \/ SetLength(p) \/ SendInterrupted(p)
               \/ WaitAnswered(p) \/ GetTimesOut(p) \/ WaitTimesOut(p) \/ SendFails(p)
        BY <2>4 DEF Request, SendFails, ClaimSpace, SetLength, SendInterrupted,
            WaitAnswered, GetTimesOut, WaitTimesOut, trackers
    <2>. QED
        BY <2>1, <2>2, <2>3, <2>4 DEF Sender, TimesOut
<1>. QED
    BY <1>2, <1>3, <1>4, <1>5, <1>6 DEF OnlyPort

LEMMA HonestElsewhere ==
    ASSUME IInv, NEW p \in Port, OnlyPort(p), NEW q \in Port \ {p}, Honest(q)
    PROVE  Honest(q)'
<1>1. ASSUME NEW i \in HeldBy(th[q])
      PROVE  (Accepted(i)' <=> Accepted(i)) /\ (Took(i) => Took(i)')
    <2>1. i \in Id \ IdsOf(p)
        BY SentByFacts, PortBounds, IdsDisjoint
    <2>2. state'[i] = state[i] /\ code'[i] = code[i] /\ (Says(pipe', i) <=> Says(pipe, i)) /\ rd' = rd
        BY <2>1 DEF OnlyPort
    <2>. QED
        BY <2>2 DEF Accepted, Took, ReaderSays
<1>. QED
    BY <1>1, HonestKept DEF OnlyPort

LEMMA RequestHonest ==
    ASSUME IInv, IdInv, HonestInv, lost = 0, NEW p \in Port, Request(p)
    PROVE  Honest(p)'
<1>1. PICK n \in 1..MaxBatch :
        th' = [th EXCEPT ![p] = [Idle("OK") EXCEPT !.pc = "get", !.todo = n,
                                                   !.all = n, !.trans = n > 1]]
    BY DEF Request
<1>. PICK b, t : b = (n > 1) /\ t = th'[p]
    OBVIOUS
<1>2. t = [Idle("OK") EXCEPT !.pc = "get", !.todo = n, !.all = n, !.trans = b]
    BY <1>1, ThreadFacts
<1>3. /\ t.pc = "get" /\ t.todo = n /\ t.all = n /\ t.trans = (n > 1) /\ ~t.ending
      /\ t.res = "OK" /\ t.error = "OK" /\ t.list = <<>> /\ t.id = NoId
      /\ n \in Nat \ {0}
    BY <1>2, HubAssumption DEF Idle
<1>4. Stage(t) /\ SentSoFar(t) = 0
    <2>1. n \in 1..n /\ (~(n > 1) => n = 1) /\ n - n = 0
        BY <1>3
    <2>2. Stage(t)
        BY <1>3, <2>1 DEF Stage
    <2>3. SentSoFar(t) = 0
        BY <1>3, <2>1 DEF SentSoFar
    <2>. QED
        BY <2>2, <2>3
<1>5. SentBy(t) = {}
    BY <1>3, EmptyList DEF SentBy, HeldBy
<1>6. left' [p] = left[p] - 1 /\ taken'[p] = 0 /\ left[p] \in Nat /\ fw' = fw
    BY DEF Request, hub, IInv, TypesOK, HonestInv
<1>7. \A k \in DOMAIN fw[p] : fw[p][k].request >= left[p] /\ fw[p][k].request \in Nat
    <2>1. \A k \in DOMAIN fw[p] : fw[p][k] \in Packet
        BY TypeFacts, LenProperties, ElementOfSeq
    <2>. QED
        BY <2>1 DEF HonestInv, Honest, Packet
<1>8. /\ \A k \in DOMAIN fw[p] : fw'[p][k].request >= left'[p] /\ fw'[p][k].request # left'[p]
    BY <1>6, <1>7
<1>9. Linked(p)'
    BY <1>5, <1>6, <1>8 DEF Linked
<1>10. Open(p)' = {}
    BY <1>5 DEF Open
<1>11. Cardinality(Open(p)') = 0
    BY <1>10, FS_EmptySet
<1>. QED
    BY <1>3, <1>4, <1>6, <1>8, <1>9, <1>11 DEF Honest

\* A tracker is claimed, its bytes and its length.
LEMMA ClaimHonest ==
    ASSUME IInv, IdInv, HonestInv, lost = 0, NEW p \in Port,
           GetTracker(p) \/ ClaimSpace(p) \/ SetLength(p)
    PROVE  Honest(p)'
<1>. PICK s, t : s = th[p] /\ t = th'[p]
    OBVIOUS
<1>1. /\ UNCHANGED <<fw, left, taken, pipe, rd>>
      /\ s \in ThreadState /\ Honest(p) /\ ~s.ending
      /\ s.pc \in {"get", "claim", "length"}
    BY ThreadFacts DEF HonestInv, GetTracker, ClaimSpace, SetLength, hub, bounds, trackers,
       At, ThreadOK
<1>3. /\ t.pc \in Sending /\ t.ending = s.ending /\ t.trans = s.trans /\ t.todo = s.todo
      /\ t.all = s.all /\ t.res = s.res /\ t.error = s.error /\ t.list = s.list
    <2>1. CASE GetTracker(p)
        <3>1. PICK i, n : th' = [th EXCEPT ![p].pc = "claim", ![p].id = i, ![p].size = n]
            BY <2>1 DEF GetTracker
        <3>2. t = [s EXCEPT !.pc = "claim", !.id = i, !.size = n]
            BY <3>1, ThreadFacts
        <3>. QED
            BY <1>1, <3>2 DEF ThreadState, Sending
    <2>2. CASE ClaimSpace(p) \/ SetLength(p)
        <3>1. PICK pc \in {"length", "send"} : th' = [th EXCEPT ![p].pc = pc]
            BY <2>2 DEF ClaimSpace, SetLength, Goto
        <3>2. t = [s EXCEPT !.pc = pc]
            BY <3>1, ThreadFacts
        <3>. QED
            BY <1>1, <3>2 DEF ThreadState, Sending
    <2>. QED
        BY <1>1, <2>1, <2>2
<1>4. Good(t) <=> Good(s)
    BY <1>3 DEF Good
<1>5. Stage(t) /\ SentSoFar(t) = SentSoFar(s)
    BY <1>1, <1>3, <1>4 DEF Honest, Stage, SentSoFar, Sending
<1>6. SentBy(s) = ToSet(s.list) /\ SentBy(t) = ToSet(s.list)
    <2>1. s.pc = "get" => s.id = NoId
        BY ThreadFacts, Holds DEF ThreadOK
    <2>. QED
        BY <1>1, <1>3, <2>1 DEF SentBy, HeldBy, Sending
<1>7. ASSUME NEW j \in ToSet(s.list) PROVE state'[j] = state[j] /\ code'[j] = code[j]
    <2>1. CASE GetTracker(p)
        <3>1. PICK i \in {Candidate(p, k) : k \in FreeAt(p)} :
                /\ state' = [state EXCEPT ![i] = @ \cup {"INUSE"}]
                /\ code' = [code EXCEPT ![i] = "UNKNOWNVAL"]
            BY <2>1 DEF GetTracker
        <3>2. "INUSE" \notin state[i]
            BY DEF FreeAt, Is
        <3>3. j \in IdsOf(p) /\ j \in Id /\ "INUSE" \in state[j]
            BY <1>7, ThreadFacts DEF ThreadOK, HeldBy, Accounted
        <3>. QED
            BY <3>1, <3>2, <3>3, ThreadFacts
    <2>2. CASE ClaimSpace(p) \/ SetLength(p)
        BY <2>2 DEF ClaimSpace, SetLength, trackers
    <2>. QED
        BY <2>1, <2>2
<1>8. \A j \in ToSet(s.list) : Accepted(j)' <=> Accepted(j)
    BY <1>1, <1>7 DEF Accepted, Took, ReaderSays
<1>. QED
    BY <1>1, <1>3, <1>4, <1>5, <1>6, <1>8, HonestMoves DEF Sending

\* No tracker is free, or there is no space.
LEMMA TimeoutHonest ==
    ASSUME IInv, IdInv, HonestInv, lost = 0, NEW p \in Port,
           GetTimesOut(p) \/ ClaimTimesOut(p)
    PROVE  Honest(p)'
<1>. PICK s, t : s = th[p] /\ t = Sent(s, "TIMEOUT")
    OBVIOUS
<1>1. /\ UNCHANGED <<fw, left, taken, pipe, rd>> /\ th'[p] = t
      /\ s \in ThreadState /\ Honest(p) /\ ThreadOK(p, s)
      /\ s.pc \in {"get", "claim"}
    BY ThreadFacts DEF HonestInv, GetTimesOut, ClaimTimesOut, hub, bounds, trackers, At
<1>2. Stage(s) /\ ~s.ending /\ s.pc # "idle" /\ s.res = "OK"
    BY <1>1 DEF Honest, ThreadOK, Stage
<1>3. /\ IsInjective(s.list) /\ ToSet(s.list) \subseteq IdsOf(p)
      /\ s.trans \/ s.list = <<>>
      /\ s.todo \in 1..s.all
      /\ ~s.trans => s.error = "OK" /\ s.todo = 1
    BY <1>1, <1>2 DEF ThreadOK, Stage
<1>4. "TIMEOUT" \in Code
    BY DEF Code
<1>5. Stage(t) /\ ~Good(t)
    BY <1>1, <1>2, <1>3, <1>4, SentStage
<1>. QED
    BY <1>1, <1>5, HonestMoves

\* The send fails, or the wait for the answer ends.
LEMMA WaitHonest ==
    ASSUME IInv, IdInv, HonestInv, lost = 0, NEW p \in Port,
           SendFails(p) \/ SendInterrupted(p) \/ WaitAnswered(p) \/ WaitTimesOut(p)
    PROVE  Honest(p)'
<1>. PICK s, t : s = th[p] /\ t = th'[p]
    OBVIOUS
<1>1. /\ UNCHANGED <<fw, left, taken, pipe, rd, state, code>>
      /\ s \in ThreadState /\ Honest(p) /\ Stage(s) /\ ThreadOK(p, s)
    BY ThreadFacts DEF HonestInv, SendFails, SendInterrupted, WaitAnswered, WaitTimesOut,
        hub, bounds, trackers, At, Honest
<1>2. CASE SendFails(p) \/ SendInterrupted(p)
    <2>1. PICK res \in {"UNEXPECTED", "INTERRUPTED"} :
            th' = [th EXCEPT ![p].pc = "release", ![p].res = res]
        BY <1>2 DEF SendFails, SendInterrupted
    <2>2. t = [s EXCEPT !.pc = "release", !.res = res]
        BY <2>1, ThreadFacts
    <2>3. /\ t.pc = "release" /\ t.ending = s.ending /\ t.trans = s.trans /\ t.todo = s.todo
          /\ t.all = s.all /\ t.res = res /\ t.error = s.error
        BY <1>1, <2>2 DEF ThreadState
    <2>4. s.pc = "send" /\ ~s.ending
        BY <1>1, <1>2 DEF SendFails, SendInterrupted, At, ThreadOK
    <2>5. ~Good(t)
        BY <2>3 DEF Good
    <2>6. Stage(t)
        BY <1>1, <2>3, <2>4, <2>5 DEF Stage
    <2>. QED
        BY <1>1, <2>5, <2>6, HonestMoves
<1>3. CASE WaitAnswered(p) \/ WaitTimesOut(p)
    <2>1. PICK res \in Code : /\ Waited(p, res)
                              /\ res = "OK" => Took(s.id)
        <3>1. s.pc = "wait" => s.id \in Id
            BY HoldingFacts, Holds
        <3>2. CASE WaitAnswered(p)
            BY <3>1, <3>2, ThreadFacts DEF WaitAnswered, Is, Took, At
        <3>3. CASE WaitTimesOut(p)
            BY <3>3 DEF WaitTimesOut, Code
        <3>. QED
            BY <1>3, <3>2, <3>3
    <2>2. t = [s EXCEPT !.pc = "release", !.res = IF s.ending THEN @ ELSE res,
                        !.error = IF s.ending THEN FirstError(@, res) ELSE @]
        BY <2>1, ThreadFacts DEF Waited
    <2>3. /\ t.pc = "release" /\ t.ending = s.ending /\ t.trans = s.trans /\ t.todo = s.todo
          /\ t.all = s.all /\ t.id = s.id /\ t.list = s.list
          /\ t.res = IF s.ending THEN s.res ELSE res
          /\ t.error = IF s.ending THEN FirstError(s.error, res) ELSE s.error
        BY <1>1, <2>2 DEF ThreadState
    <2>4. s.pc = "wait" /\ (s.trans <=> s.ending)
        <3>1. s.pc = "wait"
            BY <1>3 DEF WaitAnswered, WaitTimesOut, At
        <3>2. s.ending => s.trans
            BY <3>1, HoldingFacts, Holds
        <3>. QED
            BY <1>1, <3>1, <3>2 DEF Stage, ThreadState
    <2>5. Good(t) => Good(s) /\ res = "OK"
        <3>1. CASE s.ending
            BY <2>3, <3>1 DEF Good, FirstError
        <3>2. CASE ~s.ending
            BY <1>1, <2>3, <2>4, <3>2 DEF Good, Stage
        <3>. QED
            BY <3>1, <3>2
    <2>6. Stage(t)
        BY <1>1, <2>3, <2>4, <2>5 DEF Stage
    <2>7. SentBy(t) = SentBy(s) /\ SentSoFar(t) = SentSoFar(s)
        BY <2>3, <2>4 DEF SentBy, SentSoFar, HeldBy, Sending
    <2>8. Good(t) => Took(t.id)'
        BY <1>1, <2>1, <2>3, <2>5 DEF Took
    <2>9. \A j : Accepted(j)' <=> Accepted(j)
        BY <1>1 DEF Accepted, Took, ReaderSays
    <2>. QED
        BY <1>1, <2>5, <2>6, <2>7, <2>8, <2>9, HonestMoves
<1>. QED
    BY <1>2, <1>3

\* The first packet of a transaction that is answered is reaped.
LEMMA ReapHonest ==
    ASSUME IInv, IdInv, HonestInv, lost = 0, NEW p \in Port, Reap(p)
    PROVE  Honest(p)'
<1>. PICK s, t, i : s = th[p] /\ t = th'[p] /\ i = s.id
    OBVIOUS
<1>1. /\ UNCHANGED <<fw, left, taken, pipe, rd, code>>
      /\ s \in ThreadState /\ Honest(p) /\ Stage(s) /\ ThreadOK(p, s) /\ s.pc = "reap"
      /\ "OK" \in Code /\ code \in [Id -> Code] /\ state \in [Id -> SUBSET Flag]
    BY ThreadFacts DEF HonestInv, Reap, hub, bounds, At, Honest, Code
<1>2. /\ s.trans /\ ~s.ending /\ s.res = "OK" /\ s.todo \in 1..s.all
      /\ i \in IdsOf(p) /\ i \in Id /\ i \notin ToSet(s.list)
      /\ s.list \in Seq(IdsOf(p)) /\ IsInjective(s.list) /\ ToSet(s.list) \subseteq IdsOf(p)
      /\ SentBy(s) = ToSet(s.list) \cup {i}
    <2>1. i \in IdsOf(p) /\ i \in Id /\ i \notin ToSet(s.list) /\ ~s.ending
          /\ HeldBy(s) = ToSet(s.list) \cup {i}
        BY <1>1, HoldingFacts, Holds DEF ThreadOK
    <2>2. s.list \in Seq(IdsOf(p))
        <3>1. s.list \in Seq(Id) /\ ToSet(s.list) \subseteq IdsOf(p)
            BY <1>1 DEF ThreadOK, ThreadState
        <3>2. /\ Len(s.list) \in Nat /\ DOMAIN s.list = 1..Len(s.list)
              /\ s.list = [k \in 1..Len(s.list) |-> s.list[k]]
            BY <3>1
        <3>3. \A k \in 1..Len(s.list) : s.list[k] \in IdsOf(p)
            BY <3>1, <3>2 DEF ToSet
        <3>. QED
            BY <3>2, <3>3
    <2>. QED
        BY <1>1, <2>1, <2>2 DEF Stage, ThreadOK, SentBy, Sending
<1>3. PICK u \in ThreadState :
        /\ t = Sent(u, "OK")
        /\ u.trans /\ ~u.ending /\ u.todo = s.todo /\ u.all = s.all /\ u.res = "OK"
        /\ IsInjective(u.list) /\ ToSet(u.list) \subseteq SentBy(s)
        /\ u.error = "OK" => s.error = "OK" /\ \A j \in SentBy(s) \ ToSet(u.list) : Took(j)
        /\ \A j \in ToSet(u.list) : state'[j] = state[j]
    <2>1. CASE Done(p) = {}
        <3>. PICK list, u : list = Append(s.list, i) /\ u = [s EXCEPT !.list = list]
            OBVIOUS
        <3>1. list \in Seq(IdsOf(p)) /\ IsInjective(list) /\ ToSet(list) = SentBy(s)
            BY <1>2, AppendNew
        <3>2. list \in Seq(Id)
            BY <3>1, ThreadFacts
        <3>3. t = Sent(u, "OK") /\ state' = state
            BY <2>1, ThreadFacts DEF Reap
        <3>4. /\ u \in ThreadState /\ u.list = list /\ u.error = s.error /\ u.trans /\ ~u.ending
              /\ u.todo = s.todo /\ u.all = s.all /\ u.res = "OK"
            BY <1>1, <1>2, <3>2 DEF ThreadState
        <3>. QED
            BY <3>1, <3>3, <3>4
    <2>2. CASE Done(p) # {}
        <3>1. PICK k \in Done(p) :
                /\ th' = [th EXCEPT ![p] =
                        Sent([s EXCEPT !.list = Append(RemoveAt(@, k), i),
                                       !.error = FirstError(@, code[s.list[k]])], "OK")]
                /\ state' = [state EXCEPT ![s.list[k]] = {}]
            BY <2>2 DEF Reap
        <3>. PICK d, list, error, u : /\ d = s.list[k]
                                      /\ list = Append(RemoveAt(s.list, k), i)
                                      /\ error = FirstError(s.error, code[d])
                                      /\ u = [s EXCEPT !.list = list, !.error = error]
            OBVIOUS
        <3>2. k \in 1..Len(s.list) /\ d \in ToSet(s.list) /\ "SIGNALLED" \in state[d]
            BY <1>2, LenProperties DEF Done, Is, ToSet
        <3>3. /\ RemoveAt(s.list, k) \in Seq(IdsOf(p))
              /\ IsInjective(RemoveAt(s.list, k))
              /\ ToSet(RemoveAt(s.list, k)) = ToSet(s.list) \ {d}
            BY <1>2, <3>2, RemoveAtOld
        <3>4. /\ list \in Seq(IdsOf(p)) /\ IsInjective(list)
              /\ ToSet(list) = (ToSet(s.list) \ {d}) \cup {i}
            BY <1>2, <3>3, AppendNew
        <3>5. list \in Seq(Id)
            BY <3>4, ThreadFacts
        <3>6. d \in Id /\ error \in Code
            BY <1>1, <1>2, <3>2, ThreadFacts DEF FirstError, ThreadState
        <3>7. /\ u \in ThreadState /\ u.list = list /\ u.error = error /\ u.trans /\ ~u.ending
              /\ u.todo = s.todo /\ u.all = s.all /\ u.res = "OK"
            BY <1>1, <1>2, <3>5, <3>6 DEF ThreadState
        <3>8. t = Sent(u, "OK")
            BY <3>1, ThreadFacts
        <3>9. ToSet(list) \subseteq SentBy(s) /\ SentBy(s) \ ToSet(list) \subseteq {d}
            BY <1>2, <3>4
        <3>10. \A j \in ToSet(list) : state'[j] = state[j]
            <4>1. d \notin ToSet(list) /\ ToSet(list) \subseteq Id
                BY <1>2, <3>2, <3>4, ThreadFacts
            <4>. QED
                BY <1>1, <3>1, <4>1
        <3>11. error = "OK" => s.error = "OK" /\ \A j \in SentBy(s) \ ToSet(list) : Took(j)
            BY <3>2, <3>9 DEF FirstError, Took
        <3>12. /\ IsInjective(u.list) /\ ToSet(u.list) \subseteq SentBy(s)
               /\ \A j \in ToSet(u.list) : state'[j] = state[j]
            BY <3>4, <3>7, <3>9, <3>10
        <3>13. u.error = "OK" => s.error = "OK" /\ \A j \in SentBy(s) \ ToSet(u.list) : Took(j)
            BY <3>7, <3>11
        <3>. QED
            BY <3>7, <3>8, <3>12, <3>13
    <2>. QED
        BY <2>1, <2>2
<1>4. ToSet(u.list) \subseteq IdsOf(p) /\ u.todo \in 1..u.all /\ u.res \in {"OK", "OK"}
    BY <1>2, <1>3
<1>5. /\ Stage(t) /\ t.pc # "release"
      /\ Good(t) => Good(u) /\ SentBy(t) = ToSet(u.list) /\ SentSoFar(t) = u.all - u.todo + 1
    BY <1>1, <1>3, <1>4, SentStage
<1>6. Good(u) => Good(s) /\ \A j \in SentBy(s) \ ToSet(u.list) : Took(j)
    BY <1>2, <1>3 DEF Good
<1>7. SentSoFar(s) = u.all - u.todo + 1
    BY <1>1, <1>3 DEF SentSoFar
<1>8. \A j \in ToSet(u.list) : Accepted(j)' <=> Accepted(j)
    BY <1>1, <1>3 DEF Accepted, Took, ReaderSays
<1>. QED
    BY <1>1, <1>3, <1>5, <1>6, <1>7, <1>8, HonestMoves

\* A tracker is released: if all is well its packet was taken.
LEMMA ReleaseHonest ==
    ASSUME IInv, IdInv, HonestInv, lost = 0, NEW p \in Port, Release(p)
    PROVE  Honest(p)'
<1>. PICK s, t, i : s = th[p] /\ t = th'[p] /\ i = s.id
    OBVIOUS
<1>1. /\ UNCHANGED <<fw, left, taken, pipe, rd, code>>
      /\ state' = [state EXCEPT ![i] = Released(i)] /\ state \in [Id -> SUBSET Flag]
      /\ s \in ThreadState /\ Honest(p) /\ Stage(s) /\ ThreadOK(p, s) /\ s.pc = "release"
      /\ t = IF s.ending THEN Ends([s EXCEPT !.list = Tail(@)]) ELSE Sent(s, s.res)
    BY ThreadFacts DEF HonestInv, Release, hub, bounds, At, Honest
<1>2. /\ s.todo \in 1..s.all /\ s.todo \in Nat /\ s.all \in Nat /\ s.res \in Code
      /\ IsInjective(s.list) /\ ToSet(s.list) \subseteq IdsOf(p) /\ s.list \in Seq(Id)
      /\ SentBy(s) = HeldBy(s) /\ SentSoFar(s) = s.all - s.todo + 1
      /\ s.trans \/ s.list = <<>>
      /\ Good(s) => Took(i)
    BY <1>1 DEF Stage, ThreadOK, ThreadState, SentBy, SentSoFar, Sending, Honest
<1>3. /\ Stage(t) /\ t.pc # "release"
      /\ Good(t) => /\ Good(s) /\ SentSoFar(t) = SentSoFar(s)
                    /\ SentBy(t) = HeldBy(s) \ {i}
    <2>1. CASE s.ending
        <3>. PICK u : u = [s EXCEPT !.list = Tail(s.list)]
            OBVIOUS
        <3>1. s.list # <<>> /\ i = Head(s.list) /\ s.trans /\ HeldBy(s) = ToSet(s.list)
            BY <1>1, <2>1, HoldingFacts, Holds
        <3>2. /\ Tail(s.list) \in Seq(Id) /\ IsInjective(Tail(s.list))
              /\ ToSet(Tail(s.list)) = ToSet(s.list) \ {i}
            BY <1>2, <3>1, TailOld
        <3>3. /\ u \in ThreadState /\ u.list = Tail(s.list) /\ u.trans
              /\ u.todo = s.todo /\ u.all = s.all /\ u.res = s.res /\ u.error = s.error
            BY <1>1, <3>1, <3>2 DEF ThreadState
        <3>4. (Good(u) <=> Good(s)) /\ (Good(s) => s.todo = 1)
            BY <1>1, <2>1, <3>3 DEF Good, Stage
        <3>5. ToSet(u.list) \subseteq IdsOf(p)
            BY <1>2, <3>2, <3>3
        <3>6. t = Ends(u) /\ IsInjective(u.list) /\ u.todo \in 1..u.all
              /\ (Good(u) => u.todo = 1)
            BY <1>1, <1>2, <2>1, <3>2, <3>3, <3>4
        <3>7. /\ Stage(t) /\ t.pc # "release"
              /\ Good(t) => Good(u) /\ SentBy(t) = ToSet(u.list) /\ SentSoFar(t) = u.all
            BY <3>3, <3>5, <3>6, EndsStage
        <3>8. Good(t) => SentSoFar(t) = SentSoFar(s)
            BY <1>2, <3>3, <3>4, <3>7
        <3>. QED
            BY <3>1, <3>2, <3>3, <3>4, <3>7, <3>8
    <2>2. CASE ~s.ending
        <3>1. HeldBy(s) = ToSet(s.list) \cup {i} /\ i \notin ToSet(s.list)
            BY <1>1, <2>2, HoldingFacts, Holds
        <3>2. ~s.trans => s.error = "OK" /\ s.todo = 1
            BY <1>1 DEF Stage
        <3>3. t = Sent(s, s.res)
            BY <1>1, <2>2
        <3>4. /\ Stage(t) /\ t.pc # "release"
              /\ Good(t) => Good(s) /\ SentBy(t) = ToSet(s.list)
                            /\ SentSoFar(t) = s.all - s.todo + 1
            BY <1>1, <1>2, <2>2, <3>2, <3>3, SentStage
        <3>. QED
            BY <1>2, <3>1, <3>4
    <2>. QED
        BY <2>1, <2>2
<1>4. \A j \in HeldBy(s) \ {i} : Accepted(j)' <=> Accepted(j)
    <2>1. HeldBy(s) \subseteq Id
        BY SentByFacts, PortBounds
    <2>2. \A j \in HeldBy(s) \ {i} : state'[j] = state[j]
        BY <1>1, <2>1
    <2>. QED
        BY <1>1, <2>2 DEF Accepted, Took, ReaderSays
<1>5. Good(t) => \A j \in SentBy(s) \ SentBy(t) : Took(j)
    BY <1>2, <1>3
<1>. QED
    BY <1>1, <1>2, <1>3, <1>4, <1>5, HonestMoves

\* A packet that is sent is one more that the device has not taken.
LEMMA SendHonest ==
    ASSUME IInv, IdInv, HonestInv, lost = 0, NEW p \in Port, Send(p)
    PROVE  Honest(p)'
<1>. PICK s, t, i : s = th[p] /\ t = th'[p] /\ i = s.id
    OBVIOUS
<1>1. /\ UNCHANGED <<left, taken, rd, code>>
      /\ state' = [state EXCEPT ![i] = @ \cup {"SENT"}] /\ "SIGNALLED" \notin state[i]
      /\ s \in ThreadState /\ Honest(p) /\ Stage(s) /\ ThreadOK(p, s) /\ s.pc = "send"
      /\ t = [s EXCEPT !.pc = IF s.trans THEN "reap" ELSE "wait"]
      /\ state \in [Id -> SUBSET Flag] /\ fw \in [Port -> Seq(Packet)]
    BY ThreadFacts, TypeFacts DEF HonestInv, Send, Goto, hub, bounds, At, Honest, Is
<1>2. /\ i \in IdsOf(p) /\ i \in Id /\ i \notin ToSet(s.list) /\ ~s.ending
      /\ HeldBy(s) = ToSet(s.list) \cup {i}
    BY <1>1, HoldingFacts, Holds DEF ThreadOK
<1>3. /\ t.pc = IF s.trans THEN "reap" ELSE "wait"
      /\ t.id = i /\ t.list = s.list /\ t.ending = s.ending /\ t.trans = s.trans
      /\ t.todo = s.todo /\ t.all = s.all /\ t.res = s.res /\ t.error = s.error
      /\ s.all \in Nat /\ s.todo \in Nat
    BY <1>1 DEF ThreadState
<1>4. Good(t) <=> Good(s)
    BY <1>3 DEF Good
<1>5. Stage(t)
    BY <1>1, <1>2, <1>3, <1>4 DEF Stage
<1>6. SentBy(s) = ToSet(s.list) /\ SentBy(t) = ToSet(s.list) \cup {i}
    BY <1>1, <1>2, <1>3 DEF SentBy, HeldBy, Sending
<1>7. SentSoFar(t) = SentSoFar(s) + 1
    BY <1>1, <1>3 DEF SentSoFar
<1>8. ~OnWay(i)
    BY <1>1, <1>2 DEF IdInv, Unsent, Waits, Sending
<1>9. \A j : Says(pipe', j) <=> Says(pipe, j)
    <2>. PICK r : r = [kind |-> "return", id |-> i, code |-> "NOSPC"]
        OBVIOUS
    <2>1. \A j : ~TookAnswer(r, j)
        BY DEF TookAnswer
    <2>2. pipe' = pipe \/ pipe' = Append(pipe, r)
        BY DEF Send
    <2>3. PICK S : pipe \in Seq(S)
        BY TypeFacts
    <2>4. \A j : Says(Append(pipe, r), j) <=> Says(pipe, j)
        BY <2>1, <2>3, SaysAppend
    <2>. QED
        BY <2>2, <2>4
<1>10. \A j \in ToSet(s.list) : Accepted(j)' <=> Accepted(j)
    <2>1. \A j \in ToSet(s.list) : state'[j] = state[j]
        <3>1. ToSet(s.list) \subseteq Id \ {i}
            BY <1>1, <1>2, ThreadFacts DEF ThreadOK
        <3>. QED
            BY <1>1, <3>1
    <2>. QED
        BY <1>1, <1>9, <2>1 DEF Accepted, Took, ReaderSays
<1>11. ~Accepted(i)'
    <2>1. "SIGNALLED" \notin state'[i]
        BY <1>1, <1>2
    <2>2. ~Says(pipe, i) /\ ~ReaderSays(i)
        BY <1>8, SaysOnWay DEF OnWay, ReaderSays, ReaderIds
    <2>. QED
        BY <1>1, <1>9, <2>1, <2>2 DEF Accepted, Took, ReaderSays
<1>12. i \notin Open(p) /\ Open(p)' = Open(p) \cup {i}
    <2>1. Open(p) = {j \in ToSet(s.list) : ~Accepted(j)}
        BY <1>6 DEF Open
    <2>2. Open(p)' = {j \in ToSet(s.list) \cup {i} : ~Accepted(j)'}
        BY <1>6 DEF Open
    <2>. QED
        BY <1>2, <1>10, <1>11, <2>1, <2>2
<1>13. Cardinality(Open(p)') = Cardinality(Open(p)) + 1
    BY <1>12, SentByFacts, FS_AddElement
<1>14. /\ \A k \in DOMAIN fw'[p] : fw'[p][k].request >= left[p]
       /\ Linked(p) => \A k \in DOMAIN fw'[p] : fw'[p][k].request = left[p] <=> fw'[p][k].id \in SentBy(t)
    <2>. PICK pkt : pkt = [id |-> i, len |-> s.size, request |-> left[p]]
        OBVIOUS
    <2>1. pkt \in Packet /\ left[p] \in Nat
        BY <1>1, <1>2 DEF Packet, ThreadState, IInv, TypesOK
    <2>2. fw'[p] = fw[p] \/ fw'[p] = Append(fw[p], pkt)
        BY <1>1 DEF Send
    <2>3. \A k \in DOMAIN fw[p] : fw[p][k].request >= left[p] /\ fw[p][k].id # i
        BY <1>1, <1>8, OnWayNotTook DEF Honest
    <2>4. CASE fw'[p] = fw[p]
        <3>1. \A k \in DOMAIN fw[p] : fw[p][k].id \in SentBy(s) <=> fw[p][k].id \in SentBy(t)
            BY <1>6, <2>3
        <3>2. Linked(p) => \A k \in DOMAIN fw[p] : fw[p][k].request = left[p] <=> fw[p][k].id \in SentBy(t)
            BY <3>1 DEF Linked
        <3>. QED
            BY <2>3, <2>4, <3>2
    <2>5. CASE fw'[p] = Append(fw[p], pkt)
        <3>1. fw[p] \in Seq(Packet)
            BY <1>1
        <3>. PICK a, n : a = Append(fw[p], pkt) /\ n = Len(fw[p])
            OBVIOUS
        <3>2. /\ n \in Nat /\ DOMAIN fw[p] = 1..n
              /\ DOMAIN a = 1..n + 1
              /\ \A k \in 1..n : a[k] = fw[p][k]
              /\ a[n + 1] = pkt
            BY <2>1, <3>1, AppendFacts
        <3>3. \A k \in 1..n + 1 : k \in 1..n \/ k = n + 1
            BY <3>2
        <3>4. \A k \in 1..n + 1 : a[k].request >= left[p]
            BY <2>1, <2>3, <3>2, <3>3
        <3>5. ASSUME Linked(p), NEW k \in 1..n + 1
              PROVE  a[k].request = left[p] <=> a[k].id \in SentBy(t)
            <4>1. CASE k \in 1..n
                BY <1>6, <2>3, <3>2, <3>5, <4>1 DEF Linked
            <4>2. CASE k = n + 1
                BY <1>6, <3>2, <4>2
            <4>. QED
                BY <3>3, <4>1, <4>2
        <3>. QED
            BY <2>5, <3>2, <3>4, <3>5
    <2>. QED
        BY <2>2, <2>4, <2>5
<1>15. Good(t) => Linked(p)'
    BY <1>1, <1>4, <1>14 DEF Linked, Honest
<1>16. Good(t) => taken'[p] + Cardinality(Open(p)') = SentSoFar(t)
    <2>1. Good(t) => taken[p] + Cardinality(Open(p)) = SentSoFar(s)
        BY <1>1, <1>4 DEF Honest
    <2>. PICK a, b : a = taken[p] /\ b = Cardinality(Open(p))
        OBVIOUS
    <2>2. a \in Nat /\ b \in Nat
        BY SentByFacts DEF HonestInv
    <2>3. taken'[p] = a /\ Cardinality(Open(p)') = b + 1
        BY <1>1, <1>13
    <2>4. a + (b + 1) = (a + b) + 1
        BY <2>2
    <2>. QED
        BY <1>7, <2>1, <2>3, <2>4
<1>17. t.pc # "release" /\ left' = left
    BY <1>1, <1>3
<1>. QED
    BY <1>5, <1>14, <1>15, <1>16, <1>17 DEF Honest

-----------------------------------------------------------------------------
(* The steps of the hub and the reader                                         *)

LEMMA AnswerHonest ==
    ASSUME IInv, IdInv, HonestInv, lost = 0, NEW p \in Port, Answer(p), NEW q \in Port
    PROVE  Honest(q)'
<1>1. PICK c \in {"OK", "UNEXPECTED"} :
        /\ pipe' = Append(pipe, [kind |-> "return", id |-> Head(fw[p]).id, code |-> c])
        /\ taken' = [taken EXCEPT ![p] =
                        IF c = "OK" /\ Head(fw[p]).request = left[p] THEN @ + 1 ELSE @]
    BY DEF Answer
<1>. PICK i, r, s : i = Head(fw[p]).id /\ r = Head(fw[p]).request /\ s = th[p]
    OBVIOUS
<1>2. /\ UNCHANGED <<th, rd, left, state, code>>
      /\ fw' = [fw EXCEPT ![p] = Tail(@)] /\ fw[p] # <<>>
      /\ fw \in [Port -> Seq(Packet)] /\ taken \in [Port -> Nat]
      /\ Honest(p) /\ Honest(q)
    BY TypeFacts DEF Answer, trackers, bounds, HonestInv
<1>3. \A j : Says(pipe', j) <=> Says(pipe, j) \/ (c = "OK" /\ j = i)
    <2>. PICK x : x = [kind |-> "return", id |-> i, code |-> c]
        OBVIOUS
    <2>1. \A j : TookAnswer(x, j) <=> (c = "OK" /\ j = i)
        BY DEF TookAnswer
    <2>2. PICK S : pipe \in Seq(S)
        BY TypeFacts
    <2>3. pipe' = Append(pipe, x)
        BY <1>1
    <2>4. \A j : Says(Append(pipe, x), j) <=> Says(pipe, j) \/ TookAnswer(x, j)
        BY <2>2, SaysAppend
    <2>. QED
        BY <2>1, <2>3, <2>4
<1>4. \A j : Accepted(j)' <=> Accepted(j) \/ (c = "OK" /\ j = i)
    BY <1>2, <1>3 DEF Accepted, Took, ReaderSays
<1>5. /\ 1 \in DOMAIN fw[p] /\ i = fw[p][1].id /\ r = fw[p][1].request
      /\ \A k \in DOMAIN Tail(fw[p]) : k + 1 \in DOMAIN fw[p] /\ Tail(fw[p])[k] = fw[p][k + 1]
    <2>1. fw[p] \in Seq(Packet)
        BY <1>2
    <2>. PICK n : n = Len(fw[p])
        OBVIOUS
    <2>2. /\ n \in Nat \ {0} /\ DOMAIN fw[p] = 1..n /\ DOMAIN Tail(fw[p]) = 1..n - 1
          /\ \A k \in 1..n - 1 : Tail(fw[p])[k] = fw[p][k + 1]
          /\ Head(fw[p]) = fw[p][1]
        BY <1>2, <2>1, TailFacts
    <2>. QED
        BY <2>2
<1>6. i \in IdsOf(p) /\ Waits(i) /\ i \in Ids(fw[p])
    BY <1>5, OnWayNotTook DEF Ids
<1>7. CASE q # p
    <2>1. fw'[q] = fw[q] /\ taken'[q] = taken[q]
        BY <1>1, <1>2, <1>7
    <2>2. i \notin HeldBy(th[q])
        BY <1>6, <1>7, SentByFacts, IdsDisjoint
    <2>3. \A j : Took(j) => Took(j)'
        BY <1>2 DEF Took
    <2>. QED
        BY <1>2, <1>4, <2>1, <2>2, <2>3, HonestKept
<1>8. CASE q = p
    <2>1. fw'[p] = Tail(fw[p])
        BY <1>2
    <2>2. \A k \in DOMAIN fw'[p] : fw'[p][k].request >= left[p]
        BY <1>2, <1>5, <2>1 DEF Honest
    <2>3. Linked(p) => Linked(p)'
        BY <1>2, <1>5, <2>1 DEF Linked
    <2>4. Took(s.id) => Took(s.id)'
        BY <1>2 DEF Took
    <2>5. ~Accepted(i)
        <3>1. i \notin AnsIds(pipe) /\ i \notin ReaderIds
            BY <1>6 DEF IdInv, Apart
        <3>. QED
            BY <1>6, <3>1, SaysOnWay DEF Accepted, Took, Waits, ReaderSays, ReaderIds
    <2>6. ASSUME Good(s)
          PROVE  taken'[p] + Cardinality(Open(p)') = SentSoFar(s)
        <3>1. taken[p] + Cardinality(Open(p)) = SentSoFar(s) /\ Linked(p)
            BY <1>2, <2>6 DEF Honest
        <3>2. r = left[p] <=> i \in SentBy(s)
            BY <1>5, <3>1 DEF Linked
        <3>3. Open(p)' = {j \in SentBy(s) : ~Accepted(j) /\ ~(c = "OK" /\ j = i)}
            BY <1>2, <1>4 DEF Open
        <3>4. Open(p) = {j \in SentBy(s) : ~Accepted(j)}
            BY DEF Open
        <3>5. /\ IsFiniteSet(Open(p)) /\ Cardinality(Open(p)) \in Nat /\ taken[p] \in Nat
            BY <1>2, SentByFacts
        <3>6. CASE c = "OK" /\ r = left[p]
            <4>1. i \in Open(p) /\ Open(p)' = Open(p) \ {i}
                BY <2>5, <3>2, <3>3, <3>4, <3>6
            <4>2. Cardinality(Open(p)') = Cardinality(Open(p)) - 1
                <5>. PICK A : A = Open(p)
                    OBVIOUS
                <5>1. IsFiniteSet(A) /\ i \in A
                    BY <3>5, <4>1
                <5>2. Cardinality(A \ {i}) = Cardinality(A) - 1
                    BY <5>1, FS_RemoveElement
                <5>. QED
                    BY <4>1, <5>2
            <4>3. taken'[p] = taken[p] + 1
                BY <1>1, <1>2, <3>6
            <4>. QED
                BY <3>1, <3>5, <4>2, <4>3
        <3>7. CASE ~(c = "OK" /\ r = left[p])
            <4>1. Open(p)' = Open(p)
                BY <3>2, <3>3, <3>4, <3>7
            <4>2. taken'[p] = taken[p]
                BY <1>1, <1>2, <3>7
            <4>. QED
                BY <3>1, <4>1, <4>2
        <3>. QED
            BY <3>6, <3>7
    <2>7. Stage(s) /\ (Good(s) => Linked(p) /\ (s.pc = "release" => Took(s.id)))
        BY <1>2 DEF Honest
    <2>8. Honest(p)'
        BY <1>2, <2>2, <2>3, <2>4, <2>6, <2>7 DEF Honest
    <2>. QED
        BY <1>8, <2>8
<1>. QED
    BY <1>7, <1>8

\* The reader reads a report, or is through with one, or the hub tells its status.
LEMMA ReaderHonest ==
    ASSUME IInv, IdInv, HonestInv, lost = 0, Reader \/ AskFails \/ Status,
           NEW p \in Port
    PROVE  Honest(p)'
<1>1. /\ UNCHANGED <<th, fw, left, taken>> /\ Honest(p)
      /\ state \in [Id -> SUBSET Flag] /\ code \in [Id -> Code]
      /\ HeldBy(th[p]) \subseteq Id
      /\ \A i \in HeldBy(th[p]) : "ABANDONED" \notin state[i]
    <2>1. UNCHANGED <<th, fw, left, taken>>
        BY DEF Reader, ReadReturn, ReadStatus, ReadData, ReturnUnexpected, SetReturnCode,
            ReleaseSpace, CountsUnknown, AskStatus, KillOutstanding, AskFails, Status, hub, bounds
    <2>2. HeldBy(th[p]) \subseteq IdsOf(p)
        BY SentByFacts
    <2>3. \A i \in IdsOf(p) : Accounted(state[i], i \in HeldBy(th[p]))
        BY ThreadFacts
    <2>. QED
        BY <2>1, <2>2, <2>3, ThreadFacts DEF HonestInv, Accounted
<1>2. PICK S : pipe \in Seq(S)
    BY TypeFacts
<1>3. NoGap /\ Apart /\ \A i \in Id : OnWay(i) => Waits(i)
    BY DEF IdInv
<1>4. ASSUME NEW i \in HeldBy(th[p])
      PROVE  (Accepted(i)' <=> Accepted(i)) /\ (Took(i) => Took(i)')
    <2>1. CASE ReadReturn
        <3>. PICK r : r = Head(pipe)
            OBVIOUS
        <3>1. /\ rd'.pc = "code" /\ rd'.id = r.id /\ rd'.code = r.code /\ r.kind = "return"
              /\ rd.pc = "idle" /\ pipe' = Tail(pipe) /\ pipe # <<>>
              /\ UNCHANGED <<state, code>>
            BY <2>1 DEF ReadReturn, trackers
        <3>2. Says(pipe, i) <=> Says(pipe', i) \/ TookAnswer(r, i)
            BY <1>2, <3>1, SaysTail
        <3>3. TookAnswer(r, i) <=> ReaderSays(i)'
            BY <3>1 DEF TookAnswer, ReaderSays
        <3>. QED
            BY <3>1, <3>2, <3>3 DEF Accepted, Took, ReaderSays
    <2>2. CASE ReadStatus \/ ReadData
        <3>. PICK r : r = Head(pipe)
            OBVIOUS
        <3>1. /\ r.kind # "return" /\ rd.pc = "idle" /\ pipe' = Tail(pipe) /\ pipe # <<>>
              /\ UNCHANGED <<state, code>>
              /\ rd' = Checked([rd EXCEPT !.gap = gap])
            BY <2>2 DEF ReadStatus, ReadData, trackers
        <3>2. Says(pipe, i) <=> Says(pipe', i)
            BY <1>2, <3>1, SaysTail DEF TookAnswer
        <3>3. rd'.pc # "code"
            <4>1. ~[rd EXCEPT !.gap = gap].gap
                BY <1>3, TypeFacts DEF NoGap
            <4>. QED
                BY <3>1, <4>1 DEF Checked, Reads
        <3>. QED
            BY <3>1, <3>2, <3>3 DEF Accepted, Took, ReaderSays
    <2>3. CASE SetReturnCode
        <3>. PICK d : d = rd.id
            OBVIOUS
        <3>1. /\ rd.pc = "code" /\ "SIGNALLED" \notin state[d] /\ pipe' = pipe
              /\ rd'.pc = "space" /\ d \in Id
              /\ \A j \in Id \ {d} : state'[j] = state[j] /\ code'[j] = code[j]
              /\ "ABANDONED" \notin state[d] =>
                    state'[d] = state[d] \cup {"SIGNALLED"} /\ code'[d] = rd.code
            BY <1>1, <2>3, TypeFacts DEF SetReturnCode, Is, hub, IInv, TypesOK
        <3>2. CASE i = d
            BY <1>1, <3>1, <3>2 DEF Accepted, Took, ReaderSays
        <3>3. CASE i # d
            BY <1>1, <3>1, <3>3 DEF Accepted, Took, ReaderSays
        <3>. QED
            BY <3>2, <3>3
    <2>4. CASE ReturnUnexpected
        <3>1. rd.id \in ReaderIds /\ rd.id \in Id
            BY <2>4, TypeFacts DEF ReturnUnexpected, ReaderIds
        <3>2. Waits(rd.id)
            BY <1>3, <3>1 DEF OnWay
        <3>. QED
            BY <2>4, <3>2 DEF ReturnUnexpected, Is, Waits
    <2>5. CASE ReleaseSpace \/ CountsUnknown \/ AskStatus \/ AskFails
        <3>1. rd.pc # "code" /\ UNCHANGED <<state, code, pipe>>
            BY <2>5 DEF ReleaseSpace, CountsUnknown, AskStatus, AskFails, trackers, hub
        <3>2. rd'.pc # "code"
            <4>1. \A pc \in {"unknown", "ask", "asklost", "kill"} : [rd EXCEPT !.pc = pc].pc = pc
                BY TypeFacts
            <4>2. Reads.pc = "idle"
                BY DEF Reads
            <4>. QED
                BY <2>5, <4>1, <4>2
                   DEF ReleaseSpace, CountsUnknown, AskStatus, AskFails, Asked, Checked
        <3>. QED
            BY <3>1, <3>2 DEF Accepted, Took, ReaderSays
    <2>6. CASE Status
        <3>. PICK r : r = [kind |-> "status", used |-> [q \in Port |-> Used(q)]]
            OBVIOUS
        <3>1. r.kind # "return" /\ pipe' = Append(pipe, r) /\ UNCHANGED <<state, code, rd>>
            BY <2>6 DEF Status, trackers
        <3>2. Says(pipe', i) <=> Says(pipe, i)
            BY <1>2, <3>1, SaysAppend DEF TookAnswer
        <3>. QED
            BY <3>1, <3>2 DEF Accepted, Took, ReaderSays
    <2>7. ~KillOutstanding
        BY <1>3 DEF KillOutstanding, NoGap
    <2>. QED
        BY <2>1, <2>2, <2>3, <2>4, <2>5, <2>6, <2>7 DEF Reader
<1>. QED
    BY <1>1, <1>4, HonestKept

-----------------------------------------------------------------------------
(* The theorem                                                                 *)

LEMMA SenderHonest ==
    ASSUME IInv, IdInv, HonestInv, lost = 0, NEW p \in Port,
           Request(p) \/ Sender(p) \/ TimesOut(p) \/ SendFails(p), NEW q \in Port
    PROVE  Honest(q)'
<1>1. CASE q = p
    <2>1. Honest(p)'
        BY RequestHonest, ClaimHonest, TimeoutHonest, WaitHonest, ReapHonest, ReleaseHonest,
           SendHonest DEF Sender, TimesOut
    <2>. QED
        BY <1>1, <2>1
<1>2. CASE q # p
    <2>1. OnlyPort(p) /\ Honest(q)
        BY SenderElsewhere DEF HonestInv
    <2>. QED
        BY <1>2, <2>1, HonestElsewhere
<1>. QED
    BY <1>1, <1>2

LEMMA TakenType ==
    ASSUME IInv, HonestInv, [Next]_vars
    PROVE  taken' \in [Port -> Nat]
<1>1. taken \in [Port -> Nat]
    BY DEF HonestInv
<1>2. ASSUME NEW p \in Port, Request(p) \/ Sender(p) \/ TimesOut(p) \/ SendFails(p)
      PROVE  taken' \in [Port -> Nat]
    BY <1>2, SenderElsewhere
<1>3. ASSUME NEW p \in Port, Answer(p) PROVE taken' \in [Port -> Nat]
    BY <1>1, <1>3 DEF Answer
<1>4. CASE Reader \/ AskFails \/ Status \/ Data \/ Lose \/ UNCHANGED vars
    BY <1>1, <1>4 DEF Reader, ReadReturn, ReadStatus, ReadData, ReturnUnexpected, SetReturnCode,
        ReleaseSpace, CountsUnknown, AskStatus, KillOutstanding, AskFails, Status, Data, Lose, vars
<1>. QED
    BY <1>2, <1>3, <1>4 DEF Next

LEMMA NextHonest == IInv /\ IdInv /\ HonestInv /\ [Next]_vars => HonestInv'
<1>. SUFFICES ASSUME IInv, IdInv, HonestInv, [Next]_vars, lost' = 0, NEW q \in Port
     PROVE  Honest(q)'
    BY TakenType DEF HonestInv
<1>1. CASE Lose
    BY <1>1 DEF Lose, IdInv
<1>2. lost = 0 \/ Lose
    BY SenderElsewhere DEF OnlyPort, Next, Answer, Reader, ReadReturn, ReadStatus, ReadData,
        ReturnUnexpected, SetReturnCode, ReleaseSpace, CountsUnknown, AskStatus, KillOutstanding,
        AskFails, Status, Data, vars, bounds
<1>3. CASE Data
    BY <1>1, <1>2, <1>3 DEF Data, IdInv, NoGap
<1>4. ASSUME NEW p \in Port, Request(p) \/ Sender(p) \/ TimesOut(p) \/ SendFails(p)
      PROVE  Honest(q)'
    BY <1>1, <1>2, <1>4, SenderHonest
<1>5. ASSUME NEW p \in Port, Answer(p)
      PROVE  Honest(q)'
    BY <1>1, <1>2, <1>5, AnswerHonest
<1>6. CASE Reader \/ AskFails \/ Status
    BY <1>1, <1>2, <1>6, ReaderHonest
<1>7. CASE UNCHANGED vars
    <2>1. UNCHANGED <<th, fw, left, taken, state, code, pipe, rd>> /\ lost = 0
        BY <1>1, <1>2, <1>7 DEF vars, trackers, hub, bounds
    <2>2. \A i : (Accepted(i)' <=> Accepted(i)) /\ (Took(i) => Took(i)')
        BY <2>1 DEF Accepted, Took, ReaderSays
    <2>3. Honest(q)
        BY <2>1 DEF HonestInv
    <2>. QED
        BY <2>1, <2>2, <2>3, HonestKept
<1>. QED
    BY <1>1, <1>3, <1>4, <1>5, <1>6, <1>7 DEF Next

LEMMA InitHonest == Init => HonestInv
<1>. SUFFICES ASSUME Init PROVE HonestInv
    OBVIOUS
<1>1. taken \in [Port -> Nat]
    BY DEF Init
<1>2. ASSUME NEW p \in Port PROVE Honest(p)
    <2>. PICK s : s = th[p]
        OBVIOUS
    <2>1. s = Idle("OK")
        BY DEF Init
    <2>2. /\ s.pc = "idle" /\ s.id = NoId /\ s.list = <<>> /\ ~s.ending /\ ~s.trans
          /\ s.todo = 0 /\ s.all = 0 /\ s.error = "OK"
        BY <2>1 DEF Idle
    <2>3. Stage(s) /\ SentSoFar(s) = 0
        BY <2>2 DEF Stage, SentSoFar
    <2>4. SentBy(s) = {}
        BY <2>2, EmptyList DEF SentBy, HeldBy, Sending
    <2>5. fw[p] = <<>> /\ taken[p] = 0
        BY DEF Init
    <2>6. Open(p) = {}
        BY <2>4 DEF Open
    <2>7. Cardinality(Open(p)) = 0
        BY <2>6, FS_EmptySet
    <2>8. Linked(p) /\ \A k \in DOMAIN fw[p] : fw[p][k].request >= left[p]
        BY <2>5 DEF Linked
    <2>. QED
        BY <2>2, <2>3, <2>5, <2>7, <2>8 DEF Honest
<1>. QED
    BY <1>1, <1>2 DEF HonestInv

LEMMA HonestImplies == IInv /\ HonestInv => ResultHonest
<1>. SUFFICES ASSUME IInv, HonestInv, lost = 0, NEW p \in Port,
                     th[p].pc = "idle", th[p].res = "OK"
     PROVE  taken[p] = th[p].all
    BY DEF ResultHonest, At
<1>. PICK s : s = th[p]
    OBVIOUS
<1>1. Honest(p) /\ Stage(s) /\ s.todo = 0 /\ s.error = "OK" /\ Good(s)
    BY DEF HonestInv, Honest, Stage, Good
<1>2. SentBy(s) = {}
    BY ThreadFacts, EmptyList, Holds DEF SentBy, HeldBy, ThreadOK, Sending
<1>3. Open(p) = {}
    BY <1>2 DEF Open
<1>4. Cardinality(Open(p)) = 0
    BY <1>3, FS_EmptySet
<1>5. SentSoFar(s) = s.all - 0
    BY <1>1 DEF SentSoFar
<1>6. taken[p] \in Nat /\ s.all \in Nat
    BY ThreadFacts DEF HonestInv, ThreadState
<1>7. taken[p] + Cardinality(Open(p)) = SentSoFar(s)
    BY <1>1 DEF Honest
<1>. QED
    BY <1>4, <1>5, <1>6, <1>7

\* As long as no report is lost, a request that ends well had each of its packets
\* taken by the device, whatever times out and fails, and however many of its
\* trackers endTransaction and the reaping in sendpacket released (phidget.c)
\* before the last packet was answered.
THEOREM ResultsHonest == Spec => []ResultHonest
<1>1. Init => IInv /\ IdInv /\ HonestInv
    BY InitOK, InitIds, InitHonest
<1>2. IInv /\ IdInv /\ HonestInv /\ [Next]_vars => (IInv /\ IdInv /\ HonestInv)'
    BY NextOK, NextIds, NextHonest
<1>3. IInv /\ IdInv /\ HonestInv => ResultHonest
    BY HonestImplies
<1>. QED
    BY <1>1, <1>2, <1>3, PTL DEF Spec

=============================================================================
