------------------------- MODULE FeatureJoinsProofs -------------------------
(***************************************************************************)
(* For all users, events, window lengths and ranges: inside the range of a     *)
(* backfill its aggregates are those of all events, among the rows of a base   *)
(* window is the one whose windows all hold it, and what the counts come to    *)
(* makes sense, for the sum over a bag is the number of the copies in it.      *)
(***************************************************************************)
EXTENDS FeatureJoins, FiniteSetTheorems, TLAPS

------------------------------------------------------------------------------
(* Counting *)

\* The copies that a bag with the elements S has of each, one by one.
Copies(B, S) == UNION {{<<e, i>> : i \in 1..B[e]} : e \in S}

FiniteBag(B) == B \in [DOMAIN B -> Nat \ {0}] /\ IsFiniteSet(DOMAIN B)

LEMMA CopiesOfOne ==
    ASSUME NEW x, NEW n \in Nat
    PROVE  IsFiniteSet({<<x, i>> : i \in 1..n}) /\ Cardinality({<<x, i>> : i \in 1..n}) = n
  <1> DEFINE T == {<<x, i>> : i \in 1..n}
             f == [i \in 1..n |-> <<x, i>>]
  <1>1. f \in Bijection(1..n, T)
    BY DEF Bijection, Injection, Surjection, IsInjective
  <1>2. ExistsBijection(1..n, T)
    BY <1>1 DEF ExistsBijection
  <1>3. IsFiniteSet(1..n) /\ Cardinality(1..n) = n
    BY FS_Interval
  <1> HIDE DEF T
  <1>4. IsFiniteSet(T) /\ Cardinality(T) = n
    BY <1>2, <1>3, FS_Bijection
  <1> QED  BY <1>4 DEF T

\* One element more brings its copies.
LEMMA CopiesOfOneMore ==
    ASSUME NEW B, NEW S, NEW x \in S, B[x] \in Nat, IsFiniteSet(Copies(B, S \ {x}))
    PROVE  /\ IsFiniteSet(Copies(B, S))
           /\ Cardinality(Copies(B, S)) = B[x] + Cardinality(Copies(B, S \ {x}))
  <1> DEFINE own == {<<x, i>> : i \in 1..B[x]}
             other == Copies(B, S \ {x})
  <1>1. Copies(B, S) = own \cup other
    BY DEF Copies
  <1>2. own \cap other = {}
    BY DEF Copies
  <1>3. IsFiniteSet(own) /\ Cardinality(own) = B[x]
    BY CopiesOfOne
  <1> HIDE DEF own, other
  <1>4. Cardinality(other) \in Nat
    BY FS_CardinalityType DEF other
  <1>5. IsFiniteSet(other)
    BY DEF other
  <1>6. /\ IsFiniteSet(own \cup other)
        /\ Cardinality(own \cup other) = Cardinality(own) + Cardinality(other) - Cardinality({})
    BY <1>2, <1>3, <1>5, FS_Union
  <1>7. Cardinality(own \cup other) = B[x] + Cardinality(other)
    BY <1>3, <1>4, <1>6, FS_EmptySet
  <1> QED  BY <1>1, <1>6, <1>7 DEF other

LEMMA FiniteSetInduction ==
    ASSUME NEW S, IsFiniteSet(S), NEW P, {} \in P,
           \A T \in SUBSET S : T # {} => \E x \in T : T \ {x} \in P => T \in P
    PROVE  SUBSET S \subseteq P
  <1> DEFINE Q == {T \in SUBSET S : T \notin P}
             R == StrictSubsetOrdering(S)
  <1> SUFFICES ASSUME Q # {}  PROVE FALSE
    OBVIOUS
  <1>1. IsWellFoundedOn(R, FiniteSubsetsOf(S))
    BY FS_StrictSubsetOrderingWellFounded
  <1>2. Q \subseteq FiniteSubsetsOf(S)
    BY FS_FiniteSubsetsOfFinite
  <1>3. PICK m \in Q : \A y \in Q : ~(<<y, m>> \in R)
    <2> HIDE DEF Q, R
    <2> QED  BY <1>1, <1>2, WFMin
  <1>4. PICK x \in m : m \ {x} \notin P
    OBVIOUS
  <1>5. m \ {x} \in Q /\ <<m \ {x}, m>> \in R
    BY <1>4 DEF StrictSubsetOrdering
  <1> QED  BY <1>3, <1>5

LEMMA CopiesAreFinite ==
    ASSUME NEW B, FiniteBag(B), NEW S \in SUBSET DOMAIN B
    PROVE  IsFiniteSet(Copies(B, S))
  <1> DEFINE D == DOMAIN B
             P == {T \in SUBSET D : IsFiniteSet(Copies(B, T))}
  <1>1. {} \in P
    BY FS_EmptySet DEF Copies
  <1>2. ASSUME NEW T \in SUBSET D, NEW x \in T, T \ {x} \in P
        PROVE  T \in P
    <2>1. B[x] \in Nat
      BY DEF FiniteBag
    <2> QED  BY <1>2, <2>1, CopiesOfOneMore
  <1>3. IsFiniteSet(D)
    BY DEF FiniteBag
  <1>5. \A T \in SUBSET D : T # {} => \E x \in T : T \ {x} \in P => T \in P
    <2> HIDE DEF P
    <2> QED  BY <1>2
  <1> HIDE DEF D, P
  <1>4. SUBSET D \subseteq P
    BY <1>1, <1>3, <1>5, FiniteSetInduction
  <1> QED  BY <1>4 DEF D, P

LEMMA NumberCountsCopies ==
    ASSUME NEW B, FiniteBag(B)
    PROVE  Number(B) = Cardinality(Copies(B, DOMAIN B))
  <1> DEFINE D == DOMAIN B
             pick(T) == CHOOSE x \in T : TRUE
             Step(g) == [T \in SUBSET D |-> IF T = {} THEN 0
                                            ELSE B[pick(T)] + g[T \ {pick(T)}]]
             iter == CHOOSE g : g = Step(g)
             count == [T \in SUBSET D |-> Cardinality(Copies(B, T))]
  <1>1. Number(B) = iter[D]
    BY DEF Number, SumFunction, SumFunctionOnSet, FoldFunctionOnSet, MapThenFoldSet
  <1>2. \A T \in SUBSET D : T # {} =>
            /\ pick(T) \in T
            /\ count[T] = B[pick(T)] + count[T \ {pick(T)}]
    <2> SUFFICES ASSUME NEW T \in SUBSET D, T # {}
                 PROVE  /\ pick(T) \in T
                        /\ count[T] = B[pick(T)] + count[T \ {pick(T)}]
      OBVIOUS
    <2>1. pick(T) \in T
      OBVIOUS
    <2> HIDE DEF pick
    <2>2. B[pick(T)] \in Nat
      BY <2>1 DEF FiniteBag
    <2>3. IsFiniteSet(Copies(B, T \ {pick(T)}))
      BY CopiesAreFinite
    <2> QED  BY <2>1, <2>2, <2>3, CopiesOfOneMore
  <1>3. count = Step(count)
    <2>1. Copies(B, {}) = {}
      BY DEF Copies
    <2>2. count[{}] = 0
      BY <2>1, FS_EmptySet
    <2>3. \A T \in SUBSET D : T # {} => count[T] = B[pick(T)] + count[T \ {pick(T)}]
      BY <1>2
    <2> HIDE DEF pick
    <2>4. \A T \in SUBSET D : count[T] = IF T = {} THEN 0 ELSE B[pick(T)] + count[T \ {pick(T)}]
      BY <2>2, <2>3
    <2> QED  BY <2>4
  <1>4. iter = Step(iter)
    BY <1>3
  <1> DEFINE P == {T \in SUBSET D : iter[T] = count[T]}
  <1> HIDE DEF iter
  <1>5. {} \in P
    BY <1>3, <1>4
  <1>6. ASSUME NEW T \in SUBSET D, T # {}
        PROVE  \E x \in T : T \ {x} \in P => T \in P
    <2>1. pick(T) \in T /\ count[T] = B[pick(T)] + count[T \ {pick(T)}]
      BY <1>2, <1>6
    <2> HIDE DEF pick
    <2>2. iter[T] = B[pick(T)] + iter[T \ {pick(T)}]
      BY <1>4, <1>6
    <2>3. T \ {pick(T)} \in P => T \in P
      BY <2>1, <2>2
    <2> QED  BY <2>1, <2>3
  <1> HIDE DEF P
  <1>7. SUBSET D \subseteq P
    BY <1>5, <1>6, FiniteSetInduction DEF FiniteBag
  <1> QED  BY <1>1, <1>7 DEF P

LEMMA NumberIsNat ==
    ASSUME NEW B, FiniteBag(B)
    PROVE  Number(B) \in Nat
  <1>1. DOMAIN B \in SUBSET DOMAIN B
    OBVIOUS
  <1> QED  BY <1>1, CopiesAreFinite, NumberCountsCopies, FS_CardinalityType

LEMMA NothingIsZero ==
    ASSUME NEW B, FiniteBag(B), DOMAIN B = {}
    PROVE  Number(B) = 0
  <1>1. Copies(B, DOMAIN B) = {}
    BY DEF Copies
  <1> QED  BY <1>1, NumberCountsCopies, FS_EmptySet

LEMMA OneCopyMore ==
    ASSUME NEW B, FiniteBag(B), NEW e
    PROVE  FiniteBag(With(B, e)) /\ Number(With(B, e)) = Number(B) + 1
  <1> DEFINE C == With(B, e)
             n == C[e]
             old == Copies(B, DOMAIN B)
             new == Copies(C, DOMAIN C)
  <1>1. DOMAIN C = DOMAIN B \cup {e}
    BY DEF With
  <1>2. /\ \A d \in DOMAIN B : B[d] \in Nat \ {0}
        /\ \A d \in DOMAIN B \ {e} : C[d] = B[d]
        /\ e \in DOMAIN B => n = B[e] + 1
        /\ e \notin DOMAIN B => n = 1
    BY DEF With, FiniteBag
  <1>3. C = [d \in DOMAIN C |-> C[d]]
    BY DEF With
  <1> HIDE DEF C
  <1>4. \A d \in DOMAIN C : C[d] \in Nat \ {0}
    BY <1>1, <1>2
  <1>5. FiniteBag(C)
    <2>1. IsFiniteSet(DOMAIN C)
      BY <1>1, FS_AddElement DEF FiniteBag
    <2> QED  BY <1>3, <1>4, <2>1 DEF FiniteBag
  <1>6. new = old \cup {<<e, n>>}
    <2>1. \A d \in DOMAIN C, i \in Nat \ {0} : i <= C[d] <=>
              \/ d \in DOMAIN B /\ i <= B[d]
              \/ d = e /\ i = n
      BY <1>1, <1>2
    <2> QED  BY <1>1, <1>2, <1>4, <2>1 DEF Copies
  <1>7. <<e, n>> \notin old
    BY <1>2 DEF Copies
  <1>8. IsFiniteSet(old)
    BY CopiesAreFinite
  <1>9. Cardinality(new) = Cardinality(old) + 1
    BY <1>6, <1>7, <1>8, FS_AddElement
  <1> QED  BY <1>5, <1>9, NumberCountsCopies DEF C

\* What is cut out of a bag holds no more than the bag.
LEMMA PartIsNoMore ==
    ASSUME NEW B, FiniteBag(B), NEW D \in SUBSET DOMAIN B
    PROVE  LET G == [e \in D |-> B[e]]
           IN  FiniteBag(G) /\ Number(G) <= Number(B)
  <1> DEFINE G == [e \in D |-> B[e]]
  <1>1. FiniteBag(G)
    <2>1. IsFiniteSet(D)
      BY FS_Subset DEF FiniteBag
    <2> QED  BY <2>1 DEF FiniteBag
  <1>2. Copies(G, DOMAIN G) \in SUBSET Copies(B, DOMAIN B)
    BY DEF Copies
  <1>3. IsFiniteSet(Copies(B, DOMAIN B))
    BY CopiesAreFinite
  <1>4. Cardinality(Copies(G, DOMAIN G)) <= Cardinality(Copies(B, DOMAIN B))
    BY <1>2, <1>3, FS_Subset
  <1> QED  BY <1>1, <1>4, NumberCountsCopies

\* The events of a bag are in no more sessions than there are copies, and in one at
\* least if there are events.
LEMMA SessionsOfABag ==
    ASSUME NEW G, FiniteBag(G), DOMAIN G # {}
    PROVE  LET S == {e.session : e \in DOMAIN G}
           IN  /\ Cardinality(S) \in Nat \ {0}
               /\ Cardinality(S) <= Number(G)
  <1> DEFINE S == {e.session : e \in DOMAIN G}
             K == Copies(G, DOMAIN G)
             f == [c \in K |-> c[1].session]
  <1>1. IsFiniteSet(K)
    BY CopiesAreFinite
  <1>2. \A c \in K : c[1] \in DOMAIN G
    BY DEF Copies
  <1>3. \A e \in DOMAIN G : <<e, 1>> \in K
    BY DEF Copies, FiniteBag
  <1> HIDE DEF K
  <1>4. f \in [K -> S]
    BY <1>2
  <1>5. \A t \in S : \E c \in K : f[c] = t
    <2> SUFFICES ASSUME NEW e \in DOMAIN G
                 PROVE  \E c \in K : f[c] = e.session
      OBVIOUS
    <2>1. <<e, 1>> \in K /\ f[<<e, 1>>] = e.session
      BY <1>3
    <2> QED  BY <2>1
  <1> HIDE DEF S, f
  <1>6. f \in Surjection(K, S)
    BY <1>4, <1>5 DEF Surjection
  <1>7. IsFiniteSet(S) /\ Cardinality(S) <= Cardinality(K)
    BY <1>1, <1>6, FS_Surjection
  <1>8. S # {}
    BY DEF S
  <1>9. Cardinality(S) \in Nat \ {0}
    BY <1>7, <1>8, FS_CardinalityType, FS_EmptySet
  <1> QED  BY <1>7, <1>9, NumberCountsCopies DEF S, K

------------------------------------------------------------------------------

USE WindowsAssumption

\* The inductive invariant: the topic is a finite bag of events within its bound.
Topic ==
    /\ FiniteBag(events) /\ DOMAIN events \subseteq Event
    /\ Number(events) <= MaxEvents

LEMMA TopicInvariant == Spec => []Topic
  <1>1. Init => Topic
    <2> SUFFICES ASSUME Init  PROVE Topic
      OBVIOUS
    <2>1. DOMAIN events = {} /\ FiniteBag(events)
      BY FS_EmptySet DEF Init, FiniteBag
    <2> QED  BY <2>1, NothingIsZero DEF Topic
  <1>2. Topic /\ [Next]_events => Topic'
    <2> SUFFICES ASSUME Topic, [Next]_events
                 PROVE  Topic'
      OBVIOUS
    <2>1. Number(events) \in Nat /\ MaxEvents \in Nat
      BY NumberIsNat DEF Topic
    <2>2. ASSUME NEW e \in Event, Number(events) < MaxEvents, events' = With(events, e)
          PROVE  Topic'
      <3>1. FiniteBag(events') /\ Number(events') = Number(events) + 1
        BY <2>2, OneCopyMore DEF Topic
      <3>2. DOMAIN events' = DOMAIN events \cup {e}
        BY <2>2 DEF With
      <3> QED  BY <2>1, <2>2, <3>1, <3>2 DEF Topic
    <2>3. CASE Arrive
      BY <2>2, <2>3 DEF Arrive
    <2>4. CASE Redeliver
      BY <2>2, <2>4 DEF Redeliver, Topic
    <2>5. CASE Retire
      <3>1. PICK t \in 1..(Last + 1) :
               events' = [e \in {d \in DOMAIN events : d.time >= t} |-> events[e]]
        BY <2>5 DEF Retire
      <3> DEFINE D == {d \in DOMAIN events : d.time >= t}
      <3>2. DOMAIN events' \subseteq DOMAIN events
        BY <3>1
      <3>3. D \in SUBSET DOMAIN events /\ events' = [e \in D |-> events[e]]
        BY <3>1
      <3> HIDE DEF D
      <3>4. FiniteBag(events') /\ Number(events') <= Number(events)
        BY <3>3, PartIsNoMore DEF Topic
      <3>5. Number(events') \in Nat
        BY <3>4, NumberIsNat
      <3> QED  BY <2>1, <3>2, <3>4, <3>5 DEF Topic
    <2>6. CASE UNCHANGED events
      BY <2>6 DEF Topic
    <2> QED  BY <2>3, <2>4, <2>5, <2>6 DEF Next
  <1> QED  BY <1>1, <1>2, PTL DEF Spec

\* The topic never holds more than its bound and holds each event at least once; a window
\* of sessions has as many events as sessions or more (feature_definitions.py:40-58), and
\* a cart ratio is between zero and one (feature_definitions.py:61-88).
THEOREM CountsMakeSense == Spec => []TypeOK
  <1>1. Topic => TypeOK
    <2> SUFFICES ASSUME Topic  PROVE TypeOK
      OBVIOUS
    <2>1. \A u, agg, s : FiniteBag(Group(events, agg, u, s))
      <3> SUFFICES ASSUME NEW u, NEW agg, NEW s
                   PROVE  FiniteBag(Group(events, agg, u, s))
        OBVIOUS
      <3>1. {d \in DOMAIN events : In(agg, d, u, s)} \in SUBSET DOMAIN events
        OBVIOUS
      <3> QED  BY <3>1, PartIsNoMore DEF Group, Topic
    <2>2. ASSUME NEW u \in Users, NEW s \in Windows(events, "session", u)
          PROVE  LET v == Value(Group(events, "session", u, s), "session")
                 IN  v[1] >= v[2] /\ v[2] > 0
      <3> DEFINE G == Group(events, "session", u, s)
                 n == Cardinality({e.session : e \in DOMAIN G})
      <3>1. DOMAIN G # {}
        BY <2>2 DEF Windows, Group, In
      <3>2. FiniteBag(G)
        BY <2>1
      <3>3. Value(G, "session") = <<Number(G), n>>
        BY DEF Value
      <3> HIDE DEF G
      <3>4. n \in Nat \ {0} /\ n <= Number(G) /\ Number(G) \in Nat
        BY <3>1, <3>2, SessionsOfABag, NumberIsNat
      <3> HIDE DEF n
      <3> QED  BY <3>3, <3>4 DEF G
    <2>3. ASSUME NEW u \in Users, NEW s \in Windows(events, "cart", u)
          PROVE  LET v == Value(Group(events, "cart", u, s), "cart")
                 IN  0 <= v[1] /\ v[1] <= v[2]
      <3> DEFINE G == Group(events, "cart", u, s)
                 n(kind) == Number(OfKind(G, kind))
      <3>1. \A kind : n(kind) \in Nat
        <4> SUFFICES ASSUME NEW kind  PROVE n(kind) \in Nat
          OBVIOUS
        <4>1. FiniteBag(G)
          BY <2>1
        <4> HIDE DEF G
        <4>2. {d \in DOMAIN G : d.kind = kind} \in SUBSET DOMAIN G
          OBVIOUS
        <4>3. FiniteBag(OfKind(G, kind))
          BY <4>1, <4>2, PartIsNoMore DEF OfKind
        <4> QED  BY <4>3, NumberIsNat
      <3>2. Value(G, "cart") = Clamped(n("add_to_cart"), n("purchase"))
        BY DEF Value
      <3> HIDE DEF n, G
      <3> QED  BY <3>1, <3>2 DEF Clamped, G
    <2>4. /\ events \in [DOMAIN events -> Nat \ {0}] /\ DOMAIN events \subseteq Event
          /\ Number(events) <= MaxEvents
      BY DEF Topic, FiniteBag
    <2> QED  BY <2>2, <2>3, <2>4 DEF TypeOK
  <1> QED  BY <1>1, TopicInvariant, PTL

------------------------------------------------------------------------------

OnlyEvents == DOMAIN events \subseteq Event

\* The topic holds nothing but events: the retries of the producer
\* (kafka_producer.py:27) and the topic's retention make no others.
THEOREM TopicHoldsEvents == Spec => []OnlyEvents
  <1>1. Topic => OnlyEvents
    BY DEF Topic, OnlyEvents
  <1> QED  BY <1>1, TopicInvariant, PTL

------------------------------------------------------------------------------

LEMMA Lengths ==
    \A agg \in Aggregates : Length[agg] \in Nat \ {0} /\ Slide[agg] \in Nat \ {0}
  BY DEF Aggregates, Joined, Length, Slide

LEMMA TimesAreInts == \A e \in Event : e.time \in Int
  BY DEF Event, Instants

\* Windows inside the range take in only instants inside the range.
LEMMA WithinIsKept ==
    ASSUME NEW agg \in Aggregates, NEW t \in Int, NEW s \in Starts(agg, t), Within(agg, s)
    PROVE  Kept(t)
  BY Lengths DEF Starts, Within, Kept

\* So a group inside the range is the same with and without the filter.
LEMMA SameGroup ==
    ASSUME NEW B, DOMAIN B \subseteq Event,
           NEW u \in Users, NEW agg \in Aggregates, NEW s, Within(agg, s)
    PROVE  /\ Group(Backfilled(B), agg, u, s) = Group(B, agg, u, s)
           /\ s \in Windows(B, agg, u) <=> s \in Windows(Backfilled(B), agg, u)
  <1>1. \A e \in DOMAIN B : In(agg, e, u, s) => e \in DOMAIN Backfilled(B)
    <2> SUFFICES ASSUME NEW e \in DOMAIN B, In(agg, e, u, s)
                 PROVE  Kept(e.time)
      BY DEF Backfilled
    <2> QED  BY WithinIsKept, TimesAreInts DEF In
  <1>2. DOMAIN Backfilled(B) \subseteq DOMAIN B
    BY DEF Backfilled
  <1>3. \A e \in DOMAIN Backfilled(B) : Backfilled(B)[e] = B[e]
    BY DEF Backfilled
  <1>4. {e \in DOMAIN Backfilled(B) : In(agg, e, u, s)} = {e \in DOMAIN B : In(agg, e, u, s)}
    BY <1>1, <1>2
  <1>5. Group(Backfilled(B), agg, u, s) = Group(B, agg, u, s)
    BY <1>3, <1>4 DEF Group
  <1>6. \A C : s \in Windows(C, agg, u) <=> \E e \in DOMAIN C : In(agg, e, u, s)
    BY DEF Windows, In
  <1> QED  BY <1>4, <1>5, <1>6

\* Every window of an aggregate that lies in the range of the backfill
\* (backfill.py:66-69) exists over the range if and only if it exists over all events,
\* and has the same value.
THEOREM OfflineIsOnline == Spec => []OfflineEqualsOnline
  <1>1. OnlyEvents => OfflineEqualsOnline
    <2> SUFFICES ASSUME OnlyEvents, NEW u \in Users, NEW agg \in Aggregates,
                        NEW s \in Windows(events, agg, u) \cup Windows(Backfilled(events), agg, u),
                        Within(agg, s)
                 PROVE  /\ s \in Windows(events, agg, u) \cap Windows(Backfilled(events), agg, u)
                        /\ Group(Backfilled(events), agg, u, s) = Group(events, agg, u, s)
      BY DEF OfflineEqualsOnline
    <2> QED  BY SameGroup DEF OnlyEvents
  <1> QED  BY <1>1, TopicHoldsEvents, PTL

------------------------------------------------------------------------------

\* A base window lies in one cart window: both are laid out from 0, and a cart window
\* is a whole number of base windows long.
LEMMA Aligned ==
    ASSUME NEW w \in Int, w % Short = 0
    PROVE  (w % Half) \in Nat /\ (w % Half) + Short <= Half
  <1> DEFINE j == w \div Short
             p == Half \div Short
             q == w \div Half
  <1>1. j \in Int /\ p \in Int /\ q \in Int
    OBVIOUS
  <1>2. w = Short * j
    OBVIOUS
  <1>3. Half = Short * p
    OBVIOUS
  <1>4. w % Half = w - (Half * q) /\ w % Half \in 0..(Half - 1)
    OBVIOUS
  <1>5. Half * q = Short * (p * q)
    BY <1>1, <1>3
  <1> HIDE DEF j, p, q
  <1>6. w % Half = Short * (j - p * q)
    BY <1>1, <1>2, <1>4, <1>5
  <1>7. Short * (j - p * q) < Short * p
    BY <1>3, <1>4, <1>6
  <1>8. j - p * q + 1 <= p
    BY <1>1, <1>7
  <1>9. Short * (j - p * q + 1) <= Short * p
    BY <1>1, <1>8
  <1> QED  BY <1>1, <1>3, <1>4, <1>6, <1>9

LEMMA CartWindow ==
    ASSUME NEW t \in Int, NEW w \in Starts("txn", t)
    PROVE  /\ w - (w % Half) \in Starts("cart", t)
           /\ Holds("cart", w - (w % Half), w)
  <1>1. w \in Int /\ w <= t /\ t < w + Short /\ w % Short = 0
    BY DEF Starts, Length, Slide
  <1>2. (w % Half) \in Nat /\ (w % Half) + Short <= Half
    BY <1>1, Aligned
  <1>3. (w - (w % Half)) % Half = 0
    BY <1>1
  <1> QED  BY <1>1, <1>2, <1>3 DEF Starts, Holds, Length, Slide

\* The sliding windows that begin with a base window, and the tumbling ones as long.
LEMMA OwnWindow ==
    ASSUME NEW t \in Int, NEW w \in Starts("txn", t),
           NEW agg \in {"spend", "session", "current", "day"}
    PROVE  w \in Starts(agg, t) /\ Holds(agg, w, w)
  BY DEF Starts, Holds, Length, Slide

\* Purchases count in all aggregates but the page views.
LEMMA PurchasesCount ==
    ASSUME NEW agg \in Joined \ {"views"}
    PROVE  Counted["txn"] \subseteq Counted[agg]
  BY DEF Joined, Counted, Kinds

\* For every base window there is, among the rows joined from it, the one whose windows
\* all hold it and count all its purchases (feature_definitions.py:117-136): the row that
\* the docstring means exists, whatever others do.
THEOREM RowMeantExists == Spec => []OwnWindowsAreJoined
  <1>1. OnlyEvents => OwnWindowsAreJoined
    <2> SUFFICES ASSUME OnlyEvents, NEW u \in Users, NEW w \in Windows(events, "txn", u)
                 PROVE  \E r \in RowsOf(events, u) :
                           /\ r.txn = w
                           /\ \A agg \in Joined \ {"views"} :
                                 /\ r[agg] # None /\ Holds(agg, r[agg], w)
                                 /\ \A e \in DOMAIN Group(events, "txn", u, w) :
                                       e \in DOMAIN Group(events, agg, u, r[agg])
      BY DEF OwnWindowsAreJoined
    <2> DEFINE G == {e \in DOMAIN events : In("txn", e, u, w)}
               Own(agg) == IF agg = "cart" THEN w - (w % Half) ELSE w
    <2>1. \A e \in G : e.time \in Int /\ e.user = u
      BY TimesAreInts DEF OnlyEvents, In
    <2>2. \E e \in G : TRUE
      BY DEF Windows, In
    <2>3. \A e \in G, agg \in Joined \ {"views"} :
             In(agg, e, u, Own(agg)) /\ Holds(agg, Own(agg), w)
      <3> SUFFICES ASSUME NEW e \in G, NEW agg \in Joined \ {"views"}
                   PROVE  In(agg, e, u, Own(agg)) /\ Holds(agg, Own(agg), w)
        OBVIOUS
      <3>1. e.time \in Int /\ w \in Starts("txn", e.time) /\ e.user = u
        BY <2>1 DEF In
      <3>2. e.kind \in Counted[agg]
        BY PurchasesCount DEF In
      <3>3. Own(agg) \in Starts(agg, e.time) /\ Holds(agg, Own(agg), w)
        <4>1. CASE agg = "cart"
          BY <3>1, <4>1, CartWindow
        <4>2. CASE agg # "cart"
          BY <3>1, <4>2, OwnWindow DEF Joined
        <4> QED  BY <4>1, <4>2
      <3> QED  BY <3>1, <3>2, <3>3 DEF In
    <2>4. \A agg \in Joined \ {"views"} : Own(agg) \in Windows(events, agg, u)
      BY <2>2, <2>3 DEF Windows, In
    <2>5. \A agg \in Joined \ {"views"} : Own(agg) \in Matches(events, agg, u)
      BY <2>4 DEF Matches
    <2>6. PICK v : v \in Matches(events, "views", u)
      BY DEF Matches
    <2>7. w \in Int /\ \A agg \in Joined \ {"views"} : Own(agg) \in Int
      <3>1. w \in Int
        BY <2>1, <2>2 DEF In, Starts, Length, Slide
      <3> QED  BY <3>1
    <2> DEFINE r == [txn |-> w, spend |-> Own("spend"), session |-> Own("session"),
                     cart |-> Own("cart"), views |-> v,
                     current |-> Own("current"), day |-> Own("day")]
    <2> HIDE DEF Own
    <2>8. r \in RowsOf(events, u)
      BY <2>5, <2>6 DEF RowsOf, Joined
    <2>9. r.txn = w /\ \A agg \in Joined \ {"views"} : r[agg] = Own(agg)
      BY DEF Joined
    <2> HIDE DEF r
    <2>10. \A agg \in Joined \ {"views"} : Own(agg) # None /\ Holds(agg, Own(agg), w)
      BY <2>2, <2>3, <2>7
    <2>11. DOMAIN Group(events, "txn", u, w) = G
      BY DEF Group
    <2>12. \A agg \in Joined \ {"views"}, e \in G : e \in DOMAIN Group(events, agg, u, Own(agg))
      BY <2>3 DEF Group
    <2> HIDE DEF G
    <2> QED  BY <2>8, <2>9, <2>10, <2>11, <2>12
  <1> QED  BY <1>1, TopicHoldsEvents, PTL

=============================================================================
