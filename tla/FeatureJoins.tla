---------------------------- MODULE FeatureJoins ----------------------------
(***************************************************************************)
(* streaming/feature_definitions.py and anomaly_scorer.py: windowed            *)
(* aggregates of a user's events, joined into rows, over the events of the     *)
(* topic or, in offline_store/backfill.py, over those of a range of time.      *)
(*                                                                          *)
(* A window of an aggregate is its first instant.  Every join is on user_id    *)
(* alone, so a row is the combination of windows it was joined from, one of     *)
(* each aggregate, and what the row says follows from these.  Two joined        *)
(* windows make the anomaly score, "current" and "day".                        *)
(*                                                                          *)
(* Kafka is external: the producer retries with acks = 1 and without            *)
(* idempotence, so the topic may hold an event twice.                          *)
(***************************************************************************)
EXTENDS Integers, FiniteSets, FiniteSetsExt

CONSTANTS
    Users,
    Sessions,       \* of each user
    Amounts,        \* of purchases, in cents
    Last,           \* the last instant; instants are 0..Last
    Short,          \* 5 minutes, also the slide of the sliding windows
    Half,           \* 30 minutes
    Hour,
    Day,
    From, To,       \* the range of the backfill, both included
    None,           \* what a left join without a match leaves
    MaxEvents       \* bound: how much the topic may hold

Instants == 0..Last

ASSUME WindowsAssumption ==
    /\ Last \in Nat /\ From \in Int /\ To \in Int /\ MaxEvents \in Nat
    /\ Short \in Nat \ {0} /\ Half \in Nat \ {0} /\ Hour \in Nat \ {0} /\ Day \in Nat \ {0}
    /\ Half % Short = 0 /\ Short <= Hour /\ Short <= Day
    /\ Amounts \subseteq Nat \ {0}
    /\ None \notin Int

VARIABLE events         \* what the topic holds, a bag

-----------------------------------------------------------------------------

\* search and abandon count for sessions only.
Kinds == {"purchase", "add_to_cart", "page_view", "search", "abandon"}
Event ==
    [user : Users, session : Sessions, kind : {"purchase"}, time : Instants, amount : Amounts]
    \cup
    [user : Users, session : Sessions, kind : Kinds \ {"purchase"}, time : Instants, amount : {0}]

Init == events = [e \in {} |-> 1]

\* Copies count.
Number(B) == SumFunction(B)

\* One copy more.
With(B, e) ==
    [d \in DOMAIN B \cup {e} |-> IF d \in DOMAIN B THEN B[d] + IF d = e THEN 1 ELSE 0 ELSE 1]

\* event_stream: an event of any kind; a user's session goes on or is a new one.
Arrive ==
    /\ Number(events) < MaxEvents
    /\ \E e \in Event : events' = With(events, e)

\* A retry of librdkafka whose first attempt was written.
Redeliver ==
    /\ Number(events) < MaxEvents
    /\ \E e \in DOMAIN events : events' = With(events, e)

\* The topic's retention: the oldest events go.
Retire ==
    \E t \in 1..(Last + 1) :
        /\ \E e \in DOMAIN events : e.time < t
        /\ events' = [e \in {d \in DOMAIN events : d.time >= t} |-> events[e]]

Next == Arrive \/ Redeliver \/ Retire
Spec == Init /\ [][Next]_events

-----------------------------------------------------------------------------
(* Windows *)

Joined == {"spend", "session", "cart", "views", "current", "day"}
Aggregates == {"txn"} \cup Joined

Length == [txn |-> Short, spend |-> Hour, session |-> Short, cart |-> Half, views |-> Hour,
           current |-> Short, day |-> Day]
Slide == [txn |-> Short, spend |-> Short, session |-> Short, cart |-> Half, views |-> Hour,
          current |-> Short, day |-> Short]
\* Which events count, and a variant whose cart filter forgets the purchases.
CartsOnly == [txn |-> {"purchase"}, spend |-> {"purchase"}, session |-> Kinds,
              cart |-> {"add_to_cart"}, views |-> {"page_view"},
              current |-> {"purchase"}, day |-> {"purchase"}]
Counted == [txn |-> {"purchase"}, spend |-> {"purchase"}, session |-> Kinds,
            cart |-> {"add_to_cart", "purchase"}, views |-> {"page_view"},
            current |-> {"purchase"}, day |-> {"purchase"}]

\* F.window: an instant is in the windows that began less than their length ago.
Starts(agg, t) == {s \in (t - Length[agg] + 1)..t : s % Slide[agg] = 0}

\* groupBy(user_id, window): the groups that exist, and the events of one.
In(agg, e, u, s) == e.user = u /\ e.kind \in Counted[agg] /\ s \in Starts(agg, e.time)
Windows(B, agg, u) ==
    UNION {Starts(agg, e.time) : e \in {d \in DOMAIN B : d.user = u /\ d.kind \in Counted[agg]}}
Group(B, agg, u, s) == [e \in {d \in DOMAIN B : In(agg, d, u, s)} |-> B[e]]

-----------------------------------------------------------------------------
(* Aggregates *)

OfKind(G, kind) == [e \in {d \in DOMAIN G : d.kind = kind} |-> G[e]]
Total(G) == MapThenSumSet(LAMBDA e : G[e] * e.amount, DOMAIN G)

\* A fraction is a pair.  F.greatest keeps the cart ratio from being negative; a
\* variant leaves it out.
Unclamped(carts, purchases) == IF carts > 0 THEN <<carts - purchases, carts>> ELSE <<0, 1>>
Clamped(carts, purchases) ==
    IF carts > purchases THEN <<carts - purchases, carts>> ELSE <<0, 1>>

\* What a group comes to; the score's mean and deviation are left as the group itself.
Value(G, agg) ==
    CASE agg \in {"txn", "views"} -> Number(G)
      [] agg = "spend" -> <<Total(G), Number(G)>>
      [] agg = "session" -> <<Number(G), Cardinality({e.session : e \in DOMAIN G})>>
      [] agg = "cart" -> Clamped(Number(OfKind(G, "add_to_cart")), Number(OfKind(G, "purchase")))
      [] OTHER -> G

-----------------------------------------------------------------------------
(* Rows *)

\* join(..., on="user_id", how="left").
Matches(B, agg, u) == IF Windows(B, agg, u) = {} THEN {None} ELSE Windows(B, agg, u)

\* compute_all_features with the anomaly score, for one user.
RowsOf(B, u) ==
    [txn : Windows(B, "txn", u),
     spend : Matches(B, "spend", u), session : Matches(B, "session", u),
     cart : Matches(B, "cart", u), views : Matches(B, "views", u),
     current : Matches(B, "current", u), day : Matches(B, "day", u)]

\* The filter of run_backfill; the variant leaves the first instant out.
KeptAfter(t) == From < t /\ t <= To
Kept(t) == From <= t /\ t <= To
Backfilled(B) == [e \in {d \in DOMAIN B : Kept(d.time)} |-> B[e]]

-----------------------------------------------------------------------------
(* What must hold *)

\* The topic holds events, and what their groups come to makes sense: no group is
\* without sessions, and the cart ratio is a fraction.
TypeOK ==
    /\ events \in [DOMAIN events -> Nat \ {0}] /\ DOMAIN events \subseteq Event
    /\ Number(events) <= MaxEvents
    /\ \A u \in Users, agg \in {"session", "cart"} : \A s \in Windows(events, agg, u) :
          LET v == Value(Group(events, agg, u, s), agg) IN
            IF agg = "session" THEN v[1] >= v[2] /\ v[2] > 0 ELSE 0 <= v[1] /\ v[1] <= v[2]

\* Window s of an aggregate holds the whole base window w.
Holds(agg, s, w) == s <= w /\ w + Short <= s + Length[agg]

\* compute_all_features drops every window but the base's before it joins
\* (feature_definitions.py:117-136).  Still, for every base window one of the rows is the
\* row meant: each window in it holds the base window, and all its purchases count in it.
OwnWindowsAreJoined ==
    \A u \in Users : \A w \in Windows(events, "txn", u) :
        \E r \in RowsOf(events, u) :
            /\ r.txn = w
            /\ \A agg \in Joined \ {"views"} :
                  /\ r[agg] # None /\ Holds(agg, r[agg], w)
                  /\ \A e \in DOMAIN Group(events, "txn", u, w) :
                        e \in DOMAIN Group(events, agg, u, r[agg])

\* "offline_value == online_value for the same input data" (docs/architecture.md:114):
\* the backfill cuts the events off at both ends of its range, and every window that lies
\* within the range comes out as it does over all events, and exists if it does there.
Within(agg, s) == From <= s /\ s + Length[agg] - 1 <= To
OfflineEqualsOnline ==
    \A u \in Users, agg \in Aggregates :
        \A s \in Windows(events, agg, u) \cup Windows(Backfilled(events), agg, u) :
            Within(agg, s) =>
                /\ s \in Windows(events, agg, u) \cap Windows(Backfilled(events), agg, u)
                /\ Value(Group(Backfilled(events), agg, u, s), agg)
                     = Value(Group(events, agg, u, s), agg)

=============================================================================
