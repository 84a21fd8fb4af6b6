--------------------------- MODULE ReplayCacheProofs ---------------------------
(***************************************************************************)
(* Proofs about ReplayCache, for any tokens and handlers, and for any size *)
(* and time to live that meet CacheAssumption.                             *)
(***************************************************************************)
EXTENDS ReplayCache, FiniteSetTheorems, SequenceTheorems, TLAPS

\* From a token's issue until no handler can have it any more.
Span == Lifetime + Gap

Issued(t) == issued[t] \in Nat

\* A handler has, or may yet have, the token in its hands.
Matters(t) == Issued(t) /\ now < issued[t] + Span

InCache(t) == \E i \in 1..Len(cache) : cache[i].jti = t

Recent == {u \in Tokens : issued[u] # Never /\ issued[u] + Window > now}

(* The inductive invariant, in parts. *)

\* No more tokens were issued within a window than a cache holds.
BurstInv ==
    /\ \A t \in Tokens : Issued(t) => issued[t] <= now
    /\ IsFiniteSet({u \in Tokens : issued[u] # Never})
    /\ Cardinality(Recent) <= Burst

\* What a handler has in its hands was alive a short time ago.
SlotInv ==
    \A s \in Slots : slot[s] # Free =>
        /\ slot[s].at <= now /\ now <= slot[s].at + Gap
        /\ Issued(slot[s].jti)
        /\ slot[s].at < issued[slot[s].jti] + Lifetime

\* Entries live at least as long as their tokens matter.
EntryInv ==
    \A i \in 1..Len(cache) :
        /\ Issued(cache[i].jti)
        /\ cache[i].expiresAt >= issued[cache[i].jti] + Span

\* A jti has one entry; and when an entry was last used, its token mattered, and
\* those of the entries behind it had been issued.
OrderInv ==
    \A i, j \in 1..Len(cache) : i < j =>
        /\ cache[i].jti # cache[j].jti
        /\ issued[cache[j].jti] < issued[cache[i].jti] + Span

\* What was admitted and still matters is in the cache.
SpentInv ==
    \A t \in Tokens :
        /\ admitted[t] <= 1
        /\ admitted[t] > 0 => Issued(t)
        /\ admitted[t] > 0 /\ Matters(t) => InCache(t)
        /\ InCache(t) => admitted[t] > 0

IInv == TypeOK /\ BurstInv /\ SlotInv /\ EntryInv /\ OrderInv /\ SpentInv

-----------------------------------------------------------------------------
(* Lists of entries. *)

\* A list without its i-th element.
LEMMA WithoutOne ==
    ASSUME NEW S, NEW list \in Seq(S), NEW i \in 1..Len(list)
    PROVE  LET rest == SubSeq(list, 1, i - 1) \o SubSeq(list, i + 1, Len(list))
           IN  /\ rest \in Seq(S)
               /\ Len(rest) = Len(list) - 1
               /\ \A k \in 1..(Len(list) - 1) :
                     rest[k] = IF k < i THEN list[k] ELSE list[k + 1]
<1> DEFINE a == SubSeq(list, 1, i - 1)
           b == SubSeq(list, i + 1, Len(list))
<1>1. a \in Seq(S) /\ Len(a) = i - 1 /\ \A k \in 1..Len(a) : a[k] = list[k]
  OBVIOUS
<1>2. /\ b \in Seq(S) /\ Len(b) = Len(list) - i
      /\ \A k \in 1..Len(b) : b[k] = list[i + k]
  OBVIOUS
<1> HIDE DEF a, b
<1>3. /\ a \o b \in Seq(S)
      /\ Len(a \o b) = Len(a) + Len(b)
      /\ \A k \in 1..(Len(a) + Len(b)) :
            (a \o b)[k] = IF k <= Len(a) THEN a[k] ELSE b[k - Len(a)]
  BY <1>1, <1>2, ConcatProperties
<1>4. Len(list) \in Nat /\ Len(a) + Len(b) = Len(list) - 1
  BY <1>1, <1>2
<1>5. ASSUME NEW k \in 1..(Len(list) - 1)
      PROVE  (a \o b)[k] = IF k < i THEN list[k] ELSE list[k + 1]
  <2>1. CASE k < i
    BY <1>1, <1>3, <1>4, <2>1
  <2>2. CASE ~(k < i)
    <3>1. k - Len(a) \in 1..Len(b) /\ i + (k - Len(a)) = k + 1
      BY <1>1, <1>2, <1>4, <2>2
    <3>2. (a \o b)[k] = b[k - Len(a)]
      BY <1>1, <1>3, <1>4, <2>2
    <3> QED
      BY <1>2, <2>2, <3>1, <3>2
  <2> QED
    BY <2>1, <2>2
<1> QED
  BY <1>3, <1>4, <1>5 DEF a, b

\* A list with an element put before it.
LEMMA WithOneMore ==
    ASSUME NEW S, NEW list \in Seq(S), NEW e \in S
    PROVE  LET more == <<e>> \o list
           IN  /\ more \in Seq(S)
               /\ Len(more) = Len(list) + 1
               /\ more[1] = e
               /\ \A k \in 2..Len(more) : more[k] = list[k - 1]
  OBVIOUS

\* KeepNewest cuts a list to size.
LEMMA KeepsNewest ==
    ASSUME NEW list \in Seq(Entry)
    PROVE  /\ KeepNewest(list) \in Seq(Entry)
           /\ Len(KeepNewest(list)) = IF Len(list) <= Capacity THEN Len(list) ELSE Capacity
           /\ \A k \in 1..Len(KeepNewest(list)) : KeepNewest(list)[k] = list[k]
  BY CacheAssumption DEF KeepNewest

-----------------------------------------------------------------------------
(* What the invariant says of a state. *)

\* Spans and windows, as numbers.
LEMMA Spans ==
    /\ Lifetime \in Nat /\ Gap \in Nat /\ Span \in Nat /\ Span > 0
    /\ Window = 2 * Span /\ TTL \in Nat /\ TTL >= Span
    /\ Capacity \in Nat /\ Capacity > 0 /\ Burst \in Nat /\ Capacity >= Burst
    /\ MaxTime \in Nat /\ Never \notin Nat
  BY CacheAssumption DEF Span, Window

\* A handler has only tokens in its hands that matter.
LEMMA InHand ==
    ASSUME IInv, NEW s \in Slots, slot[s] # Free
    PROVE  /\ slot[s] \in [jti : Tokens, at : Nat]
           /\ slot[s].jti \in Tokens
           /\ Matters(slot[s].jti)
<1>1. slot[s] \in [jti : Tokens, at : Nat] /\ now \in Nat
  BY DEF IInv, TypeOK
<1>2. /\ issued[slot[s].jti] \in Nat
      /\ now <= slot[s].at + Gap
      /\ slot[s].at < issued[slot[s].jti] + Lifetime
  BY DEF IInv, SlotInv, Issued
<1> QED
  BY <1>1, <1>2, Spans DEF Matters, Issued, Span

\* For a token that matters, to be in the cache is to be a hit.
LEMMA HitIfCached ==
    ASSUME IInv, NEW t \in Tokens, Matters(t)
    PROVE  Hit(t) <=> InCache(t)
<1>1. cache \in Seq(Entry) /\ now \in Nat
  BY DEF IInv, TypeOK
<1>2. ASSUME NEW i \in 1..Len(cache), cache[i].jti = t
      PROVE  Fresh(cache[i])
  <2>1. cache[i] \in Entry
    BY <1>1
  <2>2. cache[i].expiresAt \in Nat
    BY <2>1 DEF Entry
  <2>3. cache[i].expiresAt >= issued[t] + Span
    BY <1>2 DEF IInv, EntryInv
  <2> QED
    BY <1>1, <2>2, <2>3, Spans DEF Fresh, Matters, Issued
<1> QED
  BY <1>1, <1>2 DEF Hit, InCache

\* Place finds an entry of the token.
LEMMA PlaceOfCached ==
    ASSUME cache \in Seq(Entry), NEW t, InCache(t)
    PROVE  /\ Place(t) \in 1..Len(cache)
           /\ cache[Place(t)].jti = t
           /\ Others(t) = Without(Place(t))
  BY DEF Place, InCache, Others

\* A cache without its i-th entry.
LEMMA CacheWithout ==
    ASSUME cache \in Seq(Entry), NEW i \in 1..Len(cache)
    PROVE  /\ Without(i) \in Seq(Entry)
           /\ Len(Without(i)) = Len(cache) - 1
           /\ \A k \in 1..(Len(cache) - 1) :
                 Without(i)[k] = IF k < i THEN cache[k] ELSE cache[k + 1]
  BY WithoutOne DEF Without

-----------------------------------------------------------------------------
(* The initial states. *)

LEMMA InitIInv == Init => IInv
<1> SUFFICES ASSUME Init
             PROVE  IInv
  OBVIOUS
<1>1. TypeOK
  BY Spans DEF Init, TypeOK
<1>2. BurstInv
  <2>1. {u \in Tokens : issued[u] # Never} = {} /\ Recent = {}
    BY DEF Init, Recent
  <2>2. \A t \in Tokens : ~Issued(t)
    BY Spans DEF Init, Issued
  <2> QED
    BY <2>1, <2>2, FS_EmptySet, Spans DEF BurstInv
<1>3. SlotInv /\ EntryInv /\ OrderInv
  BY DEF Init, SlotInv, EntryInv, OrderInv
<1>4. SpentInv
  BY DEF Init, SpentInv, InCache
<1> QED
  BY <1>1, <1>2, <1>3, <1>4 DEF IInv

-----------------------------------------------------------------------------
(* Steps that leave the cache alone. *)

LEMMA TickKeeps == IInv /\ Tick => IInv'
<1> SUFFICES ASSUME IInv, Tick
             PROVE  IInv'
  OBVIOUS
<1> USE DEF Tick
<1>1. /\ now \in Nat /\ now' = now + 1
      /\ UNCHANGED <<issued, slot, cache, admitted>>
      /\ issued \in [Tokens -> Nat \cup {Never}]
  BY DEF IInv, TypeOK
<1>2. TypeOK'
  BY Spans DEF IInv, TypeOK
<1>3. BurstInv'
  <2>1. Recent' \subseteq Recent
    <3> SUFFICES ASSUME NEW u \in Tokens, issued[u] # Never, issued[u] + Window > now + 1
                 PROVE  issued[u] + Window > now
      BY <1>1 DEF Recent
    <3>1. issued[u] \in Nat
      BY <1>1
    <3> QED
      BY <1>1, <3>1, Spans
  <2>2. IsFiniteSet(Recent)
    BY FS_Subset DEF IInv, BurstInv, Recent
  <2>3. Cardinality(Recent') <= Cardinality(Recent)
        /\ Cardinality(Recent') \in Nat /\ Cardinality(Recent) \in Nat
    BY <2>1, <2>2, FS_Subset, FS_CardinalityType
  <2>4. Cardinality(Recent') <= Burst
    BY <2>3, Spans DEF IInv, BurstInv
  <2>5. \A t \in Tokens : Issued(t) => issued[t] <= now + 1
    BY <1>1 DEF IInv, BurstInv, Issued
  <2> QED
    BY <1>1, <2>4, <2>5 DEF IInv, BurstInv, Issued
<1>4. SlotInv'
  <2> SUFFICES ASSUME NEW s \in Slots, slot[s] # Free
               PROVE  slot[s].at <= now + 1 /\ now + 1 <= slot[s].at + Gap
    BY <1>1 DEF IInv, SlotInv, Issued
  <2>1. slot[s].at \in Nat /\ slot[s].at <= now /\ now < slot[s].at + Gap
    BY InHand DEF IInv, SlotInv
  <2> QED
    BY <1>1, <2>1, Spans
<1>5. EntryInv' /\ OrderInv'
  BY <1>1 DEF IInv, EntryInv, OrderInv, Issued
<1>6. SpentInv'
  <2>1. ASSUME NEW t \in Tokens, Matters(t)'
        PROVE  Matters(t)
    BY <1>1, <2>1, Spans DEF Matters, Issued
  <2> QED
    BY <1>1, <2>1 DEF IInv, SpentInv, Issued, InCache
<1> QED
  BY <1>2, <1>3, <1>4, <1>5, <1>6 DEF IInv

LEMMA IssueKeeps == ASSUME NEW t \in Tokens PROVE IInv /\ Issue(t) => IInv'
<1> SUFFICES ASSUME IInv, Issue(t)
             PROVE  IInv'
  OBVIOUS
<1> USE DEF Issue
<1>1. /\ now \in Nat
      /\ UNCHANGED <<now, slot, cache, admitted>>
      /\ issued \in [Tokens -> Nat \cup {Never}]
      /\ issued' \in [Tokens -> Nat \cup {Never}]
      /\ issued[t] = Never /\ issued'[t] = now
      /\ \A u \in Tokens : u # t => issued'[u] = issued[u]
  BY DEF IInv, TypeOK
<1>2. ~Issued(t) /\ \A u \in Tokens : Issued(u) => u # t /\ issued'[u] = issued[u]
  BY <1>1, Spans DEF Issued
<1>3. TypeOK'
  BY <1>1 DEF IInv, TypeOK
<1>4. BurstInv'
  <2>1. IsFiniteSet(Recent) /\ Cardinality(Recent) < Burst
    BY FS_Subset DEF IInv, BurstInv, Recent
  <2>2. Recent' \subseteq Recent \cup {t}
    BY <1>1 DEF Recent
  <2>3. /\ IsFiniteSet(Recent \cup {t})
        /\ Cardinality(Recent \cup {t}) <= Cardinality(Recent) + 1
        /\ Cardinality(Recent \cup {t}) \in Nat /\ Cardinality(Recent) \in Nat
    <3>1. IsFiniteSet(Recent \cup {t})
      BY <2>1, FS_AddElement
    <3>2. Cardinality(Recent) \in Nat /\ Cardinality(Recent \cup {t}) \in Nat
      BY <2>1, <3>1, FS_CardinalityType
    <3> QED
      BY <2>1, <3>1, <3>2, FS_AddElement
  <2>4. Cardinality(Recent') <= Cardinality(Recent \cup {t}) /\ Cardinality(Recent') \in Nat
    BY <2>2, <2>3, FS_Subset, FS_CardinalityType
  <2>5. IsFiniteSet({u \in Tokens : issued'[u] # Never})
    <3>1. {u \in Tokens : issued'[u] # Never}
             \subseteq {u \in Tokens : issued[u] # Never} \cup {t}
      BY <1>1
    <3>2. IsFiniteSet({u \in Tokens : issued[u] # Never} \cup {t})
      BY FS_AddElement DEF IInv, BurstInv
    <3> QED
      BY <3>1, <3>2, FS_Subset
  <2>6. Cardinality(Recent') <= Burst
    BY <2>1, <2>3, <2>4, Spans
  <2>7. \A u \in Tokens : issued'[u] \in Nat => issued'[u] <= now
    BY <1>1 DEF IInv, BurstInv, Issued
  <2> QED
    BY <1>1, <2>5, <2>6, <2>7 DEF BurstInv, Issued
<1>5. SlotInv'
  <2> SUFFICES ASSUME NEW s \in Slots, slot[s] # Free
               PROVE  /\ slot[s].at <= now /\ now <= slot[s].at + Gap
                      /\ issued'[slot[s].jti] \in Nat
                      /\ slot[s].at < issued'[slot[s].jti] + Lifetime
    BY <1>1 DEF SlotInv, Issued
  <2>1. slot[s].jti \in Tokens /\ Issued(slot[s].jti)
    BY InHand DEF Matters
  <2> QED
    BY <1>2, <2>1 DEF IInv, SlotInv, Issued
<1>6. \A i \in 1..Len(cache) :
         /\ cache[i].jti \in Tokens /\ Issued(cache[i].jti)
         /\ issued'[cache[i].jti] = issued[cache[i].jti]
  <2> TAKE i \in 1..Len(cache)
  <2>1. cache[i] \in Entry
    BY DEF IInv, TypeOK
  <2> QED
    BY <1>2, <2>1 DEF IInv, EntryInv, Entry
<1>7. EntryInv'
  BY <1>1, <1>6 DEF IInv, EntryInv, Issued
<1>8. OrderInv'
  BY <1>1, <1>6 DEF IInv, OrderInv
<1>9. SpentInv'
  <2> SUFFICES ASSUME NEW u \in Tokens
               PROVE  /\ admitted[u] <= 1
                      /\ admitted[u] > 0 => issued'[u] \in Nat
                      /\ admitted[u] > 0 /\ Matters(u)' => InCache(u)
                      /\ InCache(u) => admitted[u] > 0
    BY <1>1 DEF SpentInv, Issued, InCache
  <2>1. admitted[u] > 0 => Issued(u) /\ issued'[u] = issued[u]
    BY <1>2 DEF IInv, SpentInv
  <2> QED
    BY <1>1, <2>1 DEF IInv, SpentInv, Matters, Issued
<1> QED
  BY <1>3, <1>4, <1>5, <1>7, <1>8, <1>9 DEF IInv

LEMMA ValidateKeeps ==
    ASSUME NEW s \in Slots, NEW t \in Tokens
    PROVE  IInv /\ Validate(s, t) => IInv'
<1> SUFFICES ASSUME IInv, Validate(s, t)
             PROVE  IInv'
  OBVIOUS
<1> USE DEF Validate
<1>1. /\ now \in Nat
      /\ UNCHANGED <<now, issued, cache, admitted>>
      /\ issued \in [Tokens -> Nat \cup {Never}]
      /\ slot \in [Slots -> [jti : Tokens, at : Nat] \cup {Free}]
      /\ slot'[s] = [jti |-> t, at |-> now]
      /\ \A q \in Slots : q # s => slot'[q] = slot[q]
  BY DEF IInv, TypeOK
<1>2. TypeOK'
  BY <1>1 DEF IInv, TypeOK
<1>3. BurstInv' /\ EntryInv' /\ OrderInv' /\ SpentInv'
  BY <1>1
     DEF IInv, BurstInv, Recent, EntryInv, OrderInv, SpentInv, Issued, Matters, InCache
<1>4. SlotInv'
  <2> SUFFICES ASSUME NEW q \in Slots, slot'[q] # Free
               PROVE  /\ slot'[q].at <= now /\ now <= slot'[q].at + Gap
                      /\ issued[slot'[q].jti] \in Nat
                      /\ slot'[q].at < issued[slot'[q].jti] + Lifetime
    BY <1>1 DEF SlotInv, Issued
  <2>1. CASE q = s
    <3>1. issued[t] \in Nat /\ now < issued[t] + Lifetime
      BY <1>1 DEF Alive
    <3> QED
      BY <1>1, <2>1, <3>1, Spans
  <2>2. CASE q # s
    BY <1>1, <2>2 DEF IInv, SlotInv, Issued
  <2> QED
    BY <2>1, <2>2
<1> QED
  BY <1>2, <1>3, <1>4 DEF IInv

-----------------------------------------------------------------------------
(* Steps that change the cache. *)

\* Sweep takes an expired entry out, and its token matters no more.
LEMMA SweepKeeps == IInv /\ Sweep => IInv'
<1> SUFFICES ASSUME IInv,
                    NEW q \in DOMAIN cache,
                    ~Fresh(cache[q]),
                    cache' = Others(cache[q].jti),
                    UNCHANGED <<now, issued, slot, admitted>>
             PROVE  IInv'
  BY DEF Sweep
<1> DEFINE v == cache[q].jti
           p == Place(v)
<1>1. cache \in Seq(Entry) /\ Len(cache) <= Capacity /\ now \in Nat /\ Len(cache) \in Nat
  BY DEF IInv, TypeOK
<1>2. q \in 1..Len(cache) /\ InCache(v)
  BY <1>1 DEF InCache
<1>3. p \in 1..Len(cache) /\ cache[p].jti = v /\ cache' = Without(p)
  BY <1>1, <1>2, PlaceOfCached
<1>4. /\ cache' \in Seq(Entry)
      /\ Len(cache') = Len(cache) - 1
      /\ \A k \in 1..Len(cache') :
            cache'[k] = IF k < p THEN cache[k] ELSE cache[k + 1]
  BY <1>1, <1>3, CacheWithout
<1>5. p = q
  BY <1>2, <1>3, <1>1 DEF IInv, OrderInv
<1> HIDE DEF p
<1>6. ASSUME NEW u \in Tokens, u = v
      PROVE  ~Matters(u)
  <2>1. cache[q] \in Entry
    BY <1>1, <1>2
  <2>2. cache[q].expiresAt \in Nat
    BY <2>1 DEF Entry
  <2>3. cache[q].expiresAt >= issued[u] + Span
    BY <1>2, <1>6 DEF IInv, EntryInv
  <2> QED
    BY <1>1, <2>2, <2>3, Spans DEF Fresh, Matters, Issued
<1>7. TypeOK'
  BY <1>1, <1>4, Spans DEF IInv, TypeOK
<1>8. BurstInv' /\ SlotInv'
  BY DEF IInv, BurstInv, Recent, SlotInv, Issued
<1>9. \A k \in 1..Len(cache') :
         \E m \in 1..Len(cache) :
            m # p /\ cache'[k] = cache[m] /\ m = IF k < p THEN k ELSE k + 1
  BY <1>1, <1>3, <1>4
<1>10. EntryInv'
  BY <1>9 DEF IInv, EntryInv, Issued
<1>11. OrderInv'
  <2> SUFFICES ASSUME NEW i \in 1..Len(cache'), NEW j \in 1..Len(cache'), i < j
               PROVE  /\ cache'[i].jti # cache'[j].jti
                      /\ issued[cache'[j].jti] < issued[cache'[i].jti] + Span
    BY DEF OrderInv
  <2>1. PICK m \in 1..Len(cache) : cache'[i] = cache[m] /\ m = IF i < p THEN i ELSE i + 1
    BY <1>9
  <2>2. PICK n \in 1..Len(cache) : cache'[j] = cache[n] /\ n = IF j < p THEN j ELSE j + 1
    BY <1>9
  <2>3. m < n
    BY <1>1, <1>3, <2>1, <2>2
  <2> QED
    BY <2>1, <2>2, <2>3 DEF IInv, OrderInv
<1>12. ASSUME NEW u \in Tokens
       PROVE  InCache(u)' => InCache(u)
  BY <1>9 DEF InCache
<1>13. ASSUME NEW u \in Tokens, u # v
       PROVE  InCache(u) <=> InCache(u)'
  <2>1. InCache(u)' => InCache(u)
    BY <1>12
  <2>2. ASSUME InCache(u)
        PROVE  InCache(u)'
    <3>1. PICK m \in 1..Len(cache) : cache[m].jti = u
      BY <2>2 DEF InCache
    <3>2. m # p
      BY <1>3, <1>13, <3>1
    <3>3. CASE m < p
      BY <1>1, <1>3, <1>4, <3>1, <3>3 DEF InCache
    <3>4. CASE m > p
      <4>1. m - 1 \in 1..Len(cache') /\ ~(m - 1 < p) /\ (m - 1) + 1 = m
        BY <1>1, <1>3, <1>4, <3>4
      <4>2. cache'[m - 1] = cache[m]
        BY <1>4, <4>1
      <4> QED
        BY <3>1, <4>1, <4>2 DEF InCache
    <3> QED
      BY <1>1, <1>3, <3>2, <3>3, <3>4
  <2> QED
    BY <2>1, <2>2
<1>14. SpentInv'
  <2> SUFFICES ASSUME NEW u \in Tokens
               PROVE  /\ admitted[u] <= 1
                      /\ admitted[u] > 0 => Issued(u)
                      /\ admitted[u] > 0 /\ Matters(u) => InCache(u)'
                      /\ InCache(u)' => admitted[u] > 0
    BY DEF SpentInv, Issued, Matters
  <2>1. CASE u = v
    BY <1>6, <1>12, <2>1 DEF IInv, SpentInv
  <2>2. CASE u # v
    BY <1>13, <2>2 DEF IInv, SpentInv
  <2> QED
    BY <2>1, <2>2
<1> QED
  BY <1>7, <1>8, <1>10, <1>11, <1>14 DEF IInv

\* What a lookup does to the slots.
LEMMA SlotFreed ==
    ASSUME IInv, NEW s \in Slots,
           slot' = [slot EXCEPT ![s] = Free], UNCHANGED <<now, issued>>
    PROVE  /\ slot' \in [Slots -> [jti : Tokens, at : Nat] \cup {Free}]
           /\ BurstInv'
           /\ SlotInv'
<1>1. slot \in [Slots -> [jti : Tokens, at : Nat] \cup {Free}]
  BY DEF IInv, TypeOK
<1>2. \A q \in Slots : slot'[q] = IF q = s THEN Free ELSE slot[q]
  BY <1>1
<1> QED
  BY <1>1, <1>2 DEF IInv, BurstInv, Recent, SlotInv, Issued

\* A hit moves one entry to the front; the others keep their order.
LEMMA TouchKeeps ==
    ASSUME IInv, NEW s \in Slots, slot[s] # Free,
           Hit(slot[s].jti), Touch(slot[s].jti), UNCHANGED admitted,
           slot' = [slot EXCEPT ![s] = Free], UNCHANGED <<now, issued>>
    PROVE  IInv'
<1> DEFINE t == slot[s].jti
           p == Place(t)
<1>1. /\ cache \in Seq(Entry) /\ Len(cache) <= Capacity /\ Len(cache) \in Nat
      /\ now \in Nat /\ issued \in [Tokens -> Nat \cup {Never}]
  BY DEF IInv, TypeOK
<1>2. t \in Tokens /\ Matters(t) /\ InCache(t)
  BY InHand, HitIfCached
<1>3. p \in 1..Len(cache) /\ cache[p].jti = t /\ Others(t) = Without(p)
  BY <1>1, <1>2, PlaceOfCached
<1>4. /\ Without(p) \in Seq(Entry)
      /\ Len(Without(p)) = Len(cache) - 1
      /\ \A k \in 1..(Len(cache) - 1) :
            Without(p)[k] = IF k < p THEN cache[k] ELSE cache[k + 1]
  BY <1>1, <1>3, CacheWithout
<1>5. cache' = <<cache[p]>> \o Without(p) /\ cache[p] \in Entry
  BY <1>1, <1>3 DEF Touch
<1> HIDE DEF p
<1>6. /\ cache' \in Seq(Entry)
      /\ Len(cache') = Len(cache)
      /\ cache'[1] = cache[p]
      /\ \A k \in 2..Len(cache') : cache'[k] = Without(p)[k - 1]
  BY <1>1, <1>4, <1>5, WithOneMore
<1>7. \A k \in 1..Len(cache') : \E m \in 1..Len(cache) :
         /\ cache'[k] = cache[m]
         /\ m = IF k = 1 THEN p ELSE IF k - 1 < p THEN k - 1 ELSE k
  <2> SUFFICES ASSUME NEW k \in 1..Len(cache')
               PROVE  \E m \in 1..Len(cache) :
                         /\ cache'[k] = cache[m]
                         /\ m = IF k = 1 THEN p ELSE IF k - 1 < p THEN k - 1 ELSE k
    OBVIOUS
  <2>1. CASE k = 1
    BY <1>3, <1>6, <2>1
  <2>2. CASE k # 1
    <3>1. k - 1 \in 1..(Len(cache) - 1) /\ k \in 2..Len(cache') /\ (k - 1) + 1 = k
      BY <1>1, <1>6, <2>2
    <3>2. cache'[k] = IF k - 1 < p THEN cache[k - 1] ELSE cache[k]
      BY <1>4, <1>6, <3>1
    <3> QED
      BY <1>1, <1>6, <2>2, <3>1, <3>2
  <2> QED
    BY <2>1, <2>2
<1>8. TypeOK'
  BY <1>1, <1>6, SlotFreed DEF IInv, TypeOK
<1>9. EntryInv'
  BY <1>7 DEF IInv, EntryInv, Issued
<1>10. OrderInv'
  <2> SUFFICES ASSUME NEW i \in 1..Len(cache'), NEW j \in 1..Len(cache'), i < j
               PROVE  /\ cache'[i].jti # cache'[j].jti
                      /\ issued[cache'[j].jti] < issued[cache'[i].jti] + Span
    BY DEF OrderInv
  <2>1. PICK m \in 1..Len(cache) :
           /\ cache'[i] = cache[m]
           /\ m = IF i = 1 THEN p ELSE IF i - 1 < p THEN i - 1 ELSE i
    BY <1>7
  <2>2. PICK n \in 1..Len(cache) :
           /\ cache'[j] = cache[n]
           /\ n = IF j = 1 THEN p ELSE IF j - 1 < p THEN j - 1 ELSE j
    BY <1>7
  <2>3. CASE i = 1
    <3>1. m = p /\ n # p
      BY <1>1, <1>3, <2>1, <2>2, <2>3
    <3>2. cache[m].jti # cache[n].jti
      BY <1>1, <3>1 DEF IInv, OrderInv
    <3>3. cache[n] \in Entry
      BY <1>1
    <3>4. cache[n].jti \in Tokens /\ issued[cache[n].jti] \in Nat
      BY <3>3 DEF IInv, EntryInv, Entry, Issued
    <3>5. issued[cache[n].jti] <= now /\ now \in Nat
      BY <1>1, <3>4 DEF IInv, BurstInv, Issued
    <3>6. issued[t] \in Nat /\ now < issued[t] + Span
      BY <1>2 DEF Matters, Issued
    <3>7. issued[cache[n].jti] < issued[t] + Span
      <4>1. \A a, b, c \in Nat : a <= b /\ b < c + Span => a < c + Span
        BY Spans
      <4> QED
        BY <3>4, <3>5, <3>6, <4>1
    <3>8. cache[m].jti = t
      BY <1>3, <3>1
    <3>9. issued[cache[n].jti] < issued[cache[m].jti] + Span
      BY <3>7, <3>8
    <3> QED
      BY <2>1, <2>2, <3>2, <3>9
  <2>4. CASE i # 1
    <3>1. m < n
      BY <1>1, <1>3, <2>1, <2>2, <2>4
    <3> QED
      BY <2>1, <2>2, <3>1 DEF IInv, OrderInv
  <2> QED
    BY <2>3, <2>4
<1>11. ASSUME NEW u \in Tokens
       PROVE  InCache(u)' <=> InCache(u)
  <2>1. InCache(u)' => InCache(u)
    BY <1>7 DEF InCache
  <2>2. ASSUME InCache(u)
        PROVE  InCache(u)'
    <3>1. PICK m \in 1..Len(cache) : cache[m].jti = u
      BY <2>2 DEF InCache
    <3> DEFINE k == IF m = p THEN 1 ELSE IF m < p THEN m + 1 ELSE m
    <3>2. k \in 1..Len(cache')
      BY <1>1, <1>3, <1>6
    <3>3. cache'[k] = cache[m]
      BY <1>1, <1>3, <1>7, <3>2
    <3> QED
      BY <3>1, <3>2, <3>3 DEF InCache
  <2> QED
    BY <2>1, <2>2
<1>12. SpentInv'
  BY <1>11 DEF IInv, SpentInv, Issued, Matters
<1> QED
  BY <1>8, <1>9, <1>10, <1>12, SlotFreed DEF IInv

\* The pigeons: while a token that matters is not in a full cache, the last entry's
\* token does not matter, as all of them and this one would be recent.
LEMMA LastIsDone ==
    ASSUME IInv, NEW t \in Tokens, Matters(t), ~InCache(t), Len(cache) = Capacity,
           NEW v \in Tokens, v = cache[Capacity].jti
    PROVE  ~Matters(v)
<1> SUFFICES ASSUME Matters(v)
             PROVE  FALSE
  OBVIOUS
<1> DEFINE Places == 1..(Capacity + 1)
           f == [k \in Places |-> IF k <= Capacity THEN cache[k].jti ELSE t]
<1>1. /\ cache \in Seq(Entry) /\ now \in Nat
      /\ issued \in [Tokens -> Nat \cup {Never}]
  BY DEF IInv, TypeOK
<1>2. /\ issued[v] \in Nat /\ now < issued[v] + Span
      /\ issued[t] \in Nat /\ now < issued[t] + Span
  BY DEF Matters, Issued
<1>3. \A k \in Places : f[k] \in Recent
  <2> SUFFICES ASSUME NEW k \in Places
               PROVE  f[k] \in Recent
    OBVIOUS
  <2>1. CASE k = Capacity + 1
    <3>1. f[k] = t
      BY <2>1, Spans
    <3> QED
      BY <1>1, <1>2, <3>1, Spans DEF Recent
  <2>2. CASE k # Capacity + 1
    <3>1. k \in 1..Len(cache) /\ k <= Capacity /\ f[k] = cache[k].jti
      BY <2>2, Spans
    <3>2. cache[k] \in Entry
      BY <1>1, <3>1
    <3>3. cache[k].jti \in Tokens /\ issued[cache[k].jti] \in Nat
      BY <3>1, <3>2 DEF IInv, EntryInv, Issued, Entry
    <3>4. issued[v] < issued[cache[k].jti] + Span
      <4>1. CASE k = Capacity
        BY <1>2, <4>1, Spans
      <4>2. CASE k # Capacity
        <5>1. k < Capacity /\ Capacity \in 1..Len(cache)
          BY <3>1, <4>2, Spans
        <5> QED
          BY <3>1, <5>1 DEF IInv, OrderInv
      <4> QED
        BY <4>1, <4>2
    <3> QED
      BY <1>1, <1>2, <3>1, <3>3, <3>4, Spans DEF Recent
  <2> QED
    BY <2>1, <2>2
<1>4. ASSUME NEW a \in Places, NEW b \in Places, f[a] = f[b]
      PROVE  a = b
  <2>1. \A k \in Places : k # Capacity + 1 => k \in 1..Len(cache)
    BY Spans
  <2>2. \A k \in Places : k # Capacity + 1 => f[k] # t /\ f[k] = cache[k].jti
    BY <2>1, Spans DEF InCache
  <2>3. f[Capacity + 1] = t
    BY Spans
  <2>4. CASE a # Capacity + 1 /\ b # Capacity + 1
    BY <1>4, <2>1, <2>2, <2>4, Spans DEF IInv, OrderInv
  <2> QED
    BY <1>4, <2>2, <2>3, <2>4
<1>5. f \in Injection(Places, Recent)
  BY <1>3, <1>4 DEF Injection, IsInjective
<1>6. IsFiniteSet(Recent) /\ Cardinality(Recent) <= Burst
  BY FS_Subset DEF IInv, BurstInv, Recent
<1>7. Cardinality(Places) = Capacity + 1
  BY FS_Interval, Spans
<1>8. Cardinality(Places) <= Cardinality(Recent) /\ Cardinality(Recent) \in Nat
  BY <1>5, <1>6, FS_Injection, FS_CardinalityType
<1> QED
  BY <1>6, <1>7, <1>8, Spans

\* A miss, of a token that was not admitted before, puts its entry at the front and
\* takes at most one other away, which is done.
LEMMA AddKeeps ==
    ASSUME IInv, NEW s \in Slots, slot[s] # Free,
           ~Hit(slot[s].jti), Add(slot[s].jti),
           admitted' = [admitted EXCEPT ![slot[s].jti] = @ + 1],
           slot' = [slot EXCEPT ![s] = Free], UNCHANGED <<now, issued>>
    PROVE  IInv' /\ admitted[slot[s].jti] = 0
<1> DEFINE t == slot[s].jti
           e == [jti |-> t, expiresAt |-> now + EntryTTL]
           list == <<e>> \o cache
<1>1. /\ cache \in Seq(Entry) /\ Len(cache) <= Capacity /\ Len(cache) \in Nat
      /\ now \in Nat /\ issued \in [Tokens -> Nat \cup {Never}]
      /\ admitted \in [Tokens -> Nat]
  BY DEF IInv, TypeOK
<1>2. t \in Tokens /\ Matters(t) /\ ~InCache(t)
  BY InHand, HitIfCached
<1>3. admitted[t] = 0
  BY <1>1, <1>2 DEF IInv, SpentInv
<1>4. issued[t] \in Nat /\ issued[t] <= now /\ now < issued[t] + Span
  BY <1>2 DEF IInv, BurstInv, Matters, Issued
<1>5. cache' = KeepNewest(list)
  BY <1>2 DEF Add, Others, InCache
<1>6. e \in Entry /\ e.jti = t /\ e.expiresAt >= issued[t] + Span
  BY <1>1, <1>2, <1>4, Spans DEF Entry, EntryTTL
<1> HIDE DEF e
<1>7. /\ list \in Seq(Entry)
      /\ Len(list) = Len(cache) + 1
      /\ list[1] = e
      /\ \A k \in 2..Len(list) : list[k] = cache[k - 1]
  BY <1>1, <1>6, WithOneMore
<1> HIDE DEF list
<1>8. /\ cache' \in Seq(Entry)
      /\ Len(cache') = IF Len(cache) < Capacity THEN Len(cache) + 1 ELSE Capacity
      /\ \A k \in 1..Len(cache') : cache'[k] = list[k]
  <2>1. /\ KeepNewest(list) \in Seq(Entry)
        /\ Len(KeepNewest(list)) = IF Len(list) <= Capacity THEN Len(list) ELSE Capacity
        /\ \A k \in 1..Len(KeepNewest(list)) : KeepNewest(list)[k] = list[k]
    BY <1>7, KeepsNewest
  <2> QED
    BY <1>1, <1>5, <1>7, <2>1, Spans
<1>9. cache'[1] = e /\ 1 \in 1..Len(cache')
  BY <1>1, <1>7, <1>8, Spans
<1>10. ASSUME NEW k \in 1..Len(cache'), k # 1
       PROVE  k - 1 \in 1..Len(cache) /\ cache'[k] = cache[k - 1]
  BY <1>1, <1>7, <1>8, <1>10, Spans
<1>11. \A i \in 1..Len(cache) :
          /\ cache[i].jti \in Tokens /\ issued[cache[i].jti] \in Nat
          /\ issued[cache[i].jti] <= now /\ cache[i].jti # t
  <2> TAKE i \in 1..Len(cache)
  <2>1. cache[i] \in Entry
    BY <1>1
  <2> QED
    BY <1>2, <2>1 DEF IInv, EntryInv, BurstInv, Issued, Entry, InCache
<1>12. TypeOK'
  BY <1>1, <1>2, <1>8, SlotFreed, Spans DEF IInv, TypeOK
<1>13. EntryInv'
  <2> SUFFICES ASSUME NEW k \in 1..Len(cache')
               PROVE  /\ issued[cache'[k].jti] \in Nat
                      /\ cache'[k].expiresAt >= issued[cache'[k].jti] + Span
    BY DEF EntryInv, Issued
  <2>1. CASE k = 1
    BY <1>4, <1>6, <1>9, <2>1
  <2>2. CASE k # 1
    BY <1>10, <2>2 DEF IInv, EntryInv, Issued
  <2> QED
    BY <2>1, <2>2
<1>14. OrderInv'
  <2> SUFFICES ASSUME NEW i \in 1..Len(cache'), NEW j \in 1..Len(cache'), i < j
               PROVE  /\ cache'[i].jti # cache'[j].jti
                      /\ issued[cache'[j].jti] < issued[cache'[i].jti] + Span
    BY DEF OrderInv
  <2>1. j # 1
    BY <1>8
  <2>2. j - 1 \in 1..Len(cache) /\ cache'[j] = cache[j - 1]
    BY <1>10, <2>1
  <2>3. CASE i = 1
    <3>1. cache'[i].jti = t
      BY <1>6, <1>9, <2>3
    <3>2. cache'[j].jti # t /\ issued[cache'[j].jti] \in Nat /\ issued[cache'[j].jti] <= now
      BY <1>11, <2>2
    <3>3. issued[cache'[j].jti] < issued[t] + Span
      BY <1>1, <1>4, <3>2, Spans
    <3> QED
      BY <3>1, <3>2, <3>3
  <2>4. CASE i # 1
    <3>1. i - 1 \in 1..Len(cache) /\ cache'[i] = cache[i - 1]
      BY <1>10, <2>4
    <3>2. i - 1 < j - 1
      BY <1>8
    <3> QED
      BY <2>2, <3>1, <3>2 DEF IInv, OrderInv
  <2> QED
    BY <2>3, <2>4
<1>15. ASSUME NEW u \in Tokens
       PROVE  InCache(u)' => u = t \/ InCache(u)
  BY <1>6, <1>9, <1>10 DEF InCache
<1>16. ASSUME NEW u \in Tokens, InCache(u), Matters(u)
       PROVE  InCache(u)'
  <2>1. PICK i \in 1..Len(cache) : cache[i].jti = u
    BY <1>16 DEF InCache
  <2>2. i < Capacity
    <3> SUFFICES ASSUME i = Capacity
                 PROVE  FALSE
      BY <1>1, Spans
    <3>1. Len(cache) = Capacity
      BY <1>1
    <3> QED
      BY <1>2, <1>16, <2>1, <3>1, LastIsDone
  <2>3. i + 1 \in 1..Len(cache') /\ i + 1 # 1 /\ (i + 1) - 1 = i
    BY <1>1, <1>8, <2>2, Spans
  <2>4. cache'[i + 1] = cache[i]
    BY <1>10, <2>3
  <2> QED
    BY <2>1, <2>3, <2>4 DEF InCache
<1>17. SpentInv'
  <2> SUFFICES ASSUME NEW u \in Tokens
               PROVE  /\ admitted'[u] <= 1
                      /\ admitted'[u] > 0 => Issued(u)
                      /\ admitted'[u] > 0 /\ Matters(u) => InCache(u)'
                      /\ InCache(u)' => admitted'[u] > 0
    BY DEF SpentInv, Issued, Matters
  <2>1. CASE u = t
    <3>1. admitted'[u] = 1 /\ issued[u] \in Nat
      BY <1>1, <1>2, <1>3, <1>4, <2>1
    <3>2. InCache(u)'
      BY <1>6, <1>9, <2>1 DEF InCache
    <3> QED
      BY <3>1, <3>2 DEF Issued
  <2>2. CASE u # t
    <3>1. admitted'[u] = admitted[u]
      BY <1>1, <1>2, <2>2
    <3> QED
      BY <1>15, <1>16, <2>2, <3>1 DEF IInv, SpentInv
  <2> QED
    BY <2>1, <2>2
<1> QED
  BY <1>3, <1>12, <1>13, <1>14, <1>17, SlotFreed DEF IInv

-----------------------------------------------------------------------------
(* The theorems. *)

LEMMA LookUp ==
    ASSUME IInv, NEW s \in Slots, CheckAndAdd(s)
    PROVE  /\ IInv'
           /\ \/ admitted[slot[s].jti] > 0 /\ UNCHANGED admitted
              \/ /\ admitted[slot[s].jti] = 0
                 /\ admitted' = [admitted EXCEPT ![slot[s].jti] = @ + 1]
<1> USE DEF CheckAndAdd
<1>1. CASE Hit(slot[s].jti)
  <2>1. InCache(slot[s].jti) /\ slot[s].jti \in Tokens
    BY <1>1, InHand, HitIfCached
  <2>2. admitted[slot[s].jti] > 0
    BY <2>1 DEF IInv, SpentInv
  <2> QED
    BY <1>1, <2>2, TouchKeeps
<1>2. CASE ~Hit(slot[s].jti)
  BY <1>2, AddKeeps
<1> QED
  BY <1>1, <1>2

LEMMA NextIInv == IInv /\ [Next]_vars => IInv'
<1> SUFFICES ASSUME IInv, [Next]_vars
             PROVE  IInv'
  OBVIOUS
<1>1. CASE Tick
  BY <1>1, TickKeeps
<1>2. CASE Sweep
  BY <1>2, SweepKeeps
<1>3. ASSUME NEW t \in Tokens, Issue(t)
      PROVE  IInv'
  BY <1>3, IssueKeeps
<1>4. ASSUME NEW s \in Slots, NEW t \in Tokens, Validate(s, t)
      PROVE  IInv'
  BY <1>4, ValidateKeeps
<1>5. ASSUME NEW s \in Slots, CheckAndAdd(s)
      PROVE  IInv'
  BY <1>5, LookUp
<1>6. CASE UNCHANGED vars
  BY <1>6 DEF vars, IInv, TypeOK, BurstInv, Recent, SlotInv, EntryInv, OrderInv, SpentInv,
              Issued, Matters, InCache
<1> QED
  BY <1>1, <1>2, <1>3, <1>4, <1>5, <1>6 DEF Next

\* The inductive invariant is an invariant.
THEOREM Invariance == Spec => []IInv
<1> QED
  BY InitIInv, NextIInv, PTL DEF Spec

\* The variables have their types; the cache never outgrows its size (jti.go:15-23).
THEOREM TypeCorrect == Spec => []TypeOK
<1>1. IInv => TypeOK
  BY DEF IInv
<1> QED
  BY <1>1, Invariance, PTL

\* However many handlers race with a token, however the LRU ages, sweeps and evicts
\* its entries, CheckAndAdd accepts the token once, if entries live as long as
\* tokens can be used and the cache holds as many as can be in use (jti.go:25-35,
\* main.go:271).
THEOREM OnceOnly == Spec => []OncePerToken
<1>1. IInv => OncePerToken
  BY DEF IInv, SpentInv, OncePerToken
<1> QED
  BY <1>1, Invariance, PTL

\* Neither age nor eviction takes the entry of a token that can still be presented
\* or is in a handler's hands: what DeployServer assumes of Forget.
THEOREM EntriesOutlive == Spec => []EntriesOutliveTokens
<1>1. ASSUME IInv
      PROVE  EntriesOutliveTokens
  <2> SUFFICES ASSUME NEW t \in Tokens, admitted[t] > 0,
                      Alive(t) \/ \E s \in Slots : slot[s] # Free /\ slot[s].jti = t
               PROVE  Hit(t)
    BY DEF EntriesOutliveTokens
  <2>1. Matters(t)
    <3>1. CASE Alive(t)
      <4>1. now \in Nat /\ issued[t] \in Nat
        BY <1>1, <3>1 DEF IInv, TypeOK, Alive
      <4> QED
        BY <3>1, <4>1, Spans DEF Alive, Matters, Issued, Span
    <3>2. ASSUME NEW s \in Slots, slot[s] # Free, slot[s].jti = t
          PROVE  Matters(t)
      BY <1>1, <3>2, InHand
    <3> QED
      BY <3>1, <3>2
  <2>2. InCache(t)
    BY <1>1, <2>1 DEF IInv, SpentInv
  <2> QED
    BY <1>1, <2>1, <2>2, HitIfCached
<1> QED
  BY <1>1, Invariance, PTL

-----------------------------------------------------------------------------
(* The refinement. *)

LEMMA HeldPair ==
    ASSUME NEW s \in Slots, NEW t
    PROVE  <<s, t>> \in Held <=> slot[s] # Free /\ slot[s].jti = t
  BY DEF Held

LEMMA InitGate == Init => Gate!Init
<1> SUFFICES ASSUME Init
             PROVE  Held = {} /\ Spent = {}
  BY DEF Gate!Init
<1> QED
  BY DEF Init, Held, Spent

\* Validate is Hold.
LEMMA ValidateIsHold ==
    ASSUME IInv, NEW s \in Slots, NEW t \in Tokens, Validate(s, t)
    PROVE  Gate!Hold(s, t)
<1>1. /\ slot[s] = Free /\ UNCHANGED admitted
      /\ slot' = [slot EXCEPT ![s] = [jti |-> t, at |-> now]]
      /\ slot \in [Slots -> [jti : Tokens, at : Nat] \cup {Free}]
      /\ [jti |-> t, at |-> now] \in [jti : Tokens, at : Nat]
  BY DEF Validate, IInv, TypeOK
<1>2. [jti |-> t, at |-> now] # Free
  BY <1>1, CacheAssumption
<1>3. \A u \in Tokens : <<s, u>> \notin Held
  BY <1>1, HeldPair
<1>4. Held' = Held \cup {<<s, t>>}
  BY <1>1, <1>2 DEF Held
<1>5. Spent' = Spent
  BY <1>1 DEF Spent
<1> QED
  BY <1>3, <1>4, <1>5 DEF Gate!Hold

\* CheckAndAdd is Accept or Refuse, by whether the token is spent.
LEMMA LookUpIsAnswer ==
    ASSUME IInv, NEW s \in Slots, CheckAndAdd(s)
    PROVE  \E t \in Tokens : Gate!Accept(s, t) \/ Gate!Refuse(s, t)
<1> DEFINE t == slot[s].jti
<1>1. /\ slot[s] # Free
      /\ slot' = [slot EXCEPT ![s] = Free]
      /\ slot \in [Slots -> [jti : Tokens, at : Nat] \cup {Free}]
      /\ admitted \in [Tokens -> Nat]
  BY DEF CheckAndAdd, IInv, TypeOK
<1>2. t \in Tokens
  BY <1>1, InHand
<1>3. <<s, t>> \in Held
  BY <1>1, HeldPair
<1>4. Held' = Held \ {<<s, t>>}
  BY <1>1 DEF Held
<1>5. CASE admitted[t] > 0 /\ UNCHANGED admitted
  <2>1. t \in Spent /\ Spent' = Spent
    BY <1>2, <1>5 DEF Spent
  <2> QED
    BY <1>2, <1>3, <1>4, <2>1 DEF Gate!Refuse
<1>6. CASE admitted[t] = 0 /\ admitted' = [admitted EXCEPT ![t] = @ + 1]
  <2>1. t \notin Spent /\ Spent' = Spent \cup {t}
    BY <1>1, <1>2, <1>6 DEF Spent
  <2> QED
    BY <1>2, <1>3, <1>4, <2>1 DEF Gate!Accept
<1> QED
  BY <1>1, <1>5, <1>6, LookUp

LEMMA StepIsGate == IInv /\ [Next]_vars => [Gate!Next]_(Gate!vars)
<1> SUFFICES ASSUME IInv, [Next]_vars
             PROVE  Gate!Next \/ (Held' = Held /\ Spent' = Spent)
  BY DEF Gate!vars
<1>1. ASSUME UNCHANGED <<slot, admitted>>
      PROVE  Held' = Held /\ Spent' = Spent
  BY <1>1 DEF Held, Spent
<1>2. CASE Tick \/ Sweep
  BY <1>1, <1>2 DEF Tick, Sweep
<1>3. ASSUME NEW t \in Tokens, Issue(t)
      PROVE  Held' = Held /\ Spent' = Spent
  BY <1>1, <1>3 DEF Issue
<1>4. ASSUME NEW s \in Slots, NEW t \in Tokens, Validate(s, t)
      PROVE  Gate!Next
  BY <1>4, ValidateIsHold DEF Gate!Next
<1>5. ASSUME NEW s \in Slots, CheckAndAdd(s)
      PROVE  Gate!Next
  BY <1>5, LookUpIsAnswer DEF Gate!Next
<1>6. CASE UNCHANGED vars
  BY <1>1, <1>6 DEF vars
<1> QED
  BY <1>2, <1>3, <1>4, <1>5, <1>6 DEF Next

\* The cache, with its clock, its sizes and its evictions, is to the handlers a gate
\* that lets a token through when it is first shown and never after, and that turns
\* away no token which was not let through before (jti.go:25-35).
THEOREM CacheIsGate == Spec => FirstSightingsOnly
<1> QED
  BY InitGate, StepIsGate, Invariance, PTL DEF Spec, FirstSightingsOnly, Gate!Spec
=============================================================================
