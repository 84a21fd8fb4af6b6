------------------------------ MODULE ReplayCache ------------------------------
(***************************************************************************)
(* internal/auth/jti.go on the LRU it is built on: jti entries with a time *)
(* to live in a cache of bounded size, most recently used first.  The      *)
(* tokens come with the life their issuer gives them, and a handler        *)
(* validates a token shortly before it looks its jti up.                   *)
(*                                                                         *)
(* This is what DeployServer takes for granted in its action Forget: an    *)
(* entry goes only when its token can no longer be admitted.  The module   *)
(* says on what that depends: the time to live against the life of a       *)
(* token, and the size against the number of tokens in circulation.        *)
(***************************************************************************)
EXTENDS Integers, Sequences, FiniteSets

CONSTANTS
    Tokens,
    Slots,     \* handlers that are between Validate and CheckAndAdd, or idle
    Free,      \* an idle slot
    Never,     \* a token that was not issued
    Lifetime,  \* from a token's issue to its exp
    Gap,       \* the longest time from Validate to CheckAndAdd
    TTL,       \* life of an entry: 30 minutes in main.go
    Capacity,  \* entries of the cache: 1000 in main.go
    Burst,     \* tokens issued in any period of length Window
    MaxTime    \* bound on the clock

\* The tokens that can be admitted while one token can were issued within this.
Window == 2 * (Lifetime + Gap)

ASSUME CacheAssumption ==
    /\ Free \notin [jti : Tokens, at : Nat]
    /\ Never \notin Nat
    /\ Lifetime \in Nat \ {0} /\ Gap \in Nat /\ TTL \in Nat
    /\ Capacity \in Nat \ {0} /\ Burst \in Nat /\ MaxTime \in Nat
    /\ TTL >= Lifetime + Gap
    /\ Capacity >= Burst

VARIABLES
    now,
    issued,   \* issued[t]: when token t was issued, or Never
    slot,     \* slot[s]: the token a handler has validated and when, or Free
    cache,    \* entries [jti, expiresAt], the most recently used first
    admitted  \* admitted[t]: how often CheckAndAdd accepted t

vars == <<now, issued, slot, cache, admitted>>

Entry == [jti : Tokens, expiresAt : Nat]

TypeOK ==
    /\ now \in 0..MaxTime
    /\ issued \in [Tokens -> Nat \cup {Never}]
    /\ slot \in [Slots -> [jti : Tokens, at : Nat] \cup {Free}]
    /\ cache \in Seq(Entry) /\ Len(cache) <= Capacity
    /\ admitted \in [Tokens -> Nat]

Init ==
    /\ now = 0
    /\ issued = [t \in Tokens |-> Never]
    /\ slot = [s \in Slots |-> Free]
    /\ cache = <<>>
    /\ admitted = [t \in Tokens |-> 0]

-----------------------------------------------------------------------------
(* Time and tokens. *)

Issue(t) ==
    /\ issued[t] = Never
    /\ Cardinality({u \in Tokens : issued[u] # Never /\ issued[u] + Window > now}) < Burst
    /\ issued' = [issued EXCEPT ![t] = now]
    /\ UNCHANGED <<now, slot, cache, admitted>>

Alive(t) == issued[t] # Never /\ now < issued[t] + Lifetime

\* A handler does not dwell between its two calls longer than Gap.
Tick ==
    /\ now < MaxTime
    /\ \A s \in Slots : slot[s] # Free => now < slot[s].at + Gap
    /\ now' = now + 1
    /\ UNCHANGED <<issued, slot, cache, admitted>>

Validate(s, t) ==
    /\ slot[s] = Free
    /\ Alive(t)
    /\ slot' = [slot EXCEPT ![s] = [jti |-> t, at |-> now]]
    /\ UNCHANGED <<now, issued, cache, admitted>>

-----------------------------------------------------------------------------
(* The cache. *)

EntryTTL == TTL

Fresh(entry) == now <= entry.expiresAt

\* Get: a hit if the entry is there and has not expired.
Hit(t) == \E i \in DOMAIN cache : cache[i].jti = t /\ Fresh(cache[i])

\* The cache holds a jti once.
Place(t) == CHOOSE i \in DOMAIN cache : cache[i].jti = t

Without(i) == SubSeq(cache, 1, i - 1) \o SubSeq(cache, i + 1, Len(cache))

\* What the cache holds but t's entry.
Others(t) ==
    IF \E i \in DOMAIN cache : cache[i].jti = t THEN Without(Place(t)) ELSE cache

\* Mistake: a full cache takes no new entries.
KeepOldest(entries) ==
    IF Len(entries) <= Capacity THEN entries ELSE Tail(entries)

\* Add beyond the size drops the entry that was used least recently.
KeepNewest(entries) ==
    IF Len(entries) <= Capacity THEN entries ELSE SubSeq(entries, 1, Capacity)

\* A hit moves the entry to the front and leaves its expiry alone.
Touch(t) == cache' = <<cache[Place(t)]>> \o Others(t)

Add(t) ==
    cache' = KeepNewest(<<[jti |-> t, expiresAt |-> now + EntryTTL]>> \o Others(t))

\* Mistake: the entry is added before it is looked for.
FindsOwnEntry(s) ==
    /\ slot[s] # Free
    /\ Add(slot[s].jti)
    /\ slot' = [slot EXCEPT ![s] = Free]
    /\ UNCHANGED <<now, issued, admitted>>

\* JTISet.CheckAndAdd, under its mutex.
CheckAndAdd(s) ==
    /\ slot[s] # Free
    /\ LET t == slot[s].jti
       IN  IF Hit(t)
             THEN Touch(t) /\ UNCHANGED admitted
             ELSE Add(t) /\ admitted' = [admitted EXCEPT ![t] = @ + 1]
    /\ slot' = [slot EXCEPT ![s] = Free]
    /\ UNCHANGED <<now, issued>>

\* The LRU's own goroutine removes entries that have expired.
Sweep ==
    /\ \E i \in DOMAIN cache :
          /\ ~Fresh(cache[i])
          /\ cache' = Others(cache[i].jti)
    /\ UNCHANGED <<now, issued, slot, admitted>>

Next ==
    \/ Tick \/ Sweep
    \/ \E t \in Tokens : Issue(t)
    \/ \E s \in Slots, t \in Tokens : Validate(s, t)
    \/ \E s \in Slots : CheckAndAdd(s)

Spec == Init /\ [][Next]_vars

-----------------------------------------------------------------------------
(* Properties. *)

\* A token is admitted at most once, by any of the handlers that have it, at any
\* time of its life, and however full the cache is (jti.go:12-13).
OncePerToken == \A t \in Tokens : admitted[t] <= 1

\* As long as an admitted token can still be presented, or is in the hands of a
\* handler, its jti is a hit: expiry and eviction only take entries that no
\* longer matter.  This is the guard of DeployServer!Forget.
EntriesOutliveTokens ==
    \A t \in Tokens :
        /\ admitted[t] > 0
        /\ Alive(t) \/ \E s \in Slots : slot[s] # Free /\ slot[s].jti = t
        => Hit(t)

-----------------------------------------------------------------------------
(* Refinement. *)

Held == {<<s, slot[s].jti>> : s \in {q \in Slots : slot[q] # Free}}

Spent == {t \in Tokens : admitted[t] > 0}

Gate == INSTANCE ReplayGate WITH Handlers <- Slots, held <- Held, spent <- Spent

\* Looked at from the handlers, all of this is a gate that accepts a token when it
\* is first shown and never again, and that turns away no token that was not
\* accepted before: as ReplayGate says (jti.go:25-35).
FirstSightingsOnly == Gate!Spec
=============================================================================
