------------------------------ MODULE HashRing ------------------------------
(***************************************************************************)
(* The hash ring of an endpoint group as the code keeps it: a map from     *)
(* hashes to names and, beside it, a sorted slice of the hashes, with      *)
(* binary search (internal/loadbalancer/balance_chwbl.go).  EndpointGroup  *)
(* works on the map alone and walks it with NextHash; here the slice and   *)
(* its index arithmetic are shown to be that.                              *)
(***************************************************************************)
EXTENDS Integers, Sequences, FiniteSets, Functions

CONSTANTS
    Names,     \* names of endpoints
    Replicas,  \* Replicas[n]: the hashes of n's replicas, in replica order
    KeyHashes  \* hashes of the keys that are looked up

VARIABLES
    members,            \* DOMAIN g.endpoints
    chwblHashes,        \* hash -> name
    chwblSortedHashes   \* the slice, indexed from 1

ringVars == <<members, chwblHashes, chwblSortedHashes>>

ASSUME ReplicasAssumption ==
    /\ KeyHashes \subseteq Nat
    /\ \A n \in Names : Replicas[n] \in Seq(Nat) /\ IsInjective(Replicas[n])
    /\ \A m, n \in Names : m # n => Range(Replicas[m]) \cap Range(Replicas[n]) = {}

RingInit ==
    /\ members = {}
    /\ chwblHashes = [h \in {} |-> ""]
    /\ chwblSortedHashes = <<>>

-----------------------------------------------------------------------------
\* sort.Slice: the element at index i is the i-th smallest.
Sorted(s) ==
    [i \in 1..Len(s) |-> CHOOSE x \in Range(s) :
        /\ Cardinality({j \in 1..Len(s) : s[j] < x}) < i
        /\ i <= Cardinality({j \in 1..Len(s) : s[j] <= x})]

\* Append the replicas, then sort.
SortedWith(n) == Sorted(chwblSortedHashes \o Replicas[n])

AddEndpoint(n) ==
    /\ n \notin members
    /\ members' = members \cup {n}
    /\ chwblHashes' = [h \in DOMAIN chwblHashes \cup Range(Replicas[n]) |->
                          IF h \in Range(Replicas[n]) THEN n ELSE chwblHashes[h]]
    /\ chwblSortedHashes' = SortedWith(n)

\* Mutated form of BinarySearch: the loop stops when one candidate is left.
BinarySearchShort(s, val) ==
    LET search[c \in (1..(Len(s) + 1)) \X (0..Len(s))] ==
            LET left   == c[1]
                right  == c[2]
                middle == (left + right) \div 2
            IN
            IF left >= right THEN 0
            ELSE IF s[middle] = val THEN middle
            ELSE IF s[middle] < val THEN search[<<middle + 1, right>>]
            ELSE search[<<left, middle - 1>>]
    IN  search[<<1, Len(s)>>]

\* The loop of chwblDeleteSortedHash: the index of val, 0 when it is not there.
BinarySearch(s, val) ==
    LET search[c \in (1..(Len(s) + 1)) \X (0..Len(s))] ==
            LET left   == c[1]
                right  == c[2]
                middle == (left + right) \div 2
            IN
            IF left > right THEN 0
            ELSE IF s[middle] = val THEN middle
            ELSE IF s[middle] < val THEN search[<<middle + 1, right>>]
            ELSE search[<<left, middle - 1>>]
    IN  search[<<1, Len(s)>>]

DeleteSortedHash(s, val) ==
    LET idx == BinarySearch(s, val)
    IN  IF idx = 0 THEN s ELSE SubSeq(s, 1, idx - 1) \o SubSeq(s, idx + 1, Len(s))

\* The loop of chwblRemoveEndpoint over the replicas of an endpoint.
DeleteAll(s, vals) ==
    LET deleted[i \in 0..Len(vals)] ==
            IF i = 0 THEN s ELSE DeleteSortedHash(deleted[i - 1], vals[i])
    IN  deleted[Len(vals)]

RemoveEndpoint(n) ==
    /\ n \in members
    /\ members' = members \ {n}
    /\ chwblHashes' = [h \in DOMAIN chwblHashes \ Range(Replicas[n]) |-> chwblHashes[h]]
    /\ chwblSortedHashes' = DeleteAll(chwblSortedHashes, Replicas[n])

RingNext == \E n \in Names : AddEndpoint(n) \/ RemoveEndpoint(n)

RingSpec == RingInit /\ [][RingNext]_ringVars

-----------------------------------------------------------------------------
(* Look-ups in a slice s *)

\* The smallest of a set of numbers.
Least(S) == CHOOSE x \in S : \A y \in S : x <= y

\* Mutated form of Search: no wrap-around past the largest hash.
SearchNoWrap(s, key) ==
    LET ahead == {i \in 1..Len(s) : s[i] >= key}
    IN  IF ahead = {} THEN Len(s) ELSE Least(ahead)

\* Mutated form of Search: the key picks a slot instead of a place on the ring.
SearchModulo(s, key) == (key % Len(s)) + 1

\* sort.Search gives the smallest index whose hash is not below the key.
Search(s, key) ==
    LET ahead == {i \in 1..Len(s) : s[i] >= key}
    IN  IF ahead = {} THEN 1 ELSE Least(ahead)

\* The n-th position of the walk of chwblGetAddr that starts at i0.
WalkIndex(s, i0, n) == ((i0 - 1 + n) % Len(s)) + 1

\* The hashes met by the walk for a key, in order.
Walk(s, key) == [n \in 1..Len(s) |-> s[WalkIndex(s, Search(s, key), n - 1)]]

\* The endpoint a key goes to while the loads allow it.
Owner(key) == chwblHashes[Walk(chwblSortedHashes, key)[1]]

-----------------------------------------------------------------------------
(* Properties *)

Ascending(s) == \A i, j \in DOMAIN s : i < j => s[i] < s[j]

(* The slice holds every hash of the map exactly once, in ascending order, and
   the map leads to members only: whatever was added and removed before,
   deleting by binary search leaves nothing behind (balance_chwbl.go:86-138). *)
SliceMatchesMap ==
    /\ Ascending(chwblSortedHashes)
    /\ Range(chwblSortedHashes) = DOMAIN chwblHashes
    /\ \A h \in DOMAIN chwblHashes :
        chwblHashes[h] \in members /\ h \in Range(Replicas[chwblHashes[h]])
    /\ \A n \in members : Range(Replicas[n]) \subseteq DOMAIN chwblHashes

\* The clockwise order, as EndpointGroup states it on a set of hashes.
NextHash(h, S) ==
    LET ahead == {x \in S : x >= h}
    IN  Least(IF ahead = {} THEN S ELSE ahead)

(* Every walk meets the hashes in clockwise order from the key, each once: the
   n-th one is the next hash among those the walk has not met
   (balance_chwbl.go:19-20, 36-37, 66-70, 108-117). *)
WalkIsClockwise ==
    \A key \in KeyHashes :
        LET w == Walk(chwblSortedHashes, key) IN
        \A n \in 1..Len(w) :
            w[n] = NextHash(key, DOMAIN chwblHashes \ {w[m] : m \in 1..(n-1)})

(* Consistent hashing: a key changes its endpoint only to one that is added,
   or because its own is removed (balance_chwbl.go:86-117).  On an empty ring
   nothing is looked up (balance_chwbl.go:15-17). *)
MinimalDisruption ==
    [][\A key \in KeyHashes :
        (chwblSortedHashes # <<>> /\ chwblSortedHashes' # <<>> /\ Owner(key)' # Owner(key)) =>
            Owner(key)' \notin members \/ Owner(key) \notin members']_ringVars

=============================================================================
