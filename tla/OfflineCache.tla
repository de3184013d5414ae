------------------------------ MODULE OfflineCache ------------------------------
(***************************************************************************)
(* fusion_code_modelization/offline/cache.py: OfflineCache, whose index is *)
(* read when the cache is made and written whole after every change.  One  *)
(* process at a time.                                                      *)
(*                                                                         *)
(* Abstractions: a key is a resource with its type; sizes are whole        *)
(* megabytes; hits and misses are not counted.                             *)
(***************************************************************************)
EXTENDS StateFile, Selection, SequencesExt, FiniteSetsExt, Integers

CONSTANTS Keys,
          Sizes,      \* of the files that a resource may be cached from
          DefaultTtl, \* default_ttl
          Ttls,       \* what get may be given as its ttl; 0 never expires
          Limits,     \* what cleanup_cache may be given as its limit
          LastTime    \* bound on the clock

ASSUME CacheAssumption == /\ Sizes \subseteq Nat /\ Limits \subseteq Nat
                          /\ DefaultTtl \in Nat /\ Ttls \subseteq Nat /\ LastTime \in Nat

VARIABLES index,    \* index.json: the entries in the order of the map
          caching,  \* whether a process has the cache open
          entries,  \* its _entries
          folders,  \* the keys whose directory exists
          time,
          cached,   \* when each key was last cached, by any process
          reply     \* of the last operation

cacheVars == <<index, caching, entries, folders, time, cached, reply>>

CacheEntry == [key : Keys, size : Sizes \cup {0}, at : 0 .. LastTime]
NoReply == [op |-> "none"]

CacheInit ==
    /\ index = Absent
    /\ caching = FALSE /\ entries = <<>>
    /\ folders = {}
    /\ time = 0
    /\ cached = [key \in Keys |-> 0]
    /\ reply = NoReply

\* The process goes on with these entries, or is gone.
GoesOn(list) == caching' = TRUE /\ entries' = list
CacheEnds == caching' = FALSE /\ entries' = <<>>
HasKey(list, key) == \E i \in DOMAIN list : list[i].key = key
EntryOf(list, key) == list[CHOOSE i \in DOMAIN list : list[i].key = key]
Total(set) == MapThenSumSet(LAMBDA e : e.size, set)

\* A map keeps the place of a key that it has.
Put(list, entry) ==
    IF HasKey(list, entry.key)
    THEN [i \in DOMAIN list |-> IF list[i].key = entry.key THEN entry ELSE list[i]]
    ELSE Append(list, entry)

Without(list, keys) == Picked(list, {i \in DOMAIN list : list[i].key \notin keys})

-----------------------------------------------------------------------------
(* The index *)

\* Mutant: an entry that is loaded counts as cached now, as CacheEntry has it.
LoadAsNew ==
    /\ ~caching
    /\ GoesOn([i \in DOMAIN Contents(index) |-> [Contents(index)[i] EXCEPT !.at = time]])
    /\ reply' = NoReply
    /\ UNCHANGED <<index, folders, time, cached>>

\* OfflineCache, with _load_index.
LoadIndex ==
    /\ ~caching
    /\ GoesOn(Contents(index))
    /\ reply' = NoReply
    /\ UNCHANGED <<index, folders, time, cached>>

CloseCache ==
    /\ caching
    /\ CacheEnds
    /\ reply' = NoReply
    /\ UNCHANGED <<index, folders, time, cached>>

\* _save_index, or the process dies in the middle of it.
SaveIndex(list, told) ==
    \/ GoesOn(list) /\ index' = Whole(list) /\ reply' = told
    \/ CacheEnds /\ index' = Torn /\ reply' = NoReply

-----------------------------------------------------------------------------
(* Resources *)

\* cache_model, cache_plugin: from a file, or without a source, from a
\* directory or from a source that is missing, which all count as size 0.
CacheResource(key, size) ==
    /\ caching
    /\ folders' = folders \cup {key}
    /\ cached' = [cached EXCEPT ![key] = time]
    /\ SaveIndex(Put(entries, [key |-> key, size |-> size, at |-> time]), NoReply)
    /\ UNCHANGED time

Expired(entry, ttl) == ttl > 0 /\ time - entry.at > ttl

\* get: a hit, a miss, or an entry that goes.
Get(key, ttl) ==
    /\ caching
    /\ LET told(hit) == [op |-> "get", key |-> key, ttl |-> ttl, hit |-> hit] IN
       IF HasKey(entries, key)
       THEN IF Expired(EntryOf(entries, key), ttl) \/ key \notin folders
            THEN SaveIndex(Without(entries, {key}), told(FALSE))
            ELSE reply' = told(TRUE) /\ UNCHANGED <<index, caching, entries>>
       ELSE reply' = told(FALSE) /\ UNCHANGED <<index, caching, entries>>
    /\ UNCHANGED <<folders, time, cached>>

\* Behind i in the order of sorted(key=cached_at), which keeps ties in order.
Behind(list, i) == {j \in DOMAIN list : \/ list[j].at > list[i].at
                                        \/ list[j].at = list[i].at /\ j > i}

\* Mutant: the youngest go first.
EvictedYoungest(list, limit) ==
    {list[i].key : i \in {i \in DOMAIN list :
        Total({list[j] : j \in DOMAIN list \ Behind(list, i)}) > limit}}

\* The oldest entries go until the rest is within the limit: an entry goes
\* when it and those behind it are too much.
Evicted(list, limit) ==
    {list[i].key : i \in {i \in DOMAIN list :
        Total({list[j] : j \in {i} \cup Behind(list, i)}) > limit}}

\* cleanup_cache; the directories stay.
CleanupCache(limit) ==
    /\ caching
    /\ Total(ToSet(entries)) > limit
    /\ LET gone == Evicted(entries, limit) IN
       SaveIndex(Without(entries, gone),
            [op |-> "cleanup", limit |-> limit,
             gone |-> {e \in ToSet(entries) : e.key \in gone}])
    /\ UNCHANGED <<folders, time, cached>>

-----------------------------------------------------------------------------
(* What happens outside *)

TimePasses ==
    /\ time < LastTime
    /\ time' = time + 1
    /\ reply' = NoReply
    /\ UNCHANGED <<index, caching, entries, folders, cached>>

\* A directory of the cache is removed.
LoseFolder(key) ==
    /\ key \in folders
    /\ folders' = folders \ {key}
    /\ reply' = NoReply
    /\ UNCHANGED <<index, caching, entries, time, cached>>

CacheNext ==
    \/ LoadIndex \/ CloseCache \/ TimePasses
    \/ \E key \in Keys, size \in Sizes \cup {0} : CacheResource(key, size)
    \/ \E key \in Keys, ttl \in Ttls \cup {DefaultTtl} : Get(key, ttl)
    \/ \E limit \in Limits : CleanupCache(limit)
    \/ \E key \in Keys : LoseFolder(key)

CacheSpec == CacheInit /\ [][CacheNext]_cacheVars

-----------------------------------------------------------------------------
(* Properties *)

\* The variables keep their types, and no key has two entries.
CacheTypeOK ==
    LET Listed(list) == /\ list \in Seq(CacheEntry)
                        /\ \A i, j \in DOMAIN list : list[i].key = list[j].key => i = j
    IN  /\ index.form \in {"absent", "torn", "whole"} /\ Listed(index.data)
        /\ caching \in BOOLEAN /\ Listed(entries)
        /\ folders \in SUBSET Keys
        /\ time \in 0 .. LastTime
        /\ cached \in [Keys -> 0 .. LastTime]

\* A hit is of a resource that somebody cached at most ttl ago, however often
\* processes and their copies of the index came and went (cache.py:95,159).
HitIsFresh ==
    reply.op = "get" /\ reply.hit =>
        /\ reply.ttl > 0 => time - cached[reply.key] <= reply.ttl
        /\ reply.key \in folders

\* A clean-up that ran to its end leaves no more than its limit, has taken
\* nothing younger than what it left, and nothing that it need not take
\* (cache.py:129).
CleanupExact ==
    reply.op = "cleanup" =>
        /\ Total(ToSet(entries)) <= reply.limit
        /\ \A old \in reply.gone, e \in ToSet(entries) : old.at <= e.at
        /\ \A youngest \in reply.gone :
             (\A old \in reply.gone : old.at < youngest.at \/ old = youngest) =>
                 Total(ToSet(entries) \cup {youngest}) > reply.limit
=============================================================================
