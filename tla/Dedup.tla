------------------------------- MODULE Dedup --------------------------------
(***************************************************************************)
(* The cache of recently seen payloads (crates/enlace/src/dedup.rs), an    *)
(* LruCache of digests: a sequence, least recently observed first.         *)
(***************************************************************************)
EXTENDS Integers, Sequences, Functions

\* LruCache::put makes the digest the most recent entry, and the least recent one
\* leaves a full cache.  Capacity 0 keeps nothing and finds nothing.
Observe(cache, capacity, digest) ==
    LET at == CHOOSE i \in DOMAIN cache : cache[i] = digest
        kept == IF digest \in Range(cache)
                THEN SubSeq(cache, 1, at - 1) \o SubSeq(cache, at + 1, Len(cache))
                ELSE cache
        d == Append(kept, digest)
    IN  IF Len(d) > capacity THEN Tail(d) ELSE d

=============================================================================
