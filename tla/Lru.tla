----------------------------------- MODULE Lru -----------------------------------
(***************************************************************************)
(* LruCacheWithStats (util/lru.rs): a bounded map that forgets the entry   *)
(* used least recently, and counts what happens to it; hits, misses and    *)
(* updates are only reported, and left out.  The map itself is the lru     *)
(* crate's; here it is the sequence of its entries, the most recently used *)
(* one first.                                                              *)
(***************************************************************************)
EXTENDS Naturals, Sequences, SequencesExt

NoStats == [inserts |-> 0, evictions |-> 0]

\* new and new_lazy differ only in the memory they reserve.
NewLru(cap) == [cap |-> cap, entries |-> <<>>, stats |-> NoStats]

LruKeys(c) == {c.entries[i].key : i \in DOMAIN c.entries}

LruPlace(c, k) == CHOOSE i \in DOMAIN c.entries : c.entries[i].key = k

LruValue(c, k) == c.entries[LruPlace(c, k)].value

LruFull(c) == Len(c.entries) = c.cap

\* The lru crate: k becomes the most recent entry, and when it is a new one in
\* a full map the last entry goes.
Recent(c, k, v) ==
  LET others == CASE k \in LruKeys(c) -> RemoveAt(c.entries, LruPlace(c, k))
                  [] k \notin LruKeys(c) /\ LruFull(c) -> Front(c.entries)
                  [] OTHER -> c.entries
  IN  << [key |-> k, value |-> v] >> \o others

\* record_insert
Inserted(stats, evicted) ==
  [stats EXCEPT !.inserts = @ + 1, !.evictions = IF evicted THEN @ + 1 ELSE @]

\* The crate's push returns the old value of a known key, too: no insertion.
LruPush(c, k, v) ==
  [c EXCEPT !.entries = Recent(c, k, v),
            !.stats = IF k \in LruKeys(c) THEN @ ELSE Inserted(@, LruFull(c))]

\* load is the value that the closure would load, used on a miss alone; this
\* one looks whether the map is full when the entry is in.
LruGetOrInsertLate(c, k, load) ==
  IF k \in LruKeys(c)
    THEN [c EXCEPT !.entries = Recent(c, k, LruValue(c, k))]
    ELSE [c EXCEPT !.entries = Recent(c, k, load),
                   !.stats = Inserted(@, Len(Recent(c, k, load)) = c.cap)]

\* get_or_insert
LruGetOrInsert(c, k, load) ==
  IF k \in LruKeys(c)
    THEN [c EXCEPT !.entries = Recent(c, k, LruValue(c, k))]
    ELSE [c EXCEPT !.entries = Recent(c, k, load), !.stats = Inserted(@, LruFull(c))]
================================================================================
