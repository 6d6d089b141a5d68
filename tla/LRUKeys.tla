-------------------------------- MODULE LRUKeys --------------------------------
(***************************************************************************)
(* The key list of one limiter-pool shard (core/lru.go), as pure           *)
(* operators.  The code keeps a doubly linked list and a map from keys to  *)
(* its elements; the map only speeds up lookup, so a sequence without      *)
(* repetitions, most recently used key first, is the whole state.          *)
(***************************************************************************)
EXTENDS Naturals, SequencesExt

\* Drop a key, wherever it is; a key that is not listed leaves the list alone.
LruRemove(list, key) == RemoveFirst(list, key)

\* Make a key the most recently used one, inserting it when it is new.
\* Add and Touch differ only in which of the two cases they try first.
LruAdd(list, key) == <<key>> \o RemoveFirst(list, key)

\* EvictIfNeeded pops keys off the back until at most max are left:
\* what stays, and what it returns.
LruKept(list, max) ==
    IF Len(list) <= max THEN list ELSE SubSeq(list, 1, max)

LruEvicted(list, max) ==
    IF Len(list) <= max THEN {} ELSE {list[i] : i \in max + 1 .. Len(list)}

================================================================================
