-------------------------------- MODULE KvMap --------------------------------
(***************************************************************************)
(* What the index promises to its callers: a map from keys to values.      *)
(* kvspaceShmSet changes the value of its key, or fails and changes        *)
(* nothing; kvspaceShmDel removes its key; no other key is ever touched.   *)
(***************************************************************************)
CONSTANTS Keys, Values, None

VARIABLE map

Init == map = [k \in Keys |-> None]

OthersUnchanged(k) == \A j \in Keys \ {k} : map'[j] = map[j]

kvspaceShmSet(k) == map'[k] \in Values \ {map[k]} /\ OthersUnchanged(k)

kvspaceShmDel(k) == map[k] # None /\ map'[k] = None /\ OthersUnchanged(k)

Next == \E k \in Keys : kvspaceShmSet(k) \/ kvspaceShmDel(k)

Spec == Init /\ [][Next]_map
==============================================================================
