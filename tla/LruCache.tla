-------------------------------- MODULE LruCache --------------------------------
(***************************************************************************)
(* A cache with a capacity that forgets what was used longest ago: the id  *)
(* cache of the Kafka sink and the parsed schemas of the encoders are one  *)
(* each.  held: what is cached; order: its keys, the oldest first.         *)
(***************************************************************************)
EXTENDS Naturals, Sequences

EmptyCache == [held |-> <<>>, order |-> <<>>]

\* get, touch: a key that was used is the newest.
Touch(cache, key) ==
    [cache EXCEPT !.order = Append(SelectSeq(cache.order, LAMBDA k : k # key), key)]

\* insert of a key that is not cached: when the cache is full the oldest one goes.
Put(cache, key, value, capacity) ==
    LET full  == Len(cache.order) = capacity
        kept  == IF full THEN DOMAIN cache.held \ {Head(cache.order)} ELSE DOMAIN cache.held
    IN  [held  |-> [k \in kept \cup {key} |-> IF k = key THEN value ELSE cache.held[k]],
         order |-> Append(IF full THEN Tail(cache.order) ELSE cache.order, key)]
=============================================================================
