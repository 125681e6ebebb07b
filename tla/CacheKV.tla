------------------------------ MODULE CacheKV -------------------------------
(***************************************************************************)
(* store/cachekv: a store that keeps what is read and written in memory    *)
(* and hands the writes to its parent only in Write.  Every transaction,   *)
(* every message of it and every block works on such a store.              *)
(*                                                                         *)
(* Next to the cache there are two structures for iteration: the keys      *)
(* written since they were last sorted (unsortedCache) and the list of     *)
(* written pairs (sortedCache).  An iterator moves the keys of its domain  *)
(* from the one to the other and then walks the list.                      *)
(*                                                                         *)
(* Each operation runs under the mutex of the store and is one action.     *)
(***************************************************************************)
EXTENDS Naturals, SequencesExt

CONSTANTS Keys,      \* the keys, numbered in the order of their bytes
          Values,    \* values other than nil
          nil,
          NotCached, \* what the map holds for an absent key
          NoIterator

ASSUME KeysAreNumbers == Keys \subseteq Nat
ASSUME NilIsNoValue == nil \notin Values

VARIABLES parent, cache, unsortedCache, sortedCache

vars == <<parent, cache, unsortedCache, sortedCache>>

cValue == [value : Values \cup {nil}, deleted : BOOLEAN, dirty : BOOLEAN]

ASSUME NotCachedIsNoEntry == NotCached \notin cValue

NewStore ==
    /\ cache = [k \in Keys |-> NotCached]
    /\ unsortedCache = {}
    /\ sortedCache = <<>>

Init == parent \in [Keys -> Values \cup {nil}] /\ NewStore

Cached(k) == cache[k] # NotCached

\* The value that Get returns.
Read(k) == IF Cached(k) THEN cache[k].value ELSE parent[k]

setCacheValue(k, value, deleted, dirty) ==
    /\ cache' = [cache EXCEPT ![k] = [value |-> value, deleted |-> deleted, dirty |-> dirty]]
    /\ unsortedCache' = IF dirty THEN unsortedCache \cup {k} ELSE unsortedCache

\* Has is Get with its value compared to nil.
Get(k) ==
    /\ ~Cached(k)
    /\ setCacheValue(k, parent[k], FALSE, FALSE)
    /\ UNCHANGED <<parent, sortedCache>>

Set(k, v) == setCacheValue(k, v, FALSE, TRUE) /\ UNCHANGED <<parent, sortedCache>>

Delete(k) == setCacheValue(k, nil, TRUE, TRUE) /\ UNCHANGED <<parent, sortedCache>>

\* A slip in Flushed: a key with a nil value is skipped before its deletion is seen.
FlushedNoDelete(k) ==
    IF ~Cached(k) \/ ~cache[k].dirty \/ cache[k].value = nil THEN parent[k] ELSE cache[k].value

\* What Write leaves in the parent at k.  The code goes through the dirty keys
\* in the order of their bytes; they are different keys.
Flushed(k) ==
    IF ~Cached(k) \/ ~cache[k].dirty THEN parent[k]
    ELSE IF cache[k].deleted THEN nil
    ELSE IF cache[k].value = nil THEN parent[k] ELSE cache[k].value

Write ==
    /\ parent' = [k \in Keys |-> Flushed(k)]
    /\ cache' = [k \in Keys |-> NotCached]
    /\ unsortedCache' = {}
    /\ sortedCache' = <<>>

---------------------------------------------------------------------------
(* The sorted list *)

\* The domains of iterators: the keys from start on, up to end if one is given.
Domains ==
    LET From(start) == {k \in Keys : start <= k}
    IN  {From(start) : start \in Keys} \cup {From(start) \ From(end) : start, end \in Keys}

Less(p, q) == p.key < q.key

\* One item goes in front of the first greater one, or takes the place of its equal.
InsertItem(list, item) ==
    SelectSeq(list, LAMBDA p : Less(p, item)) \o <<item>> \o SelectSeq(list, LAMBDA p : Less(item, p))

\* The unsorted keys of the domain, as sorted pairs.
UnsortedItems(d) ==
    SetToSortSeq({[key |-> k, value |-> cache[k].value] : k \in unsortedCache \cap d}, Less)

\* The keys of domain d move from unsortedCache to sortedCache.
dirtyItems(d) ==
    /\ unsortedCache' = unsortedCache \ d
    /\ sortedCache' = FoldLeft(InsertItem, sortedCache, UnsortedItems(d))
    /\ UNCHANGED <<parent, cache>>

Next ==
    \/ \E k \in Keys : Get(k) \/ Delete(k) \/ \E v \in Values : Set(k, v)
    \/ Write
    \/ \E d \in Domains : dirtyItems(d)

Spec == Init /\ [][Next]_vars

---------------------------------------------------------------------------
(***************************************************************************)
(* Iterators: cacheMergeIterator merges the items of the parent with those *)
(* of the cache, and memIterator walks a copy of the sorted list.  The     *)
(* user of an iterator goes on reading and writing the store while it is   *)
(* open; Write is not called then, and so the parent, and with it the      *)
(* iterator of the parent, stays as it was.                                *)
(***************************************************************************)
VARIABLE iter    \* the open iterator: the items left in parent and cache, in the order of the walk

iterVars == <<vars, iter>>

InDirection(s, ascending) == IF ascending THEN s ELSE Reverse(s)

\* The pairs with keys in d of a map that is nil at the absent keys, in ascending order.
Items(map, d) == SetToSortSeq({[key |-> k, value |-> map[k]] : k \in {k \in d : map[k] # nil}}, Less)

\* The first run of items of the list whose keys are in d.
newMemIterator(list, d) ==
    LET inside == {i \in 1..Len(list) : list[i].key \in d}
        first  == CHOOSE i \in inside : \A j \in inside : i <= j
        run    == {i \in inside : \A j \in first..i : j \in inside}
    IN  IF inside = {} THEN <<>> ELSE SubSeq(list, first, first + Cardinality(run) - 1)

\* Whether key a comes before key b.
Before(it, a, b) == IF it.ascending THEN a < b ELSE b < a

\* Drops the deletions at the front of the cache, up to a key (unless limited is FALSE).
skipCacheDeletes(it, limited, until) ==
    LET Skipped(i) == it.cache[i].value = nil /\ (~limited \/ Before(it, it.cache[i].key, until))
        kept == {i \in 1 .. Len(it.cache) + 1 : \A j \in 1 .. i - 1 : Skipped(j)}
    IN  [it EXCEPT !.cache = SubSeq(@, CHOOSE i \in kept : \A j \in kept : j <= i, Len(@))]

\* One round of the loop of skipUntilExistsOrInvalid: it changes nothing once the
\* current item exists or there is none.
skipOnce(it) ==
    IF it.parent = <<>> THEN skipCacheDeletes(it, FALSE, 0)
    ELSE IF it.cache = <<>> \/ Head(it.cache).value # nil THEN it
    ELSE LET keyP == Head(it.parent).key
             keyC == Head(it.cache).key
         IN  CASE Before(it, keyP, keyC) -> it
               [] keyP = keyC -> [it EXCEPT !.parent = Tail(@), !.cache = Tail(@)]
               [] OTHER -> skipCacheDeletes(it, TRUE, keyP)

\* Goes on until the current item exists or there is none; every round but the last drops an item.
skipUntilExistsOrInvalid(it) ==
    LET Round[n \in Nat] == IF n = 0 THEN it ELSE skipOnce(Round[n - 1])
    IN  Round[Len(it.cache) + 1]

Valid(it) == LET s == skipUntilExistsOrInvalid(it) IN s.parent # <<>> \/ s.cache # <<>>

\* A slip in AtParent: at equal keys only the item of the cache is passed over.
ParentAlone(s) ==
    s.parent # <<>> /\ (s.cache = <<>> \/ Before(s, Head(s.parent).key, Head(s.cache).key))

\* Whether the current item of a valid iterator is the one of the parent, or of the cache; at equal
\* keys the parent is passed over together with the cache.
AtParent(s) ==
    s.parent # <<>> /\ (s.cache = <<>> \/ ~Before(s, Head(s.cache).key, Head(s.parent).key))
AtCache(s) ==
    s.cache # <<>> /\ (s.parent = <<>> \/ ~Before(s, Head(s.parent).key, Head(s.cache).key))

\* Key and Value: at equal keys the value of the cache.
Current(s) == IF AtCache(s) THEN Head(s.cache) ELSE Head(s.parent)

---------------------------------------------------------------------------

IterInit == Init /\ iter = NoIterator

\* Iterator and ReverseIterator.  The field due is not in the code: what the store holds at this moment.
Open(d, ascending) ==
    /\ iter = NoIterator
    /\ dirtyItems(d)
    /\ iter' = [parent |-> InDirection(Items(parent, d), ascending),
                cache |-> InDirection(newMemIterator(sortedCache', d), ascending),
                ascending |-> ascending, out |-> <<>>,
                due |-> InDirection(Items([k \in Keys |-> Read(k)], d), ascending)]

\* The user reads the current item and calls Next.
NextItem ==
    /\ iter # NoIterator
    /\ Valid(iter)
    /\ LET s == skipUntilExistsOrInvalid(iter)
       IN  iter' = [s EXCEPT !.out = Append(@, Current(s)),
                             !.parent = IF AtParent(s) THEN Tail(@) ELSE @,
                             !.cache = IF AtCache(s) THEN Tail(@) ELSE @]
    /\ UNCHANGED vars

Close == iter # NoIterator /\ iter' = NoIterator /\ UNCHANGED vars

\* Reads and writes with the iterator open; another iterator may sort the list.
Access ==
    /\ \/ \E k \in Keys : Get(k) \/ Delete(k) \/ \E v \in Values : Set(k, v)
       \/ \E d \in Domains : dirtyItems(d)
    /\ UNCHANGED iter

Flush == iter = NoIterator /\ Write /\ UNCHANGED iter

IterNext == (\E d \in Domains, a \in BOOLEAN : Open(d, a)) \/ NextItem \/ Close \/ Access \/ Flush

IterSpec == IterInit /\ [][IterNext]_iterVars

---------------------------------------------------------------------------
(* Properties *)

\* An entry that is not dirty is a copy of the parent's, a deleted one is nil and dirty,
\* and every other dirty one has a value: the three flags of cValue (Get, Set, Delete) never disagree.
CacheCoherent ==
    \A k \in Keys : Cached(k) =>
        /\ cache[k] \in cValue
        /\ ~cache[k].dirty => cache[k].value = parent[k] /\ ~cache[k].deleted
        /\ cache[k].dirty => (cache[k].deleted <=> cache[k].value = nil)

TypeOK == parent \in [Keys -> Values \cup {nil}] /\ cache \in [Keys -> cValue \cup {NotCached}]

View == [k \in Keys |-> Read(k)]

(***************************************************************************)
(* What a user of a cache-wrapped store relies on: one map from keys to    *)
(* values (View), over the map beneath it (parent), which changes in no    *)
(* other way than by becoming equal to the view.                           *)
(***************************************************************************)
PlainInit == parent \in [Keys -> Values \cup {nil}] /\ View = parent

PlainPut(k, v) == View' = [View EXCEPT ![k] = v] /\ UNCHANGED parent

PlainFlush == parent' = View /\ UNCHANGED View

PlainNext == (\E k \in Keys, v \in Values \cup {nil} : PlainPut(k, v)) \/ PlainFlush

\* Get, Set and Delete behave as on one map and Write makes the parent that map, whatever
\* was cached and sorted before.
PlainSpec == PlainInit /\ [][PlainNext]_<<View, parent>>

\* An iterator returns what the store held when it was opened, in order, without repetition and
\* without the deleted keys, whatever is read, written or sorted before it is at its end.
SnapshotIteration ==
    iter # NoIterator =>
        /\ IsPrefix(iter.out, iter.due)
        /\ ~Valid(iter) => iter.out = iter.due

=============================================================================
