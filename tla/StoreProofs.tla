---------------------------- MODULE StoreProofs -----------------------------
(***************************************************************************)
(* What CacheKV and MultiStore promise, for every value of their           *)
(* constants: a cache-wrapped store is a plain store, and the committed    *)
(* stores survive a stop of the process anywhere in a commit.              *)
(***************************************************************************)
EXTENDS CacheKV, MultiStore, TLAPS

-----------------------------------------------------------------------------
(***************************************************************************)
(* A cache-wrapped store is a plain store, for every set of keys and       *)
(* values: each operation is a step of PlainSpec or changes nothing in     *)
(* what is read.                                                           *)
(***************************************************************************)
CacheInv == TypeOK /\ CacheCoherent

Entry(v, deleted, dirty) == [value |-> v, deleted |-> deleted, dirty |-> dirty]

\* An entry is a cValue and so is not the absent one.
LEMMA EntryIsCached ==
    ASSUME NEW v \in Values \cup {nil}, NEW d \in BOOLEAN, NEW e \in BOOLEAN
    PROVE  /\ Entry(v, d, e) \in cValue /\ Entry(v, d, e) # NotCached
           /\ Entry(v, d, e).value = v /\ Entry(v, d, e).deleted = d /\ Entry(v, d, e).dirty = e
  BY NotCachedIsNoEntry DEF cValue, Entry

\* setCacheValue changes one entry.
LEMMA SetsOne ==
    ASSUME NEW k \in Keys, NEW v, NEW d, NEW e, TypeOK, setCacheValue(k, v, d, e)
    PROVE  /\ cache'[k] = Entry(v, d, e)
           /\ \A j \in Keys \ {k} : cache'[j] = cache[j]
           /\ DOMAIN cache' = Keys
  BY DEF TypeOK, setCacheValue, Entry

\* The entry that an operation leaves at k is coherent with the parent's value p.
Good(c, p) ==
    c # NotCached =>
        /\ c \in cValue
        /\ ~c.dirty => c.value = p /\ ~c.deleted
        /\ c.dirty => (c.deleted <=> c.value = nil)

\* A step that puts a coherent entry at one key keeps the invariant.
LEMMA OneEntry ==
    ASSUME CacheInv, NEW k \in Keys, NEW v \in Values \cup {nil}, NEW d \in BOOLEAN, NEW e \in BOOLEAN,
           setCacheValue(k, v, d, e), UNCHANGED parent, Good(Entry(v, d, e), parent[k])
    PROVE  /\ CacheInv'
           /\ [j \in Keys |-> Read(j)]' = [[j \in Keys |-> Read(j)] EXCEPT ![k] = v]
<1>1. /\ cache'[k] = Entry(v, d, e)
      /\ \A j \in Keys \ {k} : cache'[j] = cache[j]
      /\ DOMAIN cache' = Keys
  BY SetsOne DEF CacheInv
<1>2. TypeOK'
  <2>1. \A j \in Keys : cache'[j] \in cValue \cup {NotCached}
    BY <1>1, EntryIsCached DEF CacheInv, TypeOK
  <2>2. cache' = [j \in Keys |-> cache'[j]]
    BY Zenon DEF setCacheValue, CacheInv, TypeOK
  <2> QED
    BY <2>1, <2>2 DEF CacheInv, TypeOK
<1>3. CacheCoherent'
  <2>1. \A j \in Keys : Good(cache'[j], parent[j])
    <3>1. \A j \in Keys : Good(cache[j], parent[j])
      BY DEF CacheInv, CacheCoherent, Good, Cached
    <3> QED
      BY <1>1, <3>1
  <2> QED
    BY <2>1 DEF CacheCoherent, Good, Cached
<1>4. [j \in Keys |-> Read(j)]' = [[j \in Keys |-> Read(j)] EXCEPT ![k] = v]
  <2>1. \A j \in Keys \ {k} : Read(j)' = Read(j)
    BY <1>1 DEF Read, Cached
  <2>2. Read(k)' = v
    BY <1>1, EntryIsCached DEF Read, Cached
  <2> QED
    BY <2>1, <2>2, Zenon
<1> QED
  BY <1>2, <1>3, <1>4 DEF CacheInv

\* Initially nothing is cached.
LEMMA InitGood == Init => CacheInv /\ PlainInit
<1> SUFFICES ASSUME Init PROVE CacheInv /\ PlainInit
  OBVIOUS
<1>1. \A k \in Keys : ~Cached(k)
  BY DEF Init, NewStore, Cached
<1>2. CacheInv
  BY <1>1 DEF CacheInv, TypeOK, CacheCoherent, Init, NewStore
<1>3. [k \in Keys |-> Read(k)] = parent
  BY <1>1 DEF Read, Init
<1> QED
  BY <1>2, <1>3 DEF PlainInit, Init, View

\* Get copies the value that it returns.
LEMMA GetGood ==
    ASSUME CacheInv, NEW k \in Keys, Get(k)
    PROVE  CacheInv' /\ UNCHANGED <<[j \in Keys |-> Read(j)], parent>>
<1>1. parent[k] \in Values \cup {nil} /\ Read(k) = parent[k]
  BY DEF CacheInv, TypeOK, Get, Read
<1>2. Good(Entry(parent[k], FALSE, FALSE), parent[k])
  BY <1>1, EntryIsCached, Zenon DEF Good
<1>3. /\ CacheInv'
      /\ [j \in Keys |-> Read(j)]' = [[j \in Keys |-> Read(j)] EXCEPT ![k] = parent[k]]
  BY <1>1, <1>2, OneEntry, Zenon DEF Get
<1> QED
  BY <1>1, <1>3, Zenon DEF Get

\* Set and Delete are Put steps.
LEMMA SetGood ==
    ASSUME CacheInv, NEW k \in Keys, NEW v \in Values, Set(k, v)
    PROVE  CacheInv' /\ PlainPut(k, v)
<1>1. Good(Entry(v, FALSE, TRUE), parent[k])
  BY EntryIsCached, NilIsNoValue, Zenon DEF Good
<1> QED
  BY <1>1, OneEntry, Zenon DEF Set, PlainPut, View

LEMMA DeleteGood ==
    ASSUME CacheInv, NEW k \in Keys, Delete(k)
    PROVE  CacheInv' /\ PlainPut(k, nil)
<1>1. Good(Entry(nil, TRUE, TRUE), parent[k])
  BY EntryIsCached, Zenon DEF Good
<1> QED
  BY <1>1, OneEntry, Zenon DEF Delete, PlainPut, View

\* What Write leaves in the parent is what was read: entries that are not dirty copy the parent,
\* and a dirty entry without a value is a deletion.
LEMMA WriteGood ==
    ASSUME CacheInv, Write
    PROVE  CacheInv' /\ PlainFlush
<1>1. \A k \in Keys : Flushed(k) = Read(k)
  BY DEF CacheInv, CacheCoherent, Flushed, Read, Cached, cValue
<1>2. \A k \in Keys : Read(k) \in Values \cup {nil}
  BY DEF CacheInv, TypeOK, Read, Cached, CacheCoherent, cValue
<1>3. \A k \in Keys : ~Cached(k)'
  BY DEF Write, Cached
<1>4. parent' = [k \in Keys |-> Read(k)]
  BY <1>1 DEF Write
<1>5. CacheInv'
  BY <1>2, <1>3, <1>4 DEF CacheInv, TypeOK, CacheCoherent, Write
<1>6. [k \in Keys |-> Read(k)]' = [k \in Keys |-> Read(k)]
  BY <1>3, <1>4 DEF Read
<1> QED
  BY <1>4, <1>5, <1>6 DEF PlainFlush, View

\* Sorting touches neither the cache nor the parent.
LEMMA QuietGood ==
    ASSUME CacheInv, UNCHANGED <<parent, cache>>
    PROVE  CacheInv' /\ UNCHANGED <<[j \in Keys |-> Read(j)], parent>>
  BY DEF CacheInv, TypeOK, CacheCoherent, Cached, Read

\* Each step keeps the invariant and is a step of the plain store.
LEMMA StepGood ==
    ASSUME CacheInv, [Next]_vars
    PROVE  CacheInv' /\ [PlainNext]_<<View, parent>>
<1>1. CASE \E k \in Keys : Get(k)
  BY <1>1, GetGood DEF View
<1>2. CASE \E k \in Keys : Delete(k)
  BY <1>2, DeleteGood DEF PlainNext
<1>3. CASE \E k \in Keys, v \in Values : Set(k, v)
  BY <1>3, SetGood DEF PlainNext
<1>4. CASE Write
  BY <1>4, WriteGood DEF PlainNext
<1>5. CASE \E d \in Domains : dirtyItems(d)
  <2>1. UNCHANGED <<parent, cache>>
    BY <1>5 DEF dirtyItems
  <2> QED
    BY <2>1, QuietGood DEF View
<1>6. CASE UNCHANGED vars
  BY <1>6, QuietGood DEF vars, View
<1> QED
  BY <1>1, <1>2, <1>3, <1>4, <1>5, <1>6 DEF Next

\* The flags of the cached entries never disagree (store/cachekv/store.go, setCacheValue and its callers).
THEOREM CacheIsCoherent == Spec => []CacheCoherent
<1>1. CacheInv /\ [Next]_vars => CacheInv'
  BY StepGood
<1>2. CacheInv => CacheCoherent
  BY DEF CacheInv
<1> QED
  BY InitGood, <1>1, <1>2, PTL DEF Spec

\* Whoever works on a cache-wrapped store works on a plain map, and Write hands exactly that map on.
THEOREM CacheIsTransparent == Spec => PlainSpec
<1>1. CacheInv /\ [Next]_vars => CacheInv'
  BY StepGood
<1>2. CacheInv /\ [Next]_vars => [PlainNext]_<<View, parent>>
  BY StepGood
<1> QED
  BY InitGood, <1>1, <1>2, PTL DEF Spec, PlainSpec

---------------------------------------------------------------------------
(***************************************************************************)
(* MultiStore, for any trees, contents and number of blocks and crashes.   *)
(* The inductive invariant relates the disk to the blocks: a tree is at    *)
(* most one version ahead of the record, and has saved what the block of   *)
(* each version left in it; in memory are the contents of the last block   *)
(* that was executed.  It is inductive only when a tree that saves a       *)
(* version keeps the one before, which the record still names.             *)
(***************************************************************************)
\* PruneNothing and PruneSyncable are such options.  PruneEverything is not: a
\* tree has then deleted the last committed version before the record moves on.
Options ==
    /\ numRecent \in Nat /\ storeEvery \in Nat
    /\ numRecent >= 1 \/ storeEvery = 1

\* On disk.
DiskGood ==
    /\ latest \in Nat \ {0}
    /\ chain \in Seq([Trees -> Contents]) /\ Len(chain) \in {latest, latest + 1}
    /\ DOMAIN infos = 1..latest /\ \A v \in 1..latest : infos[v] = chain[v]
    /\ saved = [t \in Trees |-> saved[t]]
    /\ \A t \in Trees :
        /\ DOMAIN saved[t] = Kept(latest) \/ DOMAIN saved[t] = Kept(latest + 1)
        /\ \A v \in DOMAIN saved[t] : v =< Len(chain) /\ saved[t][v] = chain[v][t]

\* In memory, between two blocks and while a block is committed.
NodeGood ==
    /\ node \in [up : {TRUE}, lastCommitID : {latest}, version : [Trees -> Nat], contents : {node.contents},
                 transient : {node.transient}, saving : SUBSET (Trees \cup {Transient}), executed : BOOLEAN]
    /\ Transient \notin node.saving => node.transient = Empty
    /\ ~node.executed => /\ node.saving = {} /\ node.contents = chain[latest]
                         /\ \A t \in Trees : node.version[t] = latest
    /\ node.executed => /\ Len(chain) = latest + 1 /\ node.contents = chain[latest + 1]
                        /\ \A t \in Trees :
                            IF t \in node.saving THEN node.version[t] = latest
                            ELSE node.version[t] = latest + 1 /\ DOMAIN saved[t] = Kept(latest + 1)

StoreInv == DiskGood /\ (node = Down \/ NodeGood)

\* What pruning keeps and deletes when version n + 1 is saved.
LEMMA KeptNext ==
    ASSUME Options, NEW n \in Nat \ {0}
    PROVE  /\ (Kept(n) \cup {n + 1}) \ Released(n + 1) = Kept(n + 1)
           /\ Kept(n + 1) \ Released(n + 1) = Kept(n + 1)
           /\ n \in Kept(n) /\ n \in Kept(n + 1) /\ n + 1 \in Kept(n + 1) /\ n + 1 \notin Kept(n)
           /\ Kept(n) \subseteq 1..n /\ Kept(n + 1) \subseteq 1..(n + 1)
<1> DEFINE M(v) == storeEvery # 0 /\ v % storeEvery = 0
<1>1. \A m \in Nat : Kept(m) = {v \in 1..m : v >= m - numRecent \/ M(v)}
  BY DEF Kept
<1>2. Released(n + 1) = IF numRecent < n /\ ~M(n - numRecent) THEN {n - numRecent} ELSE {}
  BY DEF Released, Options
<1>3. numRecent >= 1 \/ M(n)
  BY DEF Options
<1>4. numRecent \in Nat
  BY DEF Options
<1> HIDE DEF M
<1>5. (Kept(n) \cup {n + 1}) \ Released(n + 1) = Kept(n + 1)
  <2>1. \A v : v \in (Kept(n) \cup {n + 1}) \ Released(n + 1) => v \in Kept(n + 1)
    BY <1>1, <1>2, <1>4
  <2>2. \A v : v \in Kept(n + 1) => v \in (Kept(n) \cup {n + 1}) \ Released(n + 1)
    BY <1>1, <1>2, <1>4
  <2> QED
    BY <2>1, <2>2
<1>6. Kept(n + 1) \ Released(n + 1) = Kept(n + 1)
  BY <1>1, <1>2, <1>4
<1>7. /\ n \in Kept(n) /\ n \in Kept(n + 1) /\ n + 1 \in Kept(n + 1) /\ n + 1 \notin Kept(n)
      /\ Kept(n) \subseteq 1..n /\ Kept(n + 1) \subseteq 1..(n + 1)
  BY <1>1, <1>3, <1>4
<1> QED
  BY <1>5, <1>6, <1>7

\* The first block is committed.
LEMMA StoreInvInit ==
    ASSUME Options, StoreInit
    PROVE  StoreInv
<1>1. PICK block \in [Trees -> Contents] :
        /\ chain = <<block>> /\ saved = [t \in Trees |-> [v \in {1} |-> block[t]]]
        /\ infos = [v \in {1} |-> block] /\ latest = 1 /\ node = Loaded(1, block)
  BY DEF StoreInit
<1>2. Kept(1) = {1}
  BY DEF Kept, Options
<1>3. chain \in Seq([Trees -> Contents]) /\ Len(chain) = 1 /\ chain[1] = block
  BY <1>1
<1>4. DiskGood
  BY <1>1, <1>2, <1>3 DEF DiskGood
<1>5. NodeGood
  <2>1. 1 \in Nat /\ node = Loaded(1, block) /\ chain[latest] = block /\ latest = 1
    BY <1>1, <1>3
  <2>2. /\ node \in [up : {TRUE}, lastCommitID : {latest}, version : [Trees -> Nat], contents : {block},
                     transient : {Empty}, saving : SUBSET (Trees \cup {Transient}), executed : BOOLEAN]
        /\ node.contents = block /\ node.transient = Empty /\ node.saving = {} /\ ~node.executed
        /\ \A t \in Trees : node.version[t] = latest
    BY <2>1 DEF Loaded
  <2> QED
    BY <2>1, <2>2, Zenon DEF NodeGood
<1> QED
  BY <1>4, <1>5 DEF StoreInv

\* A block is executed, for the first time or again.
LEMMA ExecuteKeeps ==
    ASSUME StoreInv, Execute
    PROVE  StoreInv'
<1>1. DiskGood /\ NodeGood
  BY DEF StoreInv, Execute, Idle, Down
<1> DEFINE height == latest + 1
           all == Trees \cup {Transient}
           c == CHOOSE c \in Contents : TRUE
<1>2. node.lastCommitID + 1 = height /\ height \in Nat /\ ~node.executed
  BY <1>1 DEF NodeGood, DiskGood, Execute, Idle
<1>3. /\ IF height <= Len(chain) THEN UNCHANGED chain
         ELSE \E block \in [Trees -> Contents] : chain' = Append(chain, block)
      /\ node' = [node EXCEPT !.contents = chain'[height], !.executed = TRUE, !.transient = c, !.saving = all]
      /\ UNCHANGED <<saved, infos, latest>>
  BY <1>2, Zenon DEF Execute
<1> HIDE DEF all, c
<1>4. /\ chain' \in Seq([Trees -> Contents]) /\ Len(chain') = height
      /\ \A v \in 1..Len(chain) : chain'[v] = chain[v]
  <2>1. CASE height <= Len(chain)
    BY <1>1, <1>3, <2>1 DEF DiskGood
  <2>2. CASE ~(height <= Len(chain))
    <3>1. PICK block \in [Trees -> Contents] : chain' = Append(chain, block)
      BY <1>3, <2>2, Zenon
    <3>2. chain \in Seq([Trees -> Contents]) /\ Len(chain) = latest /\ latest \in Nat
      BY <1>1, <2>2 DEF DiskGood
    <3> QED
      BY <3>1, <3>2
  <2> QED
    BY <2>1, <2>2
<1>5. DiskGood'
  <2>1. \A t \in Trees : \A v \in DOMAIN saved[t] : v \in 1..Len(chain)
    BY <1>1 DEF DiskGood, Kept
  <2>2. latest' = latest /\ saved' = saved /\ infos' = infos /\ 1..latest \subseteq 1..Len(chain)
    BY <1>1, <1>3 DEF DiskGood
  <2>3. \A v \in 1..latest : infos[v] = chain'[v]
    BY <1>1, <1>4, <2>2, Zenon DEF DiskGood
  <2>4. \A t \in Trees : \A v \in DOMAIN saved[t] : v =< Len(chain') /\ saved[t][v] = chain'[v][t]
    <3>1. \A t \in Trees : \A v \in DOMAIN saved[t] : saved[t][v] = chain'[v][t]
      BY <1>1, <1>4, <2>1, Zenon DEF DiskGood
    <3>2. Len(chain) \in Int /\ Len(chain) =< Len(chain')
      BY <1>1, <1>4 DEF DiskGood
    <3> QED
      BY <2>1, <3>1, <3>2, <1>4, <1>2
  <2>5. Kept(latest)' = Kept(latest) /\ Kept(latest + 1)' = Kept(latest + 1)
    BY <2>2 DEF Kept
  <2> HIDE DEF height
  <2>6. Len(chain') \in {latest, latest + 1}
    BY <1>4 DEF height
  <2> QED
    BY <1>1, <1>4, <2>2, <2>3, <2>4, <2>5, <2>6, SMTT(30) DEF DiskGood
<1>6. /\ node'.contents = chain'[height] /\ node'.executed = TRUE /\ node'.saving = all
      /\ node'.version = node.version /\ node'.lastCommitID = latest
      /\ node' \in [up : {TRUE}, lastCommitID : {latest}, version : [Trees -> Nat], contents : {chain'[height]},
                    transient : {c}, saving : {all}, executed : BOOLEAN]
  BY <1>1, <1>3, Zenon DEF NodeGood
<1>7. NodeGood'
  BY <1>1, <1>2, <1>3, <1>4, <1>6, Zenon DEF NodeGood, all
<1> QED
  BY <1>5, <1>7 DEF StoreInv

\* A tree saves the contents of the block, again or for the first time, and
\* deletes the version that it no longer keeps.
LEMMA CommitTreeKeeps ==
    ASSUME Options, Transient \notin Trees, StoreInv, NEW t \in Trees, CommitTree(t)
    PROVE  StoreInv'
<1>1. DiskGood /\ NodeGood /\ t \in node.saving /\ UNCHANGED <<chain, infos, latest>>
  BY DEF StoreInv, CommitTree, Down
<1>2. node.executed /\ node.version[t] = latest /\ latest \in Nat \ {0}
      /\ Len(chain) = latest + 1 /\ node.contents = chain[latest + 1]
  BY <1>1 DEF NodeGood, DiskGood
<1> DEFINE v == latest + 1
           after == SaveVersion(t, v)
           f == [w \in DOMAIN after \ Released(v) |-> after[w]]
<1>3. /\ saved' = [saved EXCEPT ![t] = f]
      /\ node' = [node EXCEPT !.version[t] = v, !.saving = node.saving \ {t}]
  BY <1>2, Zenon DEF CommitTree
<1>4. DOMAIN f = Kept(v) /\ \A w \in DOMAIN f : w =< Len(chain) /\ f[w] = chain[w][t]
  <2>1. CASE DOMAIN saved[t] = Kept(v)
    <3>1. after = saved[t]
      BY <1>2, <2>1, KeptNext, Zenon DEF SaveVersion
    <3> QED
      BY <1>1, <1>2, <2>1, <3>1, KeptNext DEF DiskGood
  <2>2. CASE DOMAIN saved[t] = Kept(latest)
    <3>1. /\ DOMAIN after = Kept(latest) \cup {v}
          /\ \A w \in DOMAIN after : after[w] = IF w = v THEN chain[v][t] ELSE saved[t][w]
      BY <1>2, <2>2, KeptNext, Zenon DEF SaveVersion
    <3>2. DOMAIN f = Kept(v)
      BY <1>2, <3>1, KeptNext, Zenon
    <3>3. \A w \in DOMAIN f : w \in DOMAIN after /\ f[w] = after[w]
      OBVIOUS
    <3> QED
      BY <1>1, <1>2, <2>2, <3>1, <3>2, <3>3 DEF DiskGood
  <2> QED
    BY <1>1, <2>1, <2>2 DEF DiskGood
<1> HIDE DEF f
<1>5. saved' = [u \in Trees |-> IF u = t THEN f ELSE saved[u]]
  BY <1>1, <1>3 DEF DiskGood
<1>6. DiskGood'
  BY <1>1, <1>4, <1>5 DEF DiskGood, Kept
<1>7. /\ node'.contents = node.contents /\ node'.executed = node.executed /\ node'.saving = node.saving \ {t}
      /\ node'.version = [node.version EXCEPT ![t] = v] /\ node'.transient = node.transient
      /\ node' \in [up : {TRUE}, lastCommitID : {latest}, version : [Trees -> Nat], contents : {node.contents},
                    transient : {node.transient}, saving : SUBSET (Trees \cup {Transient}), executed : BOOLEAN]
  <2> HIDE DEF v
  <2>1. v \in Nat
    BY <1>2 DEF v
  <2> DEFINE g == [node.version EXCEPT ![t] = v]
             r == node.saving \ {t}
  <2>2. g \in [Trees -> Nat] /\ r \in SUBSET (Trees \cup {Transient})
    BY <1>1, <2>1 DEF NodeGood
  <2>3. node' = [node EXCEPT !.version = g, !.saving = r]
    BY <1>3, Zenon
  <2> HIDE DEF g, r
  <2>4. /\ node'.contents = node.contents /\ node'.executed = node.executed /\ node'.saving = r
        /\ node'.version = g /\ node'.transient = node.transient
        /\ node' \in [up : {TRUE}, lastCommitID : {latest}, version : [Trees -> Nat], contents : {node.contents},
                      transient : {node.transient}, saving : SUBSET (Trees \cup {Transient}), executed : BOOLEAN]
    BY <1>1, <2>2, <2>3, Zenon DEF NodeGood
  <2> QED
    BY <2>4, Zenon DEF g, r
<1>8. NodeGood'
  <2>1. Kept(latest + 1)' = Kept(latest + 1)
    BY <1>1 DEF Kept
  <2>2. \A u \in Trees : IF u \in node'.saving THEN node'.version[u] = latest
                         ELSE node'.version[u] = latest + 1 /\ DOMAIN saved'[u] = Kept(latest + 1)
    <3> TAKE u \in Trees
    <3>1. CASE u = t
      BY <1>1, <1>4, <1>5, <1>7, <3>1 DEF NodeGood
    <3>2. CASE u # t
      BY <1>1, <1>2, <1>5, <1>7, <3>2 DEF NodeGood
    <3> QED
      BY <3>1, <3>2
  <2>3. Transient \notin node'.saving => node'.transient = Empty
    BY <1>1, <1>7 DEF NodeGood
  <2>4. node' \in [up : {TRUE}, lastCommitID : {latest'}, version : [Trees -> Nat],
                   contents : {node'.contents}, transient : {node'.transient},
                   saving : SUBSET (Trees \cup {Transient}), executed : BOOLEAN]
    BY <1>1, <1>7, Zenon
  <2>5. node'.executed /\ Len(chain') = latest' + 1 /\ node'.contents = chain'[latest' + 1] /\ latest' = latest
    BY <1>1, <1>2, <1>7, Zenon
  <2> QED
    BY <2>1, <2>2, <2>3, <2>4, <2>5, Zenon DEF NodeGood
<1> QED
  BY <1>6, <1>8 DEF StoreInv

\* The transient store starts afresh.
LEMMA CommitTransientKeeps ==
    ASSUME Transient \notin Trees, StoreInv, CommitTransient
    PROVE  StoreInv'
<1>1. DiskGood /\ NodeGood /\ Transient \in node.saving /\ UNCHANGED <<chain, saved, infos, latest>>
  BY DEF StoreInv, CommitTransient, Down
<1>2. DiskGood'
  BY <1>1, Zenon DEF DiskGood, Kept
<1> DEFINE r == node.saving \ {Transient}
<1>3. r \in SUBSET (Trees \cup {Transient}) /\ node.executed /\ \A t \in Trees : t \in r <=> t \in node.saving
  BY <1>1 DEF NodeGood
<1>4. node' = [node EXCEPT !.transient = Empty, !.saving = r]
  BY Zenon DEF CommitTransient
<1> HIDE DEF r
<1>5. /\ node'.contents = node.contents /\ node'.executed = node.executed /\ node'.saving = r
      /\ node'.version = node.version /\ node'.transient = Empty
      /\ node' \in [up : {TRUE}, lastCommitID : {latest'}, version : [Trees -> Nat], contents : {node'.contents},
                    transient : {node'.transient}, saving : SUBSET (Trees \cup {Transient}), executed : BOOLEAN]
  BY <1>1, <1>3, <1>4, Zenon DEF NodeGood
<1>6. Kept(latest + 1)' = Kept(latest + 1)
  BY <1>1 DEF Kept
<1>7. NodeGood'
  BY <1>1, <1>3, <1>5, <1>6, Zenon DEF NodeGood
<1> QED
  BY <1>2, <1>7 DEF StoreInv

\* The record of the version is written when every tree has saved it.
LEMMA WriteCommitInfoKeeps ==
    ASSUME StoreInv, WriteCommitInfo
    PROVE  StoreInv'
<1>0. DiskGood /\ NodeGood
  BY DEF StoreInv, WriteCommitInfo, Down
<1>1. /\ DiskGood /\ NodeGood /\ node.executed /\ node.saving = {} /\ UNCHANGED <<chain, saved>>
      /\ latest' = latest + 1 /\ node.transient = Empty
  BY <1>0, Zenon DEF WriteCommitInfo, NodeGood
<1>2. /\ latest \in Nat \ {0} /\ Len(chain) = latest' /\ node.contents = chain[latest']
      /\ \A t \in Trees : node.version[t] = latest' /\ DOMAIN saved[t] = Kept(latest')
  BY <1>1 DEF DiskGood, NodeGood
<1>3. DOMAIN infos' = 1..latest' /\ \A v \in 1..latest' : infos'[v] = chain[v]
  BY <1>1, <1>2 DEF DiskGood, WriteCommitInfo
<1>4. DiskGood'
  <2>1. latest' \in Nat \ {0} /\ Kept(latest)' = Kept(latest')
    BY <1>1, <1>2 DEF Kept
  <2> QED
    BY <1>1, <1>2, <1>3, <2>1 DEF DiskGood
<1>5. node' = [node EXCEPT !.lastCommitID = latest', !.executed = FALSE]
  BY DEF WriteCommitInfo
<1>6. /\ node'.contents = node.contents /\ node'.executed = FALSE /\ node'.saving = {}
      /\ node'.version = node.version /\ node'.transient = Empty
      /\ node' \in [up : {TRUE}, lastCommitID : {latest'}, version : [Trees -> Nat], contents : {node'.contents},
                    transient : {node'.transient}, saving : SUBSET (Trees \cup {Transient}), executed : BOOLEAN]
  BY <1>1, <1>5, Zenon DEF NodeGood
<1>7. NodeGood'
  BY <1>1, <1>2, <1>6, Zenon DEF NodeGood
<1> QED
  BY <1>4, <1>7 DEF StoreInv

\* The process stops, at any moment.
LEMMA CrashKeeps ==
    ASSUME StoreInv, Crash
    PROVE  StoreInv'
  BY Zenon DEF StoreInv, Crash, DiskGood, Kept, Down

\* The process starts from the version of the record.
LEMMA RestartKeeps ==
    ASSUME StoreInv, Restart
    PROVE  StoreInv'
<1>1. DiskGood /\ Loadable(latest) /\ UNCHANGED <<chain, saved, infos, latest>>
  BY DEF StoreInv, Restart, LoadVersion
<1>2. DiskGood'
  BY <1>1, Zenon DEF DiskGood, Kept
<1> DEFINE c == [t \in Trees |-> saved[t][latest]]
<1>3. c = chain[latest] /\ latest \in Nat
  <2>1. chain[latest] \in [Trees -> Contents] /\ latest \in Nat
    BY <1>1 DEF DiskGood
  <2>2. \A t \in Trees : saved[t][latest] = chain[latest][t]
    BY <1>1 DEF DiskGood, Loadable
  <2> QED
    BY <2>1, <2>2
<1>4. node' = Loaded(latest, c)
  BY Zenon DEF Restart, LoadVersion
<1> HIDE DEF c
<1>5. /\ node' \in [up : {TRUE}, lastCommitID : {latest}, version : [Trees -> Nat], contents : {c},
                    transient : {Empty}, saving : SUBSET (Trees \cup {Transient}), executed : BOOLEAN]
      /\ node'.contents = c /\ node'.transient = Empty /\ node'.saving = {} /\ ~node'.executed
      /\ \A t \in Trees : node'.version[t] = latest
  BY <1>3, <1>4 DEF Loaded
<1>6. NodeGood'
  BY <1>1, <1>3, <1>5, Zenon DEF NodeGood
<1> QED
  BY <1>2, <1>6 DEF StoreInv

\* Every step keeps the invariant.
LEMMA StoreInvStep ==
    ASSUME Options, Transient \notin Trees, StoreInv, [StoreNext]_storeVars
    PROVE  StoreInv'
<1>1. CASE Execute
  BY <1>1, ExecuteKeeps
<1>2. CASE \E t \in Trees : CommitTree(t)
  BY <1>2, CommitTreeKeeps
<1>3. CASE CommitTransient
  BY <1>3, CommitTransientKeeps
<1>4. CASE WriteCommitInfo
  BY <1>4, WriteCommitInfoKeeps
<1>5. CASE Crash
  BY <1>5, CrashKeeps
<1>6. CASE Restart
  BY <1>6, RestartKeeps
<1>7. CASE UNCHANGED storeVars
  BY <1>7, Zenon DEF storeVars, StoreInv, DiskGood, NodeGood, Kept, Down
<1> QED
  BY <1>1, <1>2, <1>3, <1>4, <1>5, <1>6, <1>7 DEF StoreNext

\* The invariant implies what a stop and a start need.
LEMMA StoreInvImplies ==
    ASSUME Options, Transient \notin Trees, StoreInv
    PROVE  RestartPossible /\ ReplayAgrees /\ Aligned /\ PruningExact
<1>1. RestartPossible
  BY KeptNext DEF RestartPossible, Loadable, StoreInv, DiskGood
<1>2. ReplayAgrees
  <2> SUFFICES ASSUME node.up, NEW t \in node.saving \cap Trees, SaveFails(t) PROVE FALSE
    BY DEF ReplayAgrees
  <2>1. DiskGood /\ NodeGood
    BY DEF StoreInv, Down
  <2>2. node.version[t] = latest /\ node.contents = chain[latest + 1] /\ t \in Trees
    BY <2>1 DEF NodeGood
  <2> QED
    BY <2>1, <2>2 DEF SaveFails, DiskGood
<1>3. Aligned
  <2> SUFFICES ASSUME Idle PROVE DiskGood /\ NodeGood /\ ~node.executed
    BY DEF Aligned, NodeGood
  <2> QED
    BY DEF StoreInv, Down, Idle
<1>4. PruningExact
  BY DEF PruningExact, StoreInv, DiskGood
<1> QED
  BY <1>1, <1>2, <1>3, <1>4

\* A value at "/key" is that of its height, a proof leads to the root of its height,
\* and a version that the pruning options keep is found.
LEMMA KeyIsOfHeight ==
    ASSUME Options, StoreInv, Idle, NEW h \in 0..latest, NEW t \in Trees, NEW prove \in BOOLEAN
    PROVE  KeyAnswered(t, h, prove)
<1> DEFINE meant == IF h = 0 THEN latest ELSE h
           a == handleQueryStore(t, "/key", h, prove)
<1>0. DiskGood /\ NodeGood
  BY DEF StoreInv, Idle, Down
<1>1. DiskGood /\ node.lastCommitID = latest
  BY <1>0 DEF NodeGood
<1>2. /\ meant \in 1..latest /\ infos[meant] = chain[meant]
      /\ meant \in DOMAIN saved[t] => saved[t][meant] = chain[meant][t]
      /\ meant \in Kept(latest) \cap Kept(latest + 1) => meant \in DOMAIN saved[t]
  BY <1>1 DEF DiskGood
<1>3. meant = IF h = 0 THEN node.lastCommitID ELSE h
  BY <1>1
<1>4. CASE prove /\ meant <= 1
  <2>1. a = NoAnswer /\ ~a.ok
    BY <1>3, <1>4 DEF handleQueryStore, NoAnswer
  <2>2. meant = 1
    BY <1>2, <1>4
  <2> QED
    BY <2>1, <2>2, <1>4 DEF KeyAnswered
<1>5. CASE prove /\ ~(meant <= 1)
  <2>1. a = IF meant \notin DOMAIN saved[t] THEN NoAnswer ELSE Answer(meant, saved[t][meant], infos[meant])
    BY <1>3, <1>5 DEF handleQueryStore, Query, keyQuery, Answer
  <2> HIDE DEF a, meant
  <2>2. CASE meant \notin DOMAIN saved[t]
    <3>1. ~a.ok
      BY <2>1, <2>2 DEF NoAnswer
    <3> QED
      BY <3>1, <2>2, <1>2 DEF KeyAnswered, a, meant
  <2>3. CASE meant \in DOMAIN saved[t]
    <3>1. a.ok /\ a.height = meant /\ a.value = chain[meant][t] /\ a.root = chain[meant]
      BY <2>1, <2>3, <1>2 DEF Answer
    <3> QED
      BY <3>1 DEF KeyAnswered, a, meant
  <2> QED
    BY <2>2, <2>3
<1>6. CASE ~prove
  <2>1. a = IF meant \notin DOMAIN saved[t] THEN Answer(meant, NoValue, NoProof)
            ELSE Answer(meant, saved[t][meant], NoProof)
    BY <1>3, <1>6 DEF handleQueryStore, Query, keyQuery
  <2> HIDE DEF a, meant
  <2>2. CASE meant \notin DOMAIN saved[t]
    <3>1. a.ok /\ a.height = meant /\ a.value = NoValue
      BY <2>1, <2>2 DEF Answer
    <3> QED
      BY <3>1, <2>2, <1>2, <1>6 DEF KeyAnswered, a, meant
  <2>3. CASE meant \in DOMAIN saved[t]
    <3>1. a.ok /\ a.height = meant /\ a.value = chain[meant][t]
      BY <2>1, <2>3, <1>2 DEF Answer
    <3> QED
      BY <3>1, <1>6 DEF KeyAnswered, a, meant
  <2> QED
    BY <2>2, <2>3
<1> QED
  BY <1>4, <1>5, <1>6

\* At "/subspace" every answer is about the last block.
LEMMA SubspaceIsOfLast ==
    ASSUME StoreInv, Idle, NEW h \in 0..latest, NEW t \in Trees
    PROVE  SubspaceAnswered(t, h)
<1>0. NodeGood
  BY DEF StoreInv, Idle, Down
<1>1. node.lastCommitID = latest /\ node.contents[t] = chain[latest][t]
  BY <1>0 DEF NodeGood, Idle
<1> DEFINE meant == IF h = 0 THEN latest ELSE h
           a == handleQueryStore(t, "/subspace", h, FALSE)
<1>2. a = Answer(meant, node.contents[t], NoProof)
  BY <1>1 DEF handleQueryStore, Query, subspaceQuery
<1> HIDE DEF a, meant
<1>3. a.ok /\ a.height = meant /\ a.value = chain[latest][t]
  BY <1>1, <1>2 DEF Answer
<1> QED
  BY <1>3 DEF SubspaceAnswered, a, meant

\* A custom query sees all trees after the block of its height.
LEMMA CustomIsOfHeight ==
    ASSUME Options, StoreInv, Idle, NEW h \in 0..latest
    PROVE  CustomAnswered(h)
<1> DEFINE meant == IF h = 0 THEN latest ELSE h
           a == handleQueryCustom(h, FALSE)
<1>0. DiskGood /\ NodeGood
  BY DEF StoreInv, Idle, Down
<1>1. DiskGood /\ node.lastCommitID = latest
  BY <1>0 DEF NodeGood
<1>2. /\ meant \in 1..latest /\ chain[meant] \in [Trees -> Contents]
      /\ \A t \in Trees : meant \in DOMAIN saved[t] => saved[t][meant] = chain[meant][t]
  BY <1>1 DEF DiskGood
<1>3. meant = latest => \A t \in Trees : meant \in DOMAIN saved[t]
  BY <1>1, KeptNext DEF DiskGood
<1>4. a = IF \A t \in Trees : meant \in DOMAIN saved[t]
          THEN Answer(meant, [t \in Trees |-> saved[t][meant]], NoProof) ELSE NoAnswer
  BY <1>1, Zenon DEF handleQueryCustom, CacheMultiStoreWithVersion
<1> HIDE DEF a, meant
<1>5. (\A t \in Trees : meant \in DOMAIN saved[t]) => [t \in Trees |-> saved[t][meant]] = chain[meant]
  BY <1>2
<1>6. a.ok => a.height = meant /\ a.value = chain[meant]
  BY <1>4, <1>5 DEF Answer, NoAnswer
<1>7. meant = latest => a.ok
  BY <1>3, <1>4 DEF Answer
<1> QED
  BY <1>6, <1>7 DEF CustomAnswered, a, meant

\* The invariant implies what is said of answers.
LEMMA StoreInvAnswers ==
    ASSUME Options, StoreInv
    PROVE  QueriesOfHeight
<1> SUFFICES ASSUME Idle, NEW h \in 0..latest
             PROVE  /\ \A t \in Trees : SubspaceAnswered(t, h) /\ \A prove \in BOOLEAN : KeyAnswered(t, h, prove)
                    /\ CustomAnswered(h)
  BY Zenon DEF QueriesOfHeight
<1> QED
  BY KeyIsOfHeight, SubspaceIsOfLast, CustomIsOfHeight, Zenon

\* However Commit, stops of the process and blocks executed again interleave,
\* the version of the record can be loaded, no tree meets other contents for a
\* version it has, the stores agree between two blocks, and the trees keep the
\* versions that the pruning options name (rootmulti Commit and LoadVersion).
THEOREM StoreRecovers ==
    ASSUME Options, Transient \notin Trees
    PROVE  StoreSpec => [](RestartPossible /\ ReplayAgrees /\ Aligned /\ PruningExact)
<1>1. StoreInit => StoreInv
  BY StoreInvInit
<1>2. StoreInv /\ [StoreNext]_storeVars => StoreInv'
  BY StoreInvStep
<1>3. StoreInv => RestartPossible /\ ReplayAgrees /\ Aligned /\ PruningExact
  BY StoreInvImplies
<1> QED
  BY <1>1, <1>2, <1>3, PTL DEF StoreSpec

\* Between two blocks, for all pruning options and after all crashes: a value at
\* "/key" is that of the height that was asked for, a proof leads to the root of
\* that height, a version that is kept is found, and only without a proof may a
\* pruned one be answered without a value; a custom query sees all trees of its
\* height, and of the last height always; "/subspace" is always about the last
\* block, whatever height it names (handleQueryStore, iavl Store.Query,
\* handleQueryCustom, CacheMultiStoreWithVersion).
THEOREM AnswersAreOfHeight ==
    ASSUME Options, Transient \notin Trees
    PROVE  StoreSpec => []QueriesOfHeight
<1>1. StoreInit => StoreInv
  BY StoreInvInit
<1>2. StoreInv /\ [StoreNext]_storeVars => StoreInv'
  BY StoreInvStep
<1>3. StoreInv => QueriesOfHeight
  BY StoreInvAnswers
<1> QED
  BY <1>1, <1>2, <1>3, PTL DEF StoreSpec

=============================================================================
