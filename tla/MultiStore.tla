----------------------------- MODULE MultiStore -----------------------------
(***************************************************************************)
(* store/rootmulti and store/iavl: the multi-store of a node, which saves  *)
(* the state after every block as one version of each of its trees, keeps  *)
(* some of the old versions, and answers queries about them.               *)
(*                                                                         *)
(* Commit saves the trees one after the other, in the order in which Go    *)
(* happens to walk a map, and only then the record of the version          *)
(* (commitInfo) and its number, in one batch.  The node can stop between   *)
(* any two of these writes.  When it starts again it loads the version of  *)
(* the record, and consensus hands it the blocks after that version once   *)
(* more.                                                                   *)
(*                                                                         *)
(* A tree is abstracted to one value, the contents that it has after a     *)
(* block; the value stands for its hash as well.  The trees are those of   *)
(* package iavl, an external library: saving a version that exists is      *)
(* accepted when the contents are the same and an error otherwise, and     *)
(* deleting one that does not exist changes nothing.                       *)
(*                                                                         *)
(* The node is observed from its first committed block on: what the        *)
(* library loads for version 0 is not visible in this repository.          *)
(***************************************************************************)
EXTENDS Integers, FiniteSets, Sequences

CONSTANTS Trees,         \* the IAVL stores
          Transient,     \* the transient store
          Contents,      \* contents that a block can leave in a tree
          Empty,
          numRecent,     \* pruning: how many versions before the last one are kept
          storeEvery     \* pruning: the distance between the versions that are kept for good, or 0

VARIABLES
    chain,     \* the blocks, each with the contents it leaves in the trees (consensus)
    saved,     \* on disk: the versions of each tree
    infos,     \* on disk: the commitInfo of each version
    latest,    \* on disk: the number of the latest version
    node       \* in memory, lost in a crash

storeVars == <<chain, saved, infos, latest, node>>

Down == [up |-> FALSE]

\* The node after LoadVersion, or after Commit: nothing is left to save.
Loaded(version, contents) ==
    [up |-> TRUE, lastCommitID |-> version, version |-> [t \in Trees |-> version],
     contents |-> contents, transient |-> Empty, saving |-> {}, executed |-> FALSE]

StoreInit ==
    \E block \in [Trees -> Contents] :
        /\ chain = <<block>>
        /\ saved = [t \in Trees |-> [v \in {1} |-> block[t]]]
        /\ infos = [v \in {1} |-> block]
        /\ latest = 1
        /\ node = Loaded(1, block)

Idle == node.up /\ ~node.executed

\* BeginBlock to the Write of the block's cache: the next block, either a new
\* one or one that the node had executed before it stopped.
Execute ==
    /\ Idle
    /\ LET height == node.lastCommitID + 1
       IN  /\ IF height <= Len(chain) THEN UNCHANGED chain
              ELSE \E block \in [Trees -> Contents] : chain' = Append(chain, block)
           /\ node' = [node EXCEPT !.contents = chain'[height], !.executed = TRUE,
                                   !.transient = CHOOSE c \in Contents : TRUE,
                                   !.saving = Trees \cup {Transient}]
    /\ UNCHANGED <<saved, infos, latest>>

\* The version of a tree that is deleted when it saves a version.
Released(version) ==
    LET previous == version - 1
        toRelease == previous - numRecent
    IN  IF numRecent < previous /\ (storeEvery = 0 \/ toRelease % storeEvery # 0)
        THEN {toRelease} ELSE {}

\* SaveVersion of the library.
SaveVersion(t, v) ==
    IF v \in DOMAIN saved[t] THEN saved[t]
    ELSE [w \in DOMAIN saved[t] \cup {v} |-> IF w = v THEN node.contents[t] ELSE saved[t][w]]

\* Saving would panic: the version exists with other contents.
SaveFails(t) ==
    LET v == node.version[t] + 1
    IN  v \in DOMAIN saved[t] /\ saved[t][v] # node.contents[t]

\* Store.Commit of one tree, called by commitStores.
CommitTree(t) ==
    LET v == node.version[t] + 1
        after == SaveVersion(t, v)
    IN  /\ node.up
        /\ t \in node.saving
        /\ ~SaveFails(t)
        /\ saved' = [saved EXCEPT ![t] = [w \in DOMAIN after \ Released(v) |-> after[w]]]
        /\ node' = [node EXCEPT !.version[t] = v, !.saving = @ \ {t}]
        /\ UNCHANGED <<chain, infos, latest>>

\* Commit of the transient store: it starts afresh.
CommitTransient ==
    /\ node.up
    /\ Transient \in node.saving
    /\ node' = [node EXCEPT !.transient = Empty, !.saving = @ \ {Transient}]
    /\ UNCHANGED <<chain, saved, infos, latest>>

\* The end of rootmulti's Commit: the batch with the record and the number.
WriteCommitInfo ==
    /\ node.up
    /\ node.executed
    /\ node.saving = {}
    /\ latest' = node.lastCommitID + 1
    /\ infos' = [v \in DOMAIN infos \cup {latest'} |-> IF v = latest' THEN node.contents ELSE infos[v]]
    /\ node' = [node EXCEPT !.lastCommitID = latest', !.executed = FALSE]
    /\ UNCHANGED <<chain, saved>>

Crash == node.up /\ node' = Down /\ UNCHANGED <<chain, saved, infos, latest>>

\* The trees can be loaded at version v.
Loadable(v) == v \in DOMAIN infos /\ \A t \in Trees : v \in DOMAIN saved[t]

\* A slip in LoadVersion: every tree is loaded at its own last version.
LoadVersionLast(ver) ==
    LET last(t) == CHOOSE v \in DOMAIN saved[t] : \A w \in DOMAIN saved[t] : w <= v
    IN  /\ Loadable(ver)
        /\ node' = [Loaded(ver, [t \in Trees |-> saved[t][last(t)]])
                      EXCEPT !.version = [t \in Trees |-> last(t)]]

\* LoadVersion; with an error the process ends.
LoadVersion(ver) ==
    /\ Loadable(ver)
    /\ node' = Loaded(ver, [t \in Trees |-> saved[t][ver]])

\* LoadLatestVersion, when the process starts.
Restart == ~node.up /\ LoadVersion(latest) /\ UNCHANGED <<chain, saved, infos, latest>>

StoreNext ==
    \/ Execute \/ (\E t \in Trees : CommitTree(t)) \/ CommitTransient \/ WriteCommitInfo
    \/ Crash \/ Restart

StoreSpec == StoreInit /\ [][StoreNext]_storeVars


---------------------------------------------------------------------------
(* Queries, answered between two blocks *)

NoAnswer == [ok |-> FALSE]

\* An answer with code 0: the height it names, its value, and the root that its
\* proof leads to.
Answer(height, value, root) == [ok |-> TRUE, height |-> height, value |-> value, root |-> root]
NoValue == "no value"
NoProof == "no proof"

\* Store.Query of a tree at "/key".  A version that is gone is no error, but an
\* answer without a value.
keyQuery(t, height, prove) ==
    IF height \notin DOMAIN saved[t] THEN Answer(height, NoValue, NoProof)
    ELSE Answer(height, saved[t][height], IF prove THEN saved[t][height] ELSE NoProof)

\* Store.Query of a tree at "/subspace": an iterator over the tree as it is,
\* whatever the height.
subspaceQuery(t, height) == Answer(height, node.contents[t], NoProof)

\* Query of rootmulti: where a proof is asked for at "/key", an answer without one
\* is refused, and the infos of its height are added to it, whose root is what the
\* client compares with the header.
Query(t, path, height, prove) ==
    LET res == IF path = "/key" THEN keyQuery(t, height, prove) ELSE subspaceQuery(t, height)
    IN  IF ~prove \/ path # "/key" THEN res
        ELSE IF height \notin DOMAIN saved[t] THEN NoAnswer ELSE Answer(height, res.value, infos[height])

\* handleQueryStore: without a height the last one is meant, and there is no
\* proof of the first block.
handleQueryStore(t, path, height, prove) ==
    LET h == IF height = 0 THEN node.lastCommitID ELSE height
    IN  IF h <= 1 /\ prove THEN NoAnswer ELSE Query(t, path, h, prove)

\* CacheMultiStoreWithVersion: all trees at one version, or an error.
CacheMultiStoreWithVersion(version) ==
    IF \A t \in Trees : version \in DOMAIN saved[t]
    THEN Answer(version, [t \in Trees |-> saved[t][version]], NoProof)
    ELSE NoAnswer

\* handleQueryCustom: the queriers run on the stores of that height.
handleQueryCustom(height, prove) ==
    LET h == IF height = 0 THEN node.lastCommitID ELSE height
    IN  IF h <= 1 /\ prove THEN NoAnswer ELSE CacheMultiStoreWithVersion(h)

---------------------------------------------------------------------------
(* Properties *)

\* However far Commit has come when the process stops, LoadLatestVersion finds
\* the version that the record names in every tree.
RestartPossible == Loadable(latest)

\* A block that is executed again saves again what was saved before the stop:
\* SaveVersion never meets other contents (iavl/store.go:106 would panic).
ReplayAgrees == node.up => \A t \in node.saving \cap Trees : ~SaveFails(t)

\* Between two blocks all trees are at the committed version and the transient
\* store is empty, whatever crashes came before.
Aligned ==
    Idle => /\ node.lastCommitID = latest
            /\ node.transient = Empty
            /\ \A t \in Trees : node.version[t] = latest /\ node.contents[t] = chain[latest][t]

\* The versions that the pruning options name when the last one is `last'.
Kept(last) == {v \in 1..last : v >= last - numRecent \/ (storeEvery # 0 /\ v % storeEvery = 0)}

\* A tree whose last saved version is v, and at most one ahead of the record, has
\* kept the versions that the pruning options name, and no others.
PruningExact == \A t \in Trees : \E last \in {latest, latest + 1} : DOMAIN saved[t] = Kept(last)

\* A value that is returned for a height at "/key" is that of the state after the
\* block of that height, and so is the proof that was asked for; without a proof
\* the value may be missing, but only if the pruning options do not keep the
\* version, whether or not a commit was cut short.
KeyAnswered(t, h, prove) ==
    LET a == handleQueryStore(t, "/key", h, prove)
        meant == IF h = 0 THEN latest ELSE h
    IN  /\ a.ok => /\ a.height = meant
                   /\ a.value # NoValue => a.value = chain[meant][t]
                   /\ prove => a.value = chain[meant][t] /\ a.root = chain[meant]
        /\ meant \in Kept(latest) \cap Kept(latest + 1) /\ ~(prove /\ meant = 1)
           => a.ok /\ a.value = chain[meant][t]

\* A custom query is answered with the state after the block of its height, and
\* always if it is about the last one.
CustomAnswered(h) ==
    LET a == handleQueryCustom(h, FALSE)
        meant == IF h = 0 THEN latest ELSE h
    IN  /\ a.ok => a.height = meant /\ a.value = chain[meant]
        /\ meant = latest => a.ok

\* At "/subspace" the answer names the height that was asked for, yet it is always
\* about the state after the last block.
SubspaceAnswered(t, h) ==
    LET a == handleQueryStore(t, "/subspace", h, FALSE)
    IN  a.ok /\ a.height = (IF h = 0 THEN latest ELSE h) /\ a.value = chain[latest][t]

\* Between two blocks queries are answered as stated above, whatever crashes and
\* blocks executed again came before.
QueriesOfHeight ==
    Idle => \A h \in 0..latest :
        /\ \A t \in Trees : SubspaceAnswered(t, h) /\ \A prove \in BOOLEAN : KeyAnswered(t, h, prove)
        /\ CustomAnswered(h)

=============================================================================
