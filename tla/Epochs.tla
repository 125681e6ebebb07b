------------------------------- MODULE Epochs -------------------------------
(***************************************************************************)
(* The key node epochs of x/staking (keeper/epoch.go) and the proposal     *)
(* handler that starts a new one.  Epoch i is epochs[i].  Governance       *)
(* executes a passed proposal in the end blocker of block `height'; the    *)
(* new epoch is in force from the next block.                              *)
(***************************************************************************)
EXTENDS Integers, FiniteSets, Sequences

CONSTANTS KeyNode,        \* CUs that may serve as key nodes
          GenesisKeyNodes,\* the key nodes of the genesis epoch
          MaxKeyNodes     \* staking parameter MaxKeyNodes

ASSUME KeyNodeAssumption ==
    /\ GenesisKeyNodes \subseteq KeyNode
    /\ GenesisKeyNodes # {}
    /\ IsFiniteSet(KeyNode)
    /\ MaxKeyNodes \in Nat

VARIABLES height,  \* height of the block being executed
          epochs   \* stored epochs, by index

epochVars == <<height, epochs>>

Epoch == [start : Nat, end : Nat, keyNodeSet : SUBSET KeyNode, migrationFinished : BOOLEAN]

NewEpoch(start, keyNodeSet, finished) ==
    [start |-> start, end |-> 0, keyNodeSet |-> keyNodeSet, migrationFinished |-> finished]

(***************************************************************************)
(* GetEpochByHeight: the stored epoch with the greatest start that is not  *)
(* above h.  Genesis starts an epoch at height 1, so one exists for h > 0. *)
(***************************************************************************)
EpochIndexByHeight(h) ==
    CHOOSE i \in DOMAIN epochs :
        /\ epochs[i].start =< h
        /\ \A j \in DOMAIN epochs : epochs[j].start =< h => j =< i

EpochByHeight(h) == epochs[EpochIndexByHeight(h)]

CurrentIndex == EpochIndexByHeight(height)

CurrentEpoch == EpochByHeight(height)

IsActiveKeyNode(n) == n \in CurrentEpoch.keyNodeSet

\* A proposal may remove at most a sixth of the key nodes, rounded up.
OneSixthCeil(n) == (n + 5) \div 6

EpochsInit ==
    /\ height = 1
    /\ epochs = <<NewEpoch(1, GenesisKeyNodes, TRUE)>>

(***************************************************************************)
(* StartNewEpoch: closes the current epoch at this block and stores the    *)
(* next one under the next index, replacing what an earlier proposal of    *)
(* the same block may have stored there.                                   *)
(***************************************************************************)
StartNewEpoch(keyNodes) ==
    LET cur    == CurrentIndex
        closed == [epochs[cur] EXCEPT !.end = height]
    IN  epochs' = Append(Append(SubSeq(epochs, 1, cur - 1), closed),
                         NewEpoch(height + 1, keyNodes, FALSE))

\* handleUpdateKeyNodesProposal, for the sets a well-formed proposal names.
UpdateKeyNodes(remove, add) ==
    LET cur  == CurrentEpoch.keyNodeSet
        kept == cur \ remove
    IN  /\ remove \cup add # {}
        /\ remove \cap add = {}
        /\ CurrentEpoch.migrationFinished
        /\ Cardinality(remove) =< OneSixthCeil(Cardinality(cur))
        /\ Cardinality(remove) < Cardinality(cur)
        /\ remove \subseteq cur
        /\ add \cap kept = {}
        /\ add # {} => Cardinality(kept) + Cardinality(add) =< MaxKeyNodes
        /\ StartNewEpoch(kept \cup add)

\* SetMigrationFinished on the epoch in force.
SetMigrationFinished ==
    epochs' = [epochs EXCEPT ![CurrentIndex].migrationFinished = TRUE]

-----------------------------------------------------------------------------
(***************************************************************************)
(* StartNewEpoch leaves no gap and no overlap: each epoch ends in the      *)
(* block before the next one starts, only the newest one is open, and no   *)
(* epoch is without key nodes, also when two proposals pass in one block.  *)
(***************************************************************************)
EpochsContiguous ==
    /\ epochs[1].start = 1
    /\ \A i \in 1 .. Len(epochs) - 1 :
        /\ epochs[i].start =< epochs[i].end
        /\ epochs[i].end =< height
        /\ epochs[i + 1].start = epochs[i].end + 1
    /\ \A i \in 1 .. Len(epochs) : epochs[i].keyNodeSet # {}

=============================================================================
