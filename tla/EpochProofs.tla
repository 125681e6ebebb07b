---------------------------- MODULE EpochProofs -----------------------------
(***************************************************************************)
(* What the steps of Epochs keep, for any set of key nodes: the stored     *)
(* epochs abut and start no later than the next block, so that             *)
(* GetEpochByHeight is well defined.  Where an epoch changes with the end  *)
(* of a block, the newest epoch is the one in force.                       *)
(***************************************************************************)
EXTENDS Epochs, FiniteSetTheorems, TLAPS

EpochsInv ==
    /\ height \in Nat \ {0}
    /\ epochs \in Seq(Epoch)
    /\ Len(epochs) > 0
    /\ EpochsContiguous

(***************************************************************************)
(* GetEpochByHeight finds an epoch for the height of the current block:    *)
(* the newest one, or the one before it when a proposal of this block has  *)
(* stored the epoch of the next block.                                     *)
(***************************************************************************)
LEMMA CurrentIndexExists ==
    ASSUME EpochsInv
    PROVE  /\ CurrentIndex \in 1 .. Len(epochs)
           /\ epochs[CurrentIndex].start =< height
           /\ \A j \in 1 .. Len(epochs) : epochs[j].start =< height => j =< CurrentIndex
           /\ CurrentIndex = Len(epochs) \/ CurrentIndex = Len(epochs) - 1
<1> USE DEF EpochsInv
<1>1. \A i \in 1 .. Len(epochs) : epochs[i] \in Epoch
  OBVIOUS
<1>2. \E i \in DOMAIN epochs :
        /\ epochs[i].start =< height
        /\ \A j \in DOMAIN epochs : epochs[j].start =< height => j =< i
        /\ i = Len(epochs) \/ i = Len(epochs) - 1
  <2>1. CASE epochs[Len(epochs)].start =< height
    <3> WITNESS Len(epochs) \in DOMAIN epochs
    <3> QED
      BY <2>1
  <2>2. CASE ~(epochs[Len(epochs)].start =< height)
    <3>1. Len(epochs) - 1 \in 1 .. Len(epochs) - 1
      BY <2>2 DEF EpochsContiguous
    <3>2. epochs[Len(epochs) - 1].start =< height
      BY <3>1, <1>1 DEF EpochsContiguous, Epoch
    <3>3. \A j \in DOMAIN epochs : epochs[j].start =< height => j =< Len(epochs) - 1
      BY <2>2
    <3>4. Len(epochs) - 1 \in DOMAIN epochs
      BY <3>1
    <3> QED
      BY <3>2, <3>3, <3>4
  <2> QED
    BY <2>1, <2>2
<1>3. /\ CurrentIndex \in DOMAIN epochs
      /\ epochs[CurrentIndex].start =< height
      /\ \A j \in DOMAIN epochs : epochs[j].start =< height => j =< CurrentIndex
  BY <1>2 DEF CurrentIndex, EpochIndexByHeight
<1>4. CurrentIndex = Len(epochs) \/ CurrentIndex = Len(epochs) - 1
  BY <1>2, <1>3
<1> QED
  BY <1>3, <1>4

(***************************************************************************)
(* Genesis stores one epoch, which starts in the first block.              *)
(***************************************************************************)
LEMMA EpochsInitially == EpochsInit => EpochsInv /\ Len(epochs) = 1 /\ CurrentIndex = 1
<1> SUFFICES ASSUME EpochsInit PROVE EpochsInv /\ Len(epochs) = 1 /\ CurrentIndex = 1
  OBVIOUS
<1> DEFINE e == NewEpoch(1, GenesisKeyNodes, TRUE)
<1>1. e \in Epoch /\ e.start = 1 /\ e.keyNodeSet # {}
  BY KeyNodeAssumption DEF NewEpoch, Epoch
<1>2. epochs = <<e>> /\ height = 1
  BY DEF EpochsInit
<1> HIDE DEF e
<1>3. <<e>> \in Seq(Epoch) /\ Len(<<e>>) = 1 /\ <<e>>[1] = e
  BY <1>1
<1>4. EpochsInv
  BY <1>1, <1>2, <1>3 DEF EpochsInv, EpochsContiguous
<1> QED
  BY <1>2, <1>3, <1>4, CurrentIndexExists

(***************************************************************************)
(* handleUpdateKeyNodesProposal keeps the epochs contiguous, whether the   *)
(* block goes on or ends: the epochs up to the one in force keep their key *)
(* nodes, and the next one follows it.                                     *)
(***************************************************************************)
LEMMA UpdateKeyNodesKeeps ==
    ASSUME EpochsInv, NEW remove \in SUBSET KeyNode, NEW add \in SUBSET KeyNode,
           UpdateKeyNodes(remove, add), height' = height \/ height' = height + 1
    PROVE  /\ EpochsInv'
           /\ Len(epochs') = CurrentIndex + 1
           /\ \A i \in 1 .. CurrentIndex : epochs'[i].keyNodeSet = epochs[i].keyNodeSet
           /\ epochs'[CurrentIndex + 1].start = height + 1
           /\ epochs'[CurrentIndex + 1].keyNodeSet = (CurrentEpoch.keyNodeSet \ remove) \cup add
<1>0. \A i \in 1 .. Len(epochs) : epochs[i] \in Epoch
  BY DEF EpochsInv
<1> DEFINE cur == CurrentIndex
           closed == [epochs[cur] EXCEPT !.end = height]
           keyNodes == (CurrentEpoch.keyNodeSet \ remove) \cup add
           new == NewEpoch(height + 1, keyNodes, FALSE)
           front == SubSeq(epochs, 1, cur - 1)
<1>3. cur \in 1 .. Len(epochs) /\ epochs[cur].start =< height
  BY CurrentIndexExists
<1>4. epochs[cur] \in Epoch /\ epochs[cur] = CurrentEpoch
  BY <1>3, <1>0 DEF CurrentEpoch, EpochByHeight, CurrentIndex
<1>5. closed \in Epoch /\ closed.end = height /\ closed.start = epochs[cur].start
      /\ closed.keyNodeSet = epochs[cur].keyNodeSet
  BY <1>4 DEF Epoch, EpochsInv
<1>6. keyNodes # {}
  <2>1. remove \subseteq CurrentEpoch.keyNodeSet /\ CurrentEpoch.keyNodeSet \subseteq KeyNode
    BY <1>4 DEF UpdateKeyNodes, Epoch
  <2>2. Cardinality(remove) < Cardinality(CurrentEpoch.keyNodeSet)
    BY DEF UpdateKeyNodes
  <2>3. Cardinality(CurrentEpoch.keyNodeSet) \in Nat
    BY <2>1, KeyNodeAssumption, FS_Subset, FS_CardinalityType
  <2>4. remove # CurrentEpoch.keyNodeSet
    BY <2>2, <2>3
  <2> QED
    BY <2>1, <2>4
<1>7. new \in Epoch /\ new.start = height + 1 /\ new.keyNodeSet = keyNodes
  BY <1>4 DEF NewEpoch, Epoch, EpochsInv
<1>8. front \in Seq(Epoch) /\ Len(front) = cur - 1 /\ \A i \in 1 .. cur - 1 : front[i] = epochs[i]
  BY <1>3 DEF EpochsInv
<1>9. epochs' = Append(Append(front, closed), new)
  BY DEF UpdateKeyNodes, StartNewEpoch
<1>10. /\ epochs' \in Seq(Epoch)
       /\ Len(epochs') = cur + 1
       /\ \A i \in 1 .. cur - 1 : epochs'[i] = epochs[i]
       /\ epochs'[cur] = closed
       /\ epochs'[cur + 1] = new
  <2> HIDE DEF cur, closed, new, front
  <2> QED
    BY <1>3, <1>5, <1>7, <1>8, <1>9
<1> HIDE DEF cur, closed, new, front, keyNodes
<1>11. epochs'[1].start = 1
  <2>1. CASE cur = 1
    BY <2>1, <1>5, <1>10 DEF EpochsInv, EpochsContiguous
  <2>2. CASE cur # 1
    BY <2>2, <1>3, <1>10 DEF EpochsInv, EpochsContiguous
  <2> QED
    BY <2>1, <2>2
<1>12. ASSUME NEW i \in 1 .. Len(epochs') - 1
       PROVE  /\ epochs'[i].start =< epochs'[i].end
              /\ epochs'[i].end =< height
              /\ epochs'[i + 1].start = epochs'[i].end + 1
  <2>1. CASE i = cur
    BY <2>1, <1>3, <1>5, <1>7, <1>10 DEF EpochsInv
  <2>2. CASE i # cur
    <3>1. i \in 1 .. Len(epochs) - 1 /\ i \in 1 .. cur - 1
      BY <2>2, <1>3, <1>10
    <3>2. epochs'[i + 1].start = epochs[i + 1].start
      <4>1. CASE i + 1 = cur
        BY <4>1, <1>10, <1>5
      <4>2. CASE i + 1 # cur
        BY <4>2, <3>1, <1>3, <1>10
      <4> QED
        BY <4>1, <4>2
    <3> QED
      BY <3>1, <3>2, <1>10 DEF EpochsInv, EpochsContiguous
  <2> QED
    BY <2>1, <2>2
<1>13. ASSUME NEW i \in 1 .. Len(epochs')
       PROVE  epochs'[i].keyNodeSet # {}
  <2>1. CASE i = cur
    BY <2>1, <1>3, <1>5, <1>10 DEF EpochsInv, EpochsContiguous
  <2>2. CASE i = cur + 1
    BY <2>2, <1>6, <1>7, <1>10
  <2>3. CASE i # cur /\ i # cur + 1
    <3>1. i \in 1 .. cur - 1 /\ i \in 1 .. Len(epochs)
      BY <2>3, <1>3, <1>10
    <3> QED
      BY <3>1, <1>10 DEF EpochsInv, EpochsContiguous
  <2> QED
    BY <2>1, <2>2, <2>3
<1>14. Len(epochs') > 0
  BY <1>3, <1>10
<1>15. EpochsInv'
  <2>1. \A i \in 1 .. Len(epochs') : epochs'[i] \in Epoch
    BY <1>10
  <2>2. height \in Nat /\ height' \in Nat \ {0} /\ height =< height'
    BY DEF EpochsInv
  <2>3. \A i \in 1 .. Len(epochs') - 1 : epochs'[i].end =< height'
    <3> SUFFICES ASSUME NEW i \in 1 .. Len(epochs') - 1 PROVE epochs'[i].end =< height'
      OBVIOUS
    <3>1. epochs'[i].end \in Nat
      BY <2>1, <1>10, <1>3 DEF Epoch
    <3> QED
      BY <3>1, <2>2, <1>12
  <2>4. EpochsContiguous'
    BY <1>11, <1>12, <1>13, <2>3 DEF EpochsContiguous
  <2> QED
    BY <1>10, <1>14, <2>2, <2>4 DEF EpochsInv
<1>16. \A i \in 1 .. cur : epochs'[i].keyNodeSet = epochs[i].keyNodeSet
  BY <1>3, <1>5, <1>10
<1> QED
  BY <1>7, <1>10, <1>15, <1>16 DEF cur, keyNodes

(***************************************************************************)
(* SetMigrationFinished changes only the flag of the epoch in force.       *)
(***************************************************************************)
LEMMA FlagKeeps ==
    ASSUME EpochsInv, SetMigrationFinished, height' = height
    PROVE  /\ EpochsInv'
           /\ Len(epochs') = Len(epochs)
           /\ \A i \in 1 .. Len(epochs) : /\ epochs'[i].start = epochs[i].start
                                         /\ epochs'[i].keyNodeSet = epochs[i].keyNodeSet
<1>0. \A i \in 1 .. Len(epochs) : epochs[i] \in Epoch
  BY DEF EpochsInv
<1>1. epochs' = [epochs EXCEPT ![CurrentIndex].migrationFinished = TRUE] /\ height' = height
  BY DEF SetMigrationFinished
<1>2. CurrentIndex \in 1 .. Len(epochs)
  BY CurrentIndexExists
<1> DEFINE e == [epochs[CurrentIndex] EXCEPT !.migrationFinished = TRUE]
<1>3. e \in Epoch /\ e.start = epochs[CurrentIndex].start /\ e.end = epochs[CurrentIndex].end
      /\ e.keyNodeSet = epochs[CurrentIndex].keyNodeSet
  BY <1>2, <1>0 DEF Epoch
<1>4. epochs' = [epochs EXCEPT ![CurrentIndex] = e]
  BY <1>1
<1> HIDE DEF e
<1>5. epochs' \in Seq(Epoch) /\ Len(epochs') = Len(epochs)
  BY <1>2, <1>3, <1>4 DEF EpochsInv
<1>6. \A i \in 1 .. Len(epochs) :
        epochs'[i].start = epochs[i].start /\ epochs'[i].end = epochs[i].end
        /\ epochs'[i].keyNodeSet = epochs[i].keyNodeSet
  BY <1>2, <1>3, <1>4 DEF EpochsInv
<1> QED
  BY <1>1, <1>5, <1>6 DEF EpochsInv, EpochsContiguous

\* The epochs stay contiguous when a block ends.
LEMMA BlockKeeps ==
    ASSUME EpochsInv, epochs' = epochs, height' = height + 1
    PROVE  EpochsInv'
<1>1. \A i \in 1 .. Len(epochs) : epochs[i] \in Epoch
  BY DEF EpochsInv
<1>2. \A i \in 1 .. Len(epochs) - 1 : epochs[i].end \in Nat
  BY <1>1 DEF Epoch, EpochsInv
<1>3. height \in Nat \ {0} /\ height' \in Nat \ {0}
  BY DEF EpochsInv
<1>4. \A i \in 1 .. Len(epochs) - 1 : epochs[i].end =< height'
  BY <1>2, <1>3 DEF EpochsInv, EpochsContiguous
<1>5. EpochsContiguous'
  BY <1>4 DEF EpochsInv, EpochsContiguous
<1> QED
  BY <1>3, <1>5 DEF EpochsInv

-----------------------------------------------------------------------------
\* The newest stored epoch is in force.
NewestInForce == EpochsInv /\ CurrentIndex = Len(epochs)

\* The key nodes of the newest epoch.
Nodes == epochs[Len(epochs)].keyNodeSet

(***************************************************************************)
(* An epoch change at the end of a block puts the new epoch in force.      *)
(***************************************************************************)
LEMMA EpochBlockKeeps ==
    ASSUME NewestInForce, NEW remove \in SUBSET KeyNode, NEW add \in SUBSET KeyNode,
           UpdateKeyNodes(remove, add), height' = height + 1
    PROVE  /\ NewestInForce'
           /\ Len(epochs') = Len(epochs) + 1
           /\ \A i \in 1 .. Len(epochs) : epochs'[i].keyNodeSet = epochs[i].keyNodeSet
           /\ Nodes' = (CurrentEpoch.keyNodeSet \ remove) \cup add
<1>1. /\ EpochsInv'
      /\ Len(epochs') = Len(epochs) + 1
      /\ \A i \in 1 .. Len(epochs) : epochs'[i].keyNodeSet = epochs[i].keyNodeSet
      /\ epochs'[Len(epochs) + 1].start = height + 1
      /\ epochs'[Len(epochs) + 1].keyNodeSet = (CurrentEpoch.keyNodeSet \ remove) \cup add
  BY UpdateKeyNodesKeeps DEF NewestInForce
<1>2. epochs'[Len(epochs')].start =< height'
  BY <1>1 DEF NewestInForce, EpochsInv
<1>3. (EpochsInv => /\ CurrentIndex \in 1 .. Len(epochs)
                    /\ \A j \in 1 .. Len(epochs) : epochs[j].start =< height => j =< CurrentIndex)'
  BY CurrentIndexExists, PTL
<1>4. CurrentIndex' = Len(epochs')
  BY <1>1, <1>2, <1>3 DEF EpochsInv
<1> QED
  BY <1>1, <1>4 DEF NewestInForce, Nodes

\* What the newest epoch is when it is in force.
LEMMA NewestFacts ==
    ASSUME NewestInForce
    PROVE  /\ Len(epochs) \in Nat \ {0}
           /\ CurrentIndex = Len(epochs)
           /\ CurrentEpoch.keyNodeSet = Nodes
           /\ Nodes \subseteq KeyNode /\ Nodes # {} /\ IsFiniteSet(Nodes)
           /\ Cardinality(Nodes) \in Nat \ {0}
<1>1. Len(epochs) \in Nat \ {0} /\ CurrentIndex = Len(epochs)
  BY DEF NewestInForce, EpochsInv
<1>2. CurrentEpoch = epochs[Len(epochs)]
  BY <1>1 DEF CurrentEpoch, EpochByHeight, CurrentIndex
<1>3. epochs[Len(epochs)] \in Epoch
  BY <1>1 DEF NewestInForce, EpochsInv
<1>4. Nodes # {}
  BY <1>1 DEF Nodes, NewestInForce, EpochsInv, EpochsContiguous
<1>5. Nodes \subseteq KeyNode
  BY <1>3 DEF Nodes, Epoch
<1>6. IsFiniteSet(Nodes)
  BY <1>5, KeyNodeAssumption, FS_Subset
<1>7. Cardinality(Nodes) \in Nat \ {0}
  BY <1>4, <1>6, FS_CardinalityType, FS_EmptySet
<1> QED
  BY <1>1, <1>2, <1>4, <1>5, <1>6, <1>7 DEF Nodes

(***************************************************************************)
(* All other steps keep the newest epoch in force, and its key nodes.      *)
(***************************************************************************)
LEMMA SameEpochKeeps ==
    ASSUME NewestInForce,
           \/ epochs' = epochs /\ (height' = height \/ height' = height + 1)
           \/ SetMigrationFinished /\ height' = height
    PROVE  /\ NewestInForce'
           /\ Len(epochs') = Len(epochs)
           /\ \A i \in 1 .. Len(epochs) : epochs'[i].keyNodeSet = epochs[i].keyNodeSet
           /\ Nodes' = Nodes
<1>1. /\ EpochsInv'
      /\ Len(epochs') = Len(epochs)
      /\ \A i \in 1 .. Len(epochs) : /\ epochs'[i].start = epochs[i].start
                                     /\ epochs'[i].keyNodeSet = epochs[i].keyNodeSet
  <2>1. CASE epochs' = epochs /\ height' = height
    BY <2>1 DEF NewestInForce, EpochsInv, EpochsContiguous
  <2>2. CASE epochs' = epochs /\ height' = height + 1
    BY <2>2, BlockKeeps DEF NewestInForce
  <2>3. CASE SetMigrationFinished /\ height' = height
    BY <2>3, FlagKeeps DEF NewestInForce
  <2> QED
    BY <2>1, <2>2, <2>3
<1>2. epochs[Len(epochs)].start =< height /\ Len(epochs) \in Nat \ {0}
  BY CurrentIndexExists DEF NewestInForce, EpochsInv
<1>3. epochs[Len(epochs)] \in Epoch
  BY <1>2 DEF NewestInForce, EpochsInv
<1>4. epochs'[Len(epochs')].start =< height'
  BY <1>1, <1>2, <1>3 DEF NewestInForce, EpochsInv, Epoch
<1>5. (EpochsInv => /\ CurrentIndex \in 1 .. Len(epochs)
                    /\ \A j \in 1 .. Len(epochs) : epochs[j].start =< height => j =< CurrentIndex)'
  BY CurrentIndexExists, PTL
<1>6. CurrentIndex' = Len(epochs')
  BY <1>1, <1>2, <1>4, <1>5
<1> QED
  BY <1>1, <1>2, <1>6 DEF NewestInForce, Nodes

=============================================================================
