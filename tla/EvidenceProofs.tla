--------------------------- MODULE EvidenceProofs ---------------------------
(***************************************************************************)
(* Proofs about Evidence for any set of key nodes, votes and identifiers.  *)
(* The inductive invariant has three parts: the epochs are contiguous      *)
(* (EpochProofs), every box is sound (what AddVote keeps), and the lists   *)
(* of confirmed and counted votes agree with the boxes.  Then come the     *)
(* retries of OrderRetry, whose rounds are voted on in the same epochs,    *)
(* and the ring in which HandleBehaviour keeps the last records.           *)
(***************************************************************************)
EXTENDS Evidence, OrderRetry, EpochProofs

\* The boxes with voters among W and votes among V.
BoxType(W, V) ==
    [threshold : Nat \ {0}, items : UNION {[S -> V] : S \in SUBSET W},
     confirmed : BOOLEAN, result : V \cup {NoResult}]

\* What AddVote keeps of a box: a confirmed box has enough voters for its
\* result, and no vote of an unconfirmed one has enough.
BoxSound(b, V) ==
    IF b.confirmed
    THEN b.result \in V /\ Cardinality(VotersFor(b, b.result)) >= b.threshold
    ELSE Winners(b) = {}

(***************************************************************************)
(* A new box, as VoteWithCustomBox makes it, is sound.                     *)
(***************************************************************************)
LEMMA NewVoteBoxSound ==
    ASSUME NEW W, NEW V, NEW t \in Nat \ {0}
    PROVE  NewVoteBox(t) \in BoxType(W, V) /\ BoxSound(NewVoteBox(t), V)
<1>1. << >> \in [{} -> V]
  OBVIOUS
<1>2. DOMAIN << >> = {}
  OBVIOUS
<1>3. NewVoteBox(t) \in BoxType(W, V)
  BY <1>1, Zenon DEF NewVoteBox, BoxType
<1>4. Winners(NewVoteBox(t)) = {}
  BY <1>2 DEF NewVoteBox, Winners, Voters
<1> QED
  BY <1>3, <1>4, Zenon DEF BoxSound, NewVoteBox

(***************************************************************************)
(* Storing a vote gives a box of the same type whose items change for the  *)
(* voter alone.                                                            *)
(***************************************************************************)
LEMMA StoreVoteType ==
    ASSUME NEW W, NEW V, NEW b \in BoxType(W, V), NEW voter \in W, NEW vote \in V
    PROVE  /\ StoreVote(b, voter, vote) \in [Voters(b) \cup {voter} -> V]
           /\ Voters(b) \in SUBSET W
           /\ b.items \in [Voters(b) -> V]
<1>1. PICK S \in SUBSET W : b.items \in [S -> V]
  BY DEF BoxType
<1>2. Voters(b) = S
  BY <1>1 DEF Voters
<1> QED
  BY <1>1, <1>2 DEF StoreVote

(***************************************************************************)
(* AddVote keeps the type of a box and its soundness, and a box that it    *)
(* confirms has the vote just cast as its result.                          *)
(***************************************************************************)
THEOREM AddVoteSound ==
    ASSUME NEW W, IsFiniteSet(W), NEW V, NEW b \in BoxType(W, V), BoxSound(b, V),
           NEW voter \in W, NEW vote \in V
    PROVE  /\ AddVote(b, voter, vote) \in BoxType(W, V)
           /\ BoxSound(AddVote(b, voter, vote), V)
           /\ FirstConfirmed(b, AddVote(b, voter, vote))
                 => AddVote(b, voter, vote).result = vote
<1> DEFINE items == StoreVote(b, voter, vote)
           s == [b EXCEPT !.items = items]
<1>1. /\ items \in [Voters(b) \cup {voter} -> V]
      /\ Voters(b) \in SUBSET W
      /\ b.items \in [Voters(b) -> V]
  BY StoreVoteType
<1>2. /\ s \in BoxType(W, V)
      /\ s.items = items
      /\ s.confirmed = b.confirmed
      /\ s.result = b.result
      /\ s.threshold = b.threshold
      /\ Voters(s) = Voters(b) \cup {voter}
  <2>1. Voters(b) \cup {voter} \in SUBSET W
    BY <1>1
  <2>2. items \in UNION {[S -> V] : S \in SUBSET W}
    BY <1>1, <2>1
  <2> QED
    BY <1>1, <2>2 DEF BoxType, Voters
<1>3. \A v : VotersFor(s, v) \subseteq W /\ VotersFor(b, v) \subseteq W
  BY <1>1, <1>2 DEF VotersFor
<1>4. \A v : IsFiniteSet(VotersFor(s, v)) /\ IsFiniteSet(VotersFor(b, v))
             /\ Cardinality(VotersFor(s, v)) \in Nat /\ Cardinality(VotersFor(b, v)) \in Nat
  BY <1>3, FS_Subset, FS_CardinalityType
<1>5. CASE b.confirmed
  <2>1. AddVote(b, voter, vote) = s
    BY <1>5 DEF AddVote
  <2>2. VotersFor(b, b.result) \subseteq VotersFor(s, b.result)
    BY <1>1, <1>2, <1>5 DEF VotersFor, StoreVote
  <2>3. Cardinality(VotersFor(b, b.result)) =< Cardinality(VotersFor(s, b.result))
    BY <2>2, <1>4, FS_Subset
  <2>4. BoxSound(s, V)
    <3>1. b.threshold \in Nat
      BY DEF BoxType
    <3> HIDE DEF s
    <3> QED
      BY <3>1, <2>3, <1>2, <1>4, <1>5 DEF BoxSound
  <2> QED
    BY <2>1, <2>4, <1>2, <1>5 DEF FirstConfirmed
<1>6. CASE ~b.confirmed
  <2>1. ASSUME NEW v \in Winners(s), v # vote
        PROVE  FALSE
    <3>1. VotersFor(s, v) \subseteq VotersFor(b, v)
      BY <1>1, <1>2, <1>6, <2>1 DEF VotersFor, StoreVote
    <3>2. Cardinality(VotersFor(s, v)) =< Cardinality(VotersFor(b, v))
      BY <3>1, <1>4, FS_Subset
    <3>3. Cardinality(VotersFor(s, v)) >= b.threshold /\ b.threshold \in Nat \ {0}
      BY <1>2 DEF Winners, BoxType
    <3>4. Cardinality(VotersFor(b, v)) >= b.threshold
      BY <3>2, <3>3, <1>4
    <3>5. VotersFor(b, v) # {}
      BY <3>3, <3>4, FS_EmptySet
    <3>6. v \in {b.items[w] : w \in Voters(b)}
      BY <3>5 DEF VotersFor
    <3>7. v \in Winners(b)
      BY <3>4, <3>6 DEF Winners
    <3> QED
      BY <3>7, <1>6 DEF BoxSound
  <2>2. Winners(s) \subseteq {vote}
    BY <2>1
  <2>3. CASE Winners(s) = {}
    <3>1. AddVote(b, voter, vote) = s
      BY <2>3 DEF AddVote
    <3> QED
      BY <3>1, <2>3, <1>2, <1>6 DEF BoxSound, FirstConfirmed
  <2>4. CASE Winners(s) # {}
    <3>1. Winners(s) = {vote}
      BY <2>2, <2>4
    <3>2. (CHOOSE v \in Winners(s) : TRUE) = vote
      BY <3>1
    <3> DEFINE c == [s EXCEPT !.confirmed = TRUE, !.result = vote]
    <3>3. AddVote(b, voter, vote) = c
      BY <3>2, <2>4, <1>6, Zenon DEF AddVote
    <3>4. /\ c \in BoxType(W, V)
          /\ c.items = s.items
          /\ c.confirmed
          /\ c.result = vote
          /\ c.threshold = s.threshold
      BY <1>2, Zenon DEF BoxType
    <3>5. VotersFor(c, vote) = VotersFor(s, vote)
      BY <3>4 DEF VotersFor, Voters
    <3>6. Cardinality(VotersFor(s, vote)) >= s.threshold
      BY <3>1 DEF Winners
    <3>7. BoxSound(c, V)
      <4> HIDE DEF c, s
      <4> QED
        BY <3>4, <3>5, <3>6 DEF BoxSound
    <3> QED
      BY <3>3, <3>4, <3>7
  <2> QED
    BY <2>3, <2>4
<1> QED
  BY <1>5, <1>6

-----------------------------------------------------------------------------
BoxesInv ==
    /\ DOMAIN box \subseteq VoteID
    /\ box = [id \in DOMAIN box |-> box[id]]
    /\ \A id \in DOMAIN box : box[id] \in BoxType(KeyNode, Vote) /\ BoxSound(box[id], Vote)

CountInv ==
    /\ confirmedVote \subseteq Nat \X VoteID
    /\ CountedOnce

\* The threshold of a new box is positive.
LEMMA ThresholdPositive ==
    ASSUME EpochsInv
    PROVE  Majority23(Cardinality(CurrentEpoch.keyNodeSet)) \in Nat \ {0}
<1>1. CurrentEpoch \in Epoch
  BY CurrentIndexExists DEF EpochsInv, CurrentEpoch, EpochByHeight, CurrentIndex
<1>2. IsFiniteSet(CurrentEpoch.keyNodeSet)
  BY <1>1, KeyNodeAssumption, FS_Subset DEF Epoch
<1>3. Cardinality(CurrentEpoch.keyNodeSet) \in Nat
  BY <1>2, FS_CardinalityType
<1> QED
  BY <1>3 DEF Majority23

\* Every step keeps the epochs contiguous.
LEMMA EpochsStep == EpochsInv /\ [Next]_evidenceVars => EpochsInv'
<1> SUFFICES ASSUME EpochsInv, [Next]_evidenceVars PROVE EpochsInv'
  OBVIOUS
<1>1. ASSUME NEW voter \in KeyNode, NEW id \in VoteID, NEW vote \in Vote, CastVote(voter, id, vote)
      PROVE  EpochsInv'
  BY <1>1 DEF CastVote, EpochsInv, EpochsContiguous
<1>2. ASSUME PassUpdateKeyNodes
      PROVE  EpochsInv'
  <2>1. PICK remove \in SUBSET KeyNode, add \in SUBSET KeyNode : UpdateKeyNodes(remove, add)
    BY <1>2 DEF PassUpdateKeyNodes
  <2>2. height' = height
    BY <1>2 DEF PassUpdateKeyNodes
  <2> QED
    BY <2>1, <2>2, UpdateKeyNodesKeeps
<1>3. ASSUME FinishMigration
      PROVE  EpochsInv'
  BY <1>3, FlagKeeps DEF FinishMigration
<1>4. ASSUME EndBlock
      PROVE  EpochsInv'
  BY <1>4, BlockKeeps DEF EndBlock
<1>5. CASE UNCHANGED evidenceVars
  BY <1>5 DEF evidenceVars, EpochsInv, EpochsContiguous
<1> QED
  BY <1>1, <1>2, <1>3, <1>4, <1>5 DEF Next

(***************************************************************************)
(* Epochs abut, the newest is the only open one and none is without key    *)
(* nodes, whatever proposals pass (StartNewEpoch).                         *)
(***************************************************************************)
THEOREM EpochsAlwaysContiguous == Spec => []EpochsContiguous
<1>1. EpochsInv => EpochsContiguous
  BY DEF EpochsInv
<1>2. Init => EpochsInv
  BY EpochsInitially DEF Init
<1> QED
  BY <1>1, <1>2, EpochsStep, PTL DEF Spec

-----------------------------------------------------------------------------
(***************************************************************************)
(* Every box stays sound: the vote of an active key node is added to a     *)
(* sound box or to a new one.                                              *)
(***************************************************************************)
LEMMA BoxOfSound ==
    ASSUME EpochsInv, BoxesInv, NEW id \in VoteID
    PROVE  BoxOf(id) \in BoxType(KeyNode, Vote) /\ BoxSound(BoxOf(id), Vote)
<1>1. CASE id \in DOMAIN box
  BY <1>1 DEF BoxesInv, BoxOf
<1>2. CASE id \notin DOMAIN box
  BY <1>2, ThresholdPositive, NewVoteBoxSound DEF BoxOf
<1> QED
  BY <1>1, <1>2

\* What a vote does to the boxes.
LEMMA CastVoteBox ==
    ASSUME EpochsInv, BoxesInv, NEW voter \in KeyNode, NEW id \in VoteID, NEW vote \in Vote,
           CastVote(voter, id, vote)
    PROVE  /\ DOMAIN box' = DOMAIN box \cup {id}
           /\ box'[id] = AddVote(BoxOf(id), voter, vote)
           /\ \A i \in DOMAIN box : i # id => box'[i] = box[i]
           /\ box'[id] \in BoxType(KeyNode, Vote)
           /\ BoxSound(box'[id], Vote)
           /\ FirstConfirmed(BoxOf(id), box'[id]) => box'[id].result = vote
<1>1. /\ DOMAIN box' = DOMAIN box \cup {id}
      /\ box'[id] = AddVote(BoxOf(id), voter, vote)
      /\ \A i \in DOMAIN box : i # id => box'[i] = box[i]
  BY DEF CastVote
<1>2. BoxOf(id) \in BoxType(KeyNode, Vote) /\ BoxSound(BoxOf(id), Vote)
  BY BoxOfSound
<1> QED
  BY <1>1, <1>2, AddVoteSound, KeyNodeAssumption

\* Every step keeps the boxes sound.
LEMMA BoxesStep == EpochsInv /\ BoxesInv /\ [Next]_evidenceVars => BoxesInv'
<1> SUFFICES ASSUME EpochsInv, BoxesInv, [Next]_evidenceVars PROVE BoxesInv'
  OBVIOUS
<1>1. ASSUME NEW voter \in KeyNode, NEW id \in VoteID, NEW vote \in Vote, CastVote(voter, id, vote)
      PROVE  BoxesInv'
  <2>1. box' = [i \in DOMAIN box' |-> box'[i]]
    BY <1>1 DEF CastVote
  <2>2. /\ DOMAIN box' = DOMAIN box \cup {id}
        /\ \A i \in DOMAIN box : i # id => box'[i] = box[i]
        /\ box'[id] \in BoxType(KeyNode, Vote)
        /\ BoxSound(box'[id], Vote)
    BY <1>1, CastVoteBox
  <2>3. \A i \in DOMAIN box' : box'[i] \in BoxType(KeyNode, Vote) /\ BoxSound(box'[i], Vote)
    BY <2>2 DEF BoxesInv
  <2>4. DOMAIN box' \subseteq VoteID
    BY <2>2 DEF BoxesInv
  <2> QED
    BY <2>1, <2>3, <2>4 DEF BoxesInv
<1>2. CASE UNCHANGED box
  BY <1>2 DEF BoxesInv
<1> QED
  BY <1>1, <1>2 DEF Next, PassUpdateKeyNodes, FinishMigration, EndBlock, evidenceVars

\* There are no boxes at first.
LEMMA BoxesInitially == Init => BoxesInv
  BY DEF Init, BoxesInv

(***************************************************************************)
(* A confirmed box has its threshold of voters for the result, and an      *)
(* unconfirmed one has no vote with so many (VoteBox.AddVote).             *)
(***************************************************************************)
THEOREM AlwaysConfirmedByThreshold == Spec => []ConfirmedByThreshold
<1>1. Init => EpochsInv /\ BoxesInv
  BY EpochsInitially, BoxesInitially DEF Init
<1>2. EpochsInv /\ BoxesInv /\ [Next]_evidenceVars => (EpochsInv /\ BoxesInv)'
  BY EpochsStep, BoxesStep
<1>3. BoxesInv => ConfirmedByThreshold
  BY DEF BoxesInv, BoxSound, ConfirmedByThreshold
<1> QED
  BY <1>1, <1>2, <1>3, PTL DEF Spec

(***************************************************************************)
(* The vote that confirms a box is the result, so a caller may act on the  *)
(* last vote (processDepositOrderIDs, WithdrawalConfirm).                  *)
(***************************************************************************)
THEOREM AlwaysLastVoteIsResult == Spec => LastVoteIsResult
<1> DEFINE A == \A id \in DOMAIN box' :
                  FirstConfirmed(BoxOf(id), box'[id]) =>
                    \A w \in Voters(box'[id]) :
                      (w \notin Voters(BoxOf(id)) \/ box'[id].items[w] # BoxOf(id).items[w])
                        => box'[id].items[w] = box'[id].result
<1>1. Init => EpochsInv /\ BoxesInv
  BY EpochsInitially, BoxesInitially DEF Init
<1>2. EpochsInv /\ BoxesInv /\ [Next]_evidenceVars => (EpochsInv /\ BoxesInv)'
  BY EpochsStep, BoxesStep
<1>3. EpochsInv /\ BoxesInv /\ [Next]_evidenceVars => [A]_evidenceVars
  <2> SUFFICES ASSUME EpochsInv, BoxesInv, Next
               PROVE  A
    OBVIOUS
  <2>1. ASSUME NEW voter \in KeyNode, NEW id \in VoteID, NEW vote \in Vote, CastVote(voter, id, vote)
        PROVE  A
    <3> SUFFICES ASSUME NEW i \in DOMAIN box', FirstConfirmed(BoxOf(i), box'[i]),
                        NEW w \in Voters(box'[i]),
                        w \notin Voters(BoxOf(i)) \/ box'[i].items[w] # BoxOf(i).items[w]
                 PROVE  box'[i].items[w] = box'[i].result
      OBVIOUS
    <3>1. i = id
      <4>1. /\ DOMAIN box' = DOMAIN box \cup {id}
            /\ \A j \in DOMAIN box : j # id => box'[j] = box[j]
        BY <2>1, CastVoteBox
      <4> QED
        BY <4>1 DEF FirstConfirmed, BoxOf
    <3>2. box'[id].result = vote
      BY <2>1, <3>1, CastVoteBox, Zenon
    <3>3. box'[id].items = StoreVote(BoxOf(id), voter, vote)
      <4>1. BoxOf(id) \in BoxType(KeyNode, Vote)
        BY BoxOfSound
      <4>2. box'[id] = AddVote(BoxOf(id), voter, vote)
        BY <2>1, CastVoteBox, Zenon
      <4> QED
        BY <4>1, <4>2 DEF AddVote, BoxType
    <3>4. BoxOf(id).items \in [Voters(BoxOf(id)) -> Vote]
      BY StoreVoteType, BoxOfSound, Zenon
    <3> QED
      BY <3>1, <3>2, <3>3, <3>4 DEF StoreVote, Voters
  <2>2. CASE UNCHANGED box
    BY <2>2 DEF FirstConfirmed, BoxOf
  <2> QED
    BY <2>1, <2>2 DEF Next, PassUpdateKeyNodes, FinishMigration, EndBlock
<1> QED
  BY <1>1, <1>2, <1>3, PTL DEF Spec, LastVoteIsResult

(***************************************************************************)
(* A confirmation is final: AddVote changes neither the result nor a       *)
(* stored vote of a confirmed box.                                         *)
(***************************************************************************)
THEOREM AlwaysConfirmationFinal == Spec => ConfirmationFinal
<1> DEFINE A == \A id \in DOMAIN box :
                  box[id].confirmed =>
                    /\ box'[id].confirmed
                    /\ box'[id].result = box[id].result
                    /\ \A w \in Voters(box[id]) : box'[id].items[w] = box[id].items[w]
<1>1. Init => EpochsInv /\ BoxesInv
  BY EpochsInitially, BoxesInitially DEF Init
<1>2. EpochsInv /\ BoxesInv /\ [Next]_evidenceVars => (EpochsInv /\ BoxesInv)'
  BY EpochsStep, BoxesStep
<1>3. EpochsInv /\ BoxesInv /\ [Next]_evidenceVars => [A]_evidenceVars
  <2> SUFFICES ASSUME EpochsInv, BoxesInv, Next
               PROVE  A
    OBVIOUS
  <2>1. ASSUME NEW voter \in KeyNode, NEW id \in VoteID, NEW vote \in Vote, CastVote(voter, id, vote)
        PROVE  A
    <3> SUFFICES ASSUME NEW i \in DOMAIN box, box[i].confirmed
                 PROVE  /\ box'[i].confirmed
                        /\ box'[i].result = box[i].result
                        /\ \A w \in Voters(box[i]) : box'[i].items[w] = box[i].items[w]
      OBVIOUS
    <3>1. CASE i # id
      BY <2>1, <3>1, CastVoteBox, Zenon
    <3>2. CASE i = id
      <4>1. BoxOf(id) = box[id] /\ box[id] \in BoxType(KeyNode, Vote)
        BY <3>2 DEF BoxOf, BoxesInv
      <4>2. box'[id] = AddVote(BoxOf(id), voter, vote)
        BY <2>1, CastVoteBox, Zenon
      <4>3. box'[id] = [box[id] EXCEPT !.items = StoreVote(box[id], voter, vote)]
        BY <3>2, <4>1, <4>2 DEF AddVote, BoxType
      <4>4. \A w \in Voters(box[id]) : StoreVote(box[id], voter, vote)[w] = box[id].items[w]
        BY <3>2 DEF StoreVote
      <4> QED
        BY <3>2, <4>1, <4>3, <4>4 DEF BoxType
    <3> QED
      BY <3>1, <3>2
  <2>2. CASE UNCHANGED box
    BY <2>2
  <2> QED
    BY <2>1, <2>2 DEF Next, PassUpdateKeyNodes, FinishMigration, EndBlock
<1> QED
  BY <1>1, <1>2, <1>3, PTL DEF Spec, ConfirmationFinal

-----------------------------------------------------------------------------
(***************************************************************************)
(* The end blocker counts each confirmed vote exactly once.                *)
(***************************************************************************)
LEMMA CountStep ==
    EpochsInv /\ BoxesInv /\ CountInv /\ [Next]_evidenceVars => CountInv'
<1> SUFFICES ASSUME EpochsInv, BoxesInv, CountInv, [Next]_evidenceVars PROVE CountInv'
  OBVIOUS
<1>1. ASSUME NEW voter \in KeyNode, NEW id \in VoteID, NEW vote \in Vote, CastVote(voter, id, vote)
      PROVE  CountInv'
  <2>1. counted' = counted /\ height \in Nat
    BY <1>1 DEF CastVote, EpochsInv
  <2>2. \A i \in VoteID \ {id} :
          (i \in DOMAIN box' /\ box'[i].confirmed) <=> (i \in DOMAIN box /\ box[i].confirmed)
    BY <1>1, CastVoteBox, Zenon
  <2>3. CASE FirstConfirmed(BoxOf(id), box'[id])
    <3>1. ~(id \in DOMAIN box /\ box[id].confirmed)
      BY <2>3 DEF FirstConfirmed, BoxOf
    <3>2. confirmedVote' = confirmedVote \cup {<<height, id>>}
      BY <1>1, <2>3, CastVoteBox DEF CastVote
    <3>3. id \notin counted /\ ~Waiting(id)
      BY <3>1 DEF CountInv, CountedOnce
    <3>4. id \in DOMAIN box' /\ box'[id].confirmed
      BY <1>1, <2>3, CastVoteBox, Zenon DEF FirstConfirmed
    <3>5. ASSUME NEW i \in VoteID
          PROVE  Waiting(i)' <=> Waiting(i) \/ i = id
      <4>1. <<height, id>>[2] = id
        OBVIOUS
      <4>2. Waiting(i)' <=> \E c \in confirmedVote \cup {<<height, id>>} : c[2] = i
        BY <3>2 DEF Waiting
      <4> QED
        BY <4>1, <4>2, Zenon DEF Waiting
    <3>6. \A c, d \in confirmedVote' : c[2] = d[2] => c = d
      BY <3>2, <3>3 DEF CountInv, CountedOnce, Waiting
    <3>7. confirmedVote' \subseteq Nat \X VoteID
      BY <3>2, <2>1 DEF CountInv
    <3> QED
      <4>1. ASSUME NEW i \in VoteID
            PROVE  /\ ~(i \in counted' /\ Waiting(i)')
                   /\ (i \in counted' \/ Waiting(i)') <=> (i \in DOMAIN box' /\ box'[i].confirmed)
        BY <2>1, <2>2, <3>3, <3>4, <3>5 DEF CountInv, CountedOnce
      <4> QED
        BY <3>6, <3>7, <4>1 DEF CountInv, CountedOnce
  <2>4. CASE ~FirstConfirmed(BoxOf(id), box'[id])
    <3>1. confirmedVote' = confirmedVote
      BY <1>1, <2>4, CastVoteBox DEF CastVote
    <3>2. (id \in DOMAIN box' /\ box'[id].confirmed) <=> (id \in DOMAIN box /\ box[id].confirmed)
      <4>1. CASE id \in DOMAIN box /\ box[id].confirmed
        <5>1. BoxOf(id) = box[id] /\ box[id] \in BoxType(KeyNode, Vote)
          BY <4>1 DEF BoxOf, BoxesInv
        <5>2. box'[id] = AddVote(box[id], voter, vote) /\ id \in DOMAIN box'
          BY <1>1, <5>1, CastVoteBox, Zenon
        <5>3. box'[id].confirmed
          BY <4>1, <5>1, <5>2 DEF AddVote, BoxType
        <5> QED
          BY <4>1, <5>2, <5>3
      <4>2. CASE ~(id \in DOMAIN box /\ box[id].confirmed)
        <5>1. ~BoxOf(id).confirmed
          BY <4>2 DEF BoxOf, NewVoteBox
        <5> QED
          BY <2>4, <4>2, <5>1 DEF FirstConfirmed
      <4> QED
        BY <4>1, <4>2
    <3>3. \A i \in VoteID : Waiting(i)' <=> Waiting(i)
      BY <3>1 DEF Waiting
    <3> QED
      BY <2>1, <2>2, <3>1, <3>2, <3>3 DEF CountInv, CountedOnce
  <2> QED
    BY <2>3, <2>4
<1>2. ASSUME EndBlock
      PROVE  CountInv'
  <2>1. /\ box' = box
        /\ counted' = counted \cup {c[2] : c \in Due}
        /\ confirmedVote' = confirmedVote \ Due
        /\ Due \subseteq confirmedVote
    BY <1>2 DEF EndBlock, Due
  <2>2. \A i \in VoteID : Waiting(i)' <=> \E c \in confirmedVote \ Due : c[2] = i
    BY <2>1 DEF Waiting
  <2>3. \A i \in VoteID : i \in counted' <=> i \in counted \/ \E c \in Due : c[2] = i
    BY <2>1
  <2> QED
    BY <2>1, <2>2, <2>3 DEF CountInv, CountedOnce, Waiting
<1>3. CASE UNCHANGED <<box, confirmedVote, counted>>
  BY <1>3 DEF CountInv, CountedOnce, Waiting
<1> QED
  BY <1>1, <1>2, <1>3 DEF Next, PassUpdateKeyNodes, FinishMigration, evidenceVars

(***************************************************************************)
(* Every confirmed vote waits under one height or has been counted, never  *)
(* both (setConfirmedVote, RecordMisbehaviourVoter).                       *)
(***************************************************************************)
THEOREM AlwaysCountedOnce == Spec => []CountedOnce
<1>1. Init => EpochsInv /\ BoxesInv /\ CountInv
  BY EpochsInitially, BoxesInitially DEF Init, CountInv, CountedOnce, Waiting
<1>2. EpochsInv /\ BoxesInv /\ CountInv /\ [Next]_evidenceVars
        => (EpochsInv /\ BoxesInv /\ CountInv)'
  BY EpochsStep, BoxesStep, CountStep
<1>3. CountInv => CountedOnce
  BY DEF CountInv
<1> QED
  BY <1>1, <1>2, <1>3, PTL DEF Spec

-----------------------------------------------------------------------------
\* A box has the threshold of the epoch it was opened in, and is confirmed as
\* soon as so many have voted; a box not yet opened has no epoch.
RetryBoxSound(b, r) ==
    IF since[b][r] = 0
    THEN boxes[b][r] = NoBox
    ELSE /\ since[b][r] \in 1 .. Len(epochs)
         /\ boxes[b][r] \in BoxType(KeyNode, Accusation)
         /\ boxes[b][r].threshold = Majority23(Cardinality(epochs[since[b][r]].keyNodeSet))
         /\ boxes[b][r].confirmed <=> Cardinality(Voters(boxes[b][r])) >= boxes[b][r].threshold

\* The number of marks of a round.
RoundMarks(b, r) == Len(marks[b][r]) = IF <<b, r>> \in handled THEN 1 ELSE 0

RetryInv ==
    /\ NewestInForce
    /\ DOMAIN boxes = Batch /\ \A b \in Batch : DOMAIN boxes[b] = Round
    /\ since \in [Batch -> [Round -> Nat]]
    /\ marks \in [Batch -> [Round -> Seq(SUBSET KeyNode)]]
    /\ \A b \in Batch, r \in Round : RetryBoxSound(b, r) /\ RoundMarks(b, r)
    /\ HandledWhenAllVoted

(***************************************************************************)
(* OrderRetryVoteBox.AddVote adds the voter and confirms the box as soon   *)
(* as the threshold is reached.                                            *)
(***************************************************************************)
LEMMA AddRetryVoteSound ==
    ASSUME NEW W, NEW V, NEW b \in BoxType(W, V), NEW voter \in W, NEW vote \in V,
           IsFiniteSet(W), b.confirmed <=> Cardinality(Voters(b)) >= b.threshold
    PROVE  LET new == AddRetryVote(b, voter, vote)
           IN  /\ new \in BoxType(W, V)
               /\ new.threshold = b.threshold
               /\ Voters(new) = Voters(b) \cup {voter}
               /\ new.confirmed <=> Cardinality(Voters(new)) >= new.threshold
<1> DEFINE items == StoreVote(b, voter, vote)
           s == [b EXCEPT !.items = items]
           more == Cardinality(Voters(b) \cup {voter}) >= b.threshold
           new == [s EXCEPT !.confirmed = b.confirmed \/ more]
<1>1. /\ items \in [Voters(b) \cup {voter} -> V]
      /\ Voters(b) \in SUBSET W
  BY StoreVoteType, Zenon
<1>2. items \in UNION {[S -> V] : S \in SUBSET W}
  <2>1. Voters(b) \cup {voter} \in SUBSET W
    BY <1>1
  <2> QED
    BY <1>1, <2>1
<1>3. /\ s \in BoxType(W, V) /\ s.items = items /\ s.threshold = b.threshold
  BY <1>2 DEF BoxType
<1>4. Voters(s) = Voters(b) \cup {voter}
  BY <1>1, <1>3 DEF Voters
<1>5. AddRetryVote(b, voter, vote) = new
  BY <1>4, Zenon DEF AddRetryVote
<1> HIDE DEF items, s
<1>6. /\ new \in BoxType(W, V) /\ new.threshold = b.threshold /\ new.items = s.items
      /\ new.confirmed <=> (b.confirmed \/ more)
  <2>1. (b.confirmed \/ more) \in BOOLEAN
    BY DEF BoxType
  <2> HIDE DEF more
  <2> QED
    BY <1>3, <2>1, Zenon DEF BoxType
<1>7. Voters(new) = Voters(b) \cup {voter}
  BY <1>4, <1>6 DEF Voters
<1>8. b.confirmed => more
  <2>1. IsFiniteSet(Voters(b) \cup {voter}) /\ IsFiniteSet(Voters(b))
    BY <1>1, FS_Subset, FS_AddElement
  <2>2. Cardinality(Voters(b)) =< Cardinality(Voters(b) \cup {voter})
    BY <2>1, FS_Subset
  <2>3. Cardinality(Voters(b)) \in Nat /\ Cardinality(Voters(b) \cup {voter}) \in Nat
    BY <2>1, FS_CardinalityType
  <2>4. b.threshold \in Nat
    BY DEF BoxType
  <2> QED
    BY <2>2, <2>3, <2>4
<1> HIDE DEF new
<1> QED
  BY <1>5, <1>6, <1>7, <1>8

\* Nothing is settled at genesis.
LEMMA RetryInvInit == RetryInit => RetryInv
<1> SUFFICES ASSUME RetryInit PROVE RetryInv
  OBVIOUS
<1>1. NewestInForce
  BY EpochsInitially DEF RetryInit, NewestInForce
<1>2. \A b \in Batch, r \in Round : since[b][r] = 0 /\ boxes[b][r] = NoBox /\ marks[b][r] = << >>
  BY DEF RetryInit
<1>3. \A b \in Batch, r \in Round : RetryBoxSound(b, r) /\ RoundMarks(b, r)
  BY <1>2 DEF RetryBoxSound, RoundMarks, RetryInit
<1>4. HandledWhenAllVoted
  BY <1>1, <1>2, NewestFacts DEF HandledWhenAllVoted
<1>5. /\ DOMAIN boxes = Batch /\ \A b \in Batch : DOMAIN boxes[b] = Round
      /\ since \in [Batch -> [Round -> Nat]]
      /\ marks \in [Batch -> [Round -> Seq(SUBSET KeyNode)]]
  BY DEF RetryInit
<1> QED
  BY <1>1, <1>3, <1>4, <1>5 DEF RetryInv

\* All key nodes are enough to confirm a box of their epoch.
LEMMA AllAreEnough ==
    ASSUME NEW n \in Nat \ {0}
    PROVE  Majority23(n) =< n /\ Majority23(n) \in Nat \ {0}
  BY DEF Majority23

\* A box that is not voted on stays sound while epochs keep their key nodes.
LEMMA RetryBoxKept ==
    ASSUME NEW b \in Batch, NEW r \in Round, RetryBoxSound(b, r), since[b][r] \in Nat,
           since'[b][r] = since[b][r], boxes'[b][r] = boxes[b][r],
           Len(epochs) \in Nat, Len(epochs') = Len(epochs) \/ Len(epochs') = Len(epochs) + 1,
           \A i \in 1 .. Len(epochs) : epochs'[i].keyNodeSet = epochs[i].keyNodeSet
    PROVE  RetryBoxSound(b, r)'
<1>1. CASE since[b][r] = 0
  BY <1>1 DEF RetryBoxSound
<1>2. CASE since[b][r] # 0
  <2>1. PICK i \in 1 .. Len(epochs) : i = since[b][r]
    BY <1>2 DEF RetryBoxSound
  <2>2. /\ boxes[b][r] \in BoxType(KeyNode, Accusation)
        /\ boxes[b][r].threshold = Majority23(Cardinality(epochs[i].keyNodeSet))
        /\ boxes[b][r].confirmed <=> Cardinality(Voters(boxes[b][r])) >= boxes[b][r].threshold
    BY <1>2, <2>1 DEF RetryBoxSound
  <2>3. /\ epochs'[i].keyNodeSet = epochs[i].keyNodeSet
        /\ since'[b][r] # 0 /\ since'[b][r] \in 1 .. Len(epochs')
    BY <1>2, <2>1
  <2> QED
    BY <2>1, <2>2, <2>3 DEF RetryBoxSound, Voters
<1> QED
  BY <1>1, <1>2

(***************************************************************************)
(* A vote on a round: its box stays sound, its evidence is settled at most *)
(* once, and certainly when all key nodes have voted.                      *)
(***************************************************************************)
LEMMA OrderRetryKeeps ==
    ASSUME RetryInv, NEW n \in KeyNode, NEW c \in Batch, NEW q \in Round, NEW accused \in Accusation,
           OrderRetry(n, c, q, accused)
    PROVE  RetryInv'
<1> DEFINE old == IF boxes[c][q] = NoBox
                  THEN NewVoteBox(Majority23(Cardinality(CurrentEpoch.keyNodeSet))) ELSE boxes[c][q]
           new == AddRetryVote(old, n, accused)
           opened == IF boxes[c][q] = NoBox THEN CurrentIndex ELSE since[c][q]
<1>1. /\ epochs' = epochs /\ height' = height
      /\ boxes' = [boxes EXCEPT ![c][q] = new]
      /\ since' = [since EXCEPT ![c][q] = opened]
      /\ IF new.confirmed THEN handleOrderRetryEvidences(c, q, new) ELSE UNCHANGED <<handled, marks>>
  BY DEF OrderRetry, epochVars
<1>2. NewestInForce /\ since[c][q] \in Nat /\ RetryBoxSound(c, q)
  BY DEF RetryInv
<1>3. /\ Len(epochs) \in Nat \ {0}
      /\ CurrentIndex = Len(epochs)
      /\ CurrentEpoch.keyNodeSet = Nodes
      /\ Nodes \subseteq KeyNode /\ Nodes # {} /\ IsFiniteSet(Nodes)
      /\ Cardinality(Nodes) \in Nat \ {0}
  BY <1>2, NewestFacts
<1>4. /\ NewestInForce' /\ Len(epochs') = Len(epochs) /\ Nodes' = Nodes
  BY <1>1, <1>2, SameEpochKeeps
<1>5. /\ opened \in 1 .. Len(epochs)
      /\ old \in BoxType(KeyNode, Accusation)
      /\ old.threshold = Majority23(Cardinality(epochs[opened].keyNodeSet))
      /\ old.confirmed <=> Cardinality(Voters(old)) >= old.threshold
  <2>1. CASE boxes[c][q] = NoBox
    <3> DEFINE t == Majority23(Cardinality(Nodes))
    <3>1. t \in Nat \ {0}
      BY <1>3, AllAreEnough
    <3>2. old = NewVoteBox(t) /\ opened = Len(epochs)
      BY <2>1, <1>3
    <3>3. NewVoteBox(t) \in BoxType(KeyNode, Accusation)
      BY <3>1, NewVoteBoxSound
    <3>4. NewVoteBox(t).threshold = t /\ NewVoteBox(t).confirmed = FALSE /\ Voters(NewVoteBox(t)) = {}
      BY DEF NewVoteBox, Voters
    <3>5. Cardinality({}) = 0
      BY FS_EmptySet
    <3> HIDE DEF t, old, opened
    <3>6. opened \in 1 .. Len(epochs)
      BY <3>2, <1>3
    <3>7. old.confirmed <=> Cardinality(Voters(old)) >= old.threshold
      BY <3>1, <3>2, <3>4, <3>5
    <3> QED
      BY <3>2, <3>3, <3>4, <3>6, <3>7 DEF t, Nodes
  <2>2. CASE boxes[c][q] # NoBox
    <3>1. since[c][q] # 0
      BY <2>2, <1>2 DEF RetryBoxSound
    <3> QED
      BY <3>1, <2>2, <1>2 DEF RetryBoxSound
  <2> QED
    BY <2>1, <2>2, Zenon
<1> HIDE DEF old, opened
<1>6. /\ new \in BoxType(KeyNode, Accusation)
      /\ new.threshold = old.threshold
      /\ Voters(new) = Voters(old) \cup {n}
      /\ new.confirmed <=> Cardinality(Voters(new)) >= new.threshold
  BY <1>5, AddRetryVoteSound, KeyNodeAssumption
<1> HIDE DEF new
<1>7. \A b \in Batch, r \in Round : <<b, r>> # <<c, q>> =>
        boxes'[b][r] = boxes[b][r] /\ since'[b][r] = since[b][r]
  BY <1>1 DEF RetryInv
<1>8. boxes'[c][q] = new /\ since'[c][q] = opened
  BY <1>1 DEF RetryInv
<1>9. DOMAIN boxes' = Batch /\ \A b \in Batch : DOMAIN boxes'[b] = Round
  BY <1>1 DEF RetryInv
<1>9a. since' \in [Batch -> [Round -> Nat]]
  <2>1. opened \in Nat
    BY <1>3, <1>5
  <2> QED
    BY <1>1, <2>1 DEF RetryInv
<1>10. ASSUME NEW b \in Batch, NEW r \in Round
       PROVE  RetryBoxSound(b, r)'
  <2>1. CASE <<b, r>> = <<c, q>>
    <3>1. b = c /\ r = q /\ opened # 0 /\ epochs' = epochs
      BY <2>1, <1>1, <1>3, <1>5
    <3>2. /\ since'[b][r] # 0 /\ since'[b][r] \in 1 .. Len(epochs')
          /\ boxes'[b][r] \in BoxType(KeyNode, Accusation)
          /\ boxes'[b][r].threshold = Majority23(Cardinality(epochs'[since'[b][r]].keyNodeSet))
      BY <3>1, <1>5, <1>6, <1>8
    <3>3. boxes'[b][r].confirmed <=> Cardinality(Voters(boxes'[b][r])) >= boxes'[b][r].threshold
      BY <3>1, <1>6, <1>8, Zenon
    <3> QED
      BY <3>2, <3>3 DEF RetryBoxSound, Voters
  <2>2. CASE <<b, r>> # <<c, q>>
    <3>1. RetryBoxSound(b, r) /\ since[b][r] \in Nat
      BY DEF RetryInv
    <3> QED
      BY <3>1, <2>2, <1>1, <1>3, <1>7, RetryBoxKept
  <2> QED
    BY <2>1, <2>2
<1> DEFINE settled == /\ <<c, q>> \notin handled
                      /\ handled' = handled \cup {<<c, q>>}
                      /\ \E bad \in SUBSET KeyNode : marks' = [marks EXCEPT ![c][q] = Append(@, bad)]
<1>11. UNCHANGED <<handled, marks>> \/ settled
  <2>1. CASE ~new.confirmed
    BY <2>1, <1>1
  <2>2. CASE new.confirmed
    BY <2>2, <1>1, <1>3, Zenon DEF handleOrderRetryEvidences
  <2> QED
    BY <2>1, <2>2, Zenon
<1>12. /\ marks' \in [Batch -> [Round -> Seq(SUBSET KeyNode)]]
       /\ \A b \in Batch, r \in Round : RoundMarks(b, r)'
  <2>1. CASE UNCHANGED <<handled, marks>>
    BY <2>1 DEF RetryInv, RoundMarks
  <2>2. CASE settled
    <3>1. PICK bad \in SUBSET KeyNode : marks' = [marks EXCEPT ![c][q] = Append(@, bad)]
      BY <2>2, Zenon
    <3>2. marks[c][q] \in Seq(SUBSET KeyNode) /\ Len(marks[c][q]) = 0
      BY <2>2 DEF RetryInv, RoundMarks
    <3>3. Append(marks[c][q], bad) \in Seq(SUBSET KeyNode) /\ Len(Append(marks[c][q], bad)) = 1
      BY <3>2
    <3>4. marks'[c][q] = Append(marks[c][q], bad)
      BY <3>1 DEF RetryInv
    <3>5. \A b \in Batch, r \in Round : <<b, r>> # <<c, q>> => marks'[b][r] = marks[b][r]
      BY <3>1 DEF RetryInv
    <3>6. marks' \in [Batch -> [Round -> Seq(SUBSET KeyNode)]]
      BY <3>1, <3>3 DEF RetryInv
    <3>7. ASSUME NEW b \in Batch, NEW r \in Round
          PROVE  RoundMarks(b, r)'
      <4>1. CASE <<b, r>> = <<c, q>>
        BY <4>1, <3>3, <3>4, <2>2 DEF RoundMarks
      <4>2. CASE <<b, r>> # <<c, q>>
        <5>1. RoundMarks(b, r) /\ marks'[b][r] = marks[b][r]
          BY <4>2, <3>5 DEF RetryInv
        <5> QED
          BY <5>1, <4>2, <2>2 DEF RoundMarks
      <4> QED
        BY <4>1, <4>2
    <3> QED
      BY <3>6, <3>7
  <2> QED
    BY <1>11, <2>1, <2>2, Zenon
<1>13. handled \subseteq handled'
  BY <1>11
<1>14. HandledWhenAllVoted'
  <2> SUFFICES ASSUME NEW b \in Batch, NEW r \in Round,
                      since'[b][r] = Len(epochs), Voters(boxes'[b][r]) = Nodes
               PROVE  <<b, r>> \in handled'
    BY <1>1, <1>3, Zenon DEF HandledWhenAllVoted, CurrentEpoch, CurrentIndex, EpochByHeight, EpochIndexByHeight
  <2>1. CASE <<b, r>> # <<c, q>>
    <3>1. since[b][r] = CurrentIndex /\ Voters(boxes[b][r]) = CurrentEpoch.keyNodeSet
      BY <2>1, <1>3, <1>7
    <3> QED
      BY <3>1, <1>13 DEF RetryInv, HandledWhenAllVoted
  <2>2. CASE <<b, r>> = <<c, q>>
    <3>1. opened = Len(epochs) /\ Voters(new) = Nodes
      BY <2>2, <1>8
    <3>2. new.threshold = Majority23(Cardinality(Nodes))
      BY <3>1, <1>5, <1>6 DEF Nodes
    <3>3. new.confirmed
      BY <3>1, <3>2, <1>3, <1>6, AllAreEnough, Zenon
    <3>4. ValidRetryVoters(new) = Nodes
      BY <3>1, <3>3 DEF ValidRetryVoters
    <3>5. handleOrderRetryEvidences(c, q, new)
      BY <3>3, <1>1
    <3> QED
      BY <3>4, <3>5, <2>2, <1>3 DEF handleOrderRetryEvidences
  <2> QED
    BY <2>1, <2>2
<1> QED
  BY <1>4, <1>9, <1>9a, <1>10, <1>12, <1>14 DEF RetryInv

(***************************************************************************)
(* An epoch change leaves every round as it is, and no open box is of the  *)
(* new epoch.                                                              *)
(***************************************************************************)
LEMMA RetryEpochBlockKeeps ==
    ASSUME RetryInv, NEW remove \in SUBSET KeyNode, NEW add \in SUBSET KeyNode,
           RetryEpochBlock(remove, add)
    PROVE  RetryInv'
<1>1. /\ UNCHANGED <<boxes, handled, marks, since>>
      /\ UpdateKeyNodes(remove, add) /\ height' = height + 1 /\ NewestInForce
  BY DEF RetryEpochBlock, RetryInv
<1>2. /\ NewestInForce'
      /\ Len(epochs') = Len(epochs) + 1
      /\ \A i \in 1 .. Len(epochs) : epochs'[i].keyNodeSet = epochs[i].keyNodeSet
  BY <1>1, EpochBlockKeeps
<1>3. Len(epochs) \in Nat \ {0}
  BY <1>1, NewestFacts
<1>4. ASSUME NEW b \in Batch, NEW r \in Round
     PROVE  RetryBoxSound(b, r)' /\ RoundMarks(b, r)'
  <2>1. RetryBoxSound(b, r) /\ RoundMarks(b, r) /\ since[b][r] \in Nat
    BY DEF RetryInv
  <2>2. RoundMarks(b, r)'
    BY <2>1, <1>1 DEF RoundMarks
  <2> QED
    BY <2>1, <2>2, <1>1, <1>2, <1>3, RetryBoxKept
<1>5. ASSUME NEW b \in Batch, NEW r \in Round
      PROVE  since[b][r] # Len(epochs')
  <2>1. since[b][r] \in 0 .. Len(epochs)
    BY <1>3 DEF RetryInv, RetryBoxSound
  <2> QED
    BY <1>2, <1>3, <2>1
<1>6. HandledWhenAllVoted'
  BY <1>1, <1>2, <1>5 DEF HandledWhenAllVoted, NewestInForce
<1> QED
  BY <1>1, <1>2, <1>4, <1>6 DEF RetryInv

\* Every step of the retries keeps the invariant.
LEMMA RetryInvStep == RetryInv /\ [RetryNext]_retryVars => RetryInv'
<1> SUFFICES ASSUME RetryInv, [RetryNext]_retryVars PROVE RetryInv'
  OBVIOUS
<1>1. ASSUME NEW n \in KeyNode, NEW b \in Batch, NEW r \in Round, NEW accused \in Accusation,
             OrderRetry(n, b, r, accused)
      PROVE  RetryInv'
  BY <1>1, OrderRetryKeeps
<1>2. ASSUME NEW remove \in SUBSET KeyNode, NEW add \in SUBSET KeyNode, RetryEpochBlock(remove, add)
      PROVE  RetryInv'
  BY <1>2, RetryEpochBlockKeeps
<1>3. ASSUME UNCHANGED <<height, boxes, handled, marks, since>>, UNCHANGED epochs \/ SetMigrationFinished
      PROVE  RetryInv'
  <2>1. NewestInForce
    BY DEF RetryInv
  <2>2. /\ NewestInForce'
        /\ Len(epochs') = Len(epochs)
        /\ \A i \in 1 .. Len(epochs) : epochs'[i].keyNodeSet = epochs[i].keyNodeSet
        /\ Nodes' = Nodes
    BY <1>3, <2>1, SameEpochKeeps
  <2>3. CurrentIndex' = CurrentIndex /\ CurrentEpoch'.keyNodeSet = CurrentEpoch.keyNodeSet
    <3>1. (NewestInForce => CurrentIndex = Len(epochs) /\ CurrentEpoch.keyNodeSet = Nodes)'
      BY NewestFacts, PTL
    <3> QED
      BY <2>1, <2>2, <3>1, NewestFacts
  <2>4. ASSUME NEW b \in Batch, NEW r \in Round
       PROVE  RetryBoxSound(b, r)' /\ RoundMarks(b, r)'
    <3>1. RetryBoxSound(b, r) /\ RoundMarks(b, r) /\ since[b][r] \in Nat
      BY DEF RetryInv
    <3>2. RoundMarks(b, r)'
      BY <3>1, <1>3 DEF RoundMarks
    <3>3. Len(epochs) \in Nat
      BY <2>1, NewestFacts
    <3> QED
      BY <3>1, <3>2, <3>3, <1>3, <2>2, RetryBoxKept
  <2>5. HandledWhenAllVoted'
    BY <1>3, <2>3 DEF RetryInv, HandledWhenAllVoted
  <2> QED
    BY <1>3, <2>2, <2>4, <2>5 DEF RetryInv
<1>4. ASSUME NEW b \in Batch, OrdersSigned(b)
      PROVE  RetryInv'
  BY <1>3, <1>4 DEF OrdersSigned, epochVars
<1>5. ASSUME MigrationDone
      PROVE  RetryInv'
  BY <1>3, <1>5 DEF MigrationDone
<1>6. CASE UNCHANGED retryVars
  BY <1>3, <1>6 DEF retryVars, epochVars
<1> QED
  BY <1>1, <1>2, <1>4, <1>5, <1>6 DEF RetryNext

(***************************************************************************)
(* For every set of key nodes and any number of rounds and epochs, the key *)
(* nodes get at most one mark per round, and a round in which all key      *)
(* nodes it was begun with have voted is settled                           *)
(* (handleOrderRetryEvidences).                                            *)
(***************************************************************************)
THEOREM RoundsAreSettledOnce == RetrySpec => []RoundsSettledOnce
<1>1. ASSUME RetryInv
      PROVE  RoundsSettledOnce
  <2>1. \A b \in Batch, r \in Round : RoundMarks(b, r)
    BY <1>1 DEF RetryInv
  <2>2. ASSUME NEW b \in Batch, NEW r \in Round
        PROVE  Len(marks[b][r]) =< 1
    <3>1. CASE <<b, r>> \in handled
      <4>1. Len(marks[b][r]) = 1
        BY <3>1, <2>1, Zenon DEF RoundMarks
      <4> QED
        BY <4>1
    <3>2. CASE <<b, r>> \notin handled
      <4>1. Len(marks[b][r]) = 0
        BY <3>2, <2>1 DEF RoundMarks
      <4> QED
        BY <4>1
    <3> QED
      BY <3>1, <3>2
  <2> QED
    BY <1>1, <2>2 DEF RetryInv, RoundsSettledOnce, MarkedOnce
<1> QED
  BY <1>1, RetryInvInit, RetryInvStep, PTL DEF RetrySpec

-----------------------------------------------------------------------------
(* HandleBehaviour.                                                        *)

\* The ring holds the last records, each at its place; no bit is set that no
\* record has set.
RingOf(log, bits) ==
    /\ \A j \in 1 .. Len(log) : j > Len(log) - BehaviourWindow => bits[(j - 1) % BehaviourWindow] = log[j]
    /\ \A i \in Index : i >= Len(log) => bits[i] = FALSE

WindowInv(b) ==
    /\ b \in ValidatorBehaviour
    /\ b.offset = Len(b.log)
    /\ RingOf(b.log, b.bits)
    /\ b.counter = Cardinality(InWindow(b.log))
    /\ b.counter =< MaxMisbehaviourCount

LEMMA DivMod ==
    ASSUME NEW W \in Nat \ {0}, NEW a \in Nat
    PROVE  a = W * (a \div W) + (a % W) /\ a \div W \in Nat /\ a % W \in 0 .. W - 1
OBVIOUS

LEMMA SmallMultiple ==
    ASSUME NEW W \in Nat \ {0}, NEW d \in Int, W * d < W, - W < W * d
    PROVE  d = 0
OBVIOUS

LEMMA FirstRound ==
    ASSUME NEW W \in Nat \ {0}, NEW a \in Nat, a < W
    PROVE  a % W = a
OBVIOUS

\* Records less than a window apart have different places in the ring.
LEMMA ApartInWindow ==
    ASSUME NEW W \in Nat \ {0}, NEW a \in Nat, NEW b \in Nat, a < b, b - a < W
    PROVE  a % W # b % W
<1> DEFINE p == a \div W
           q == b \div W
           r == a % W
           s == b % W
<1>1. a = W * p + r /\ b = W * q + s /\ p \in Nat /\ q \in Nat /\ r \in Nat /\ s \in Nat
  BY DivMod
<1> HIDE DEF p, q, r, s
<1>2. ASSUME r = s
      PROVE  FALSE
  <2>1. W * (q - p) = b - a
    BY <1>1, <1>2
  <2>2. q - p = 0
    BY <1>1, <2>1, SmallMultiple
  <2> QED
    BY <2>1, <2>2
<1> QED
  BY <1>2 DEF r, s

\* A record replaces the one of a window before.
LEMMA WindowBefore ==
    ASSUME NEW W \in Nat \ {0}, NEW a \in Nat, a >= W
    PROVE  (a - W) % W = a % W
<1> DEFINE c == a - W
           p == c \div W
           q == a \div W
           r == c % W
           s == a % W
<1>1. c \in Nat /\ c = a - W
  OBVIOUS
<1>2. c = W * p + r /\ a = W * q + s /\ p \in Nat /\ q \in Nat /\ r \in 0 .. W - 1 /\ s \in 0 .. W - 1
  BY <1>1, DivMod, Zenon
<1> HIDE DEF c, p, q, r, s
<1>3. W * (q - p - 1) = r - s
  BY <1>1, <1>2
<1>4. q - p - 1 = 0
  BY <1>2, <1>3, SmallMultiple
<1>5. r = s
  BY <1>2, <1>3, <1>4
<1> QED
  BY <1>5 DEF r, s, c

LEMMA PartOfInterval ==
    ASSUME NEW n \in Nat, NEW S \in SUBSET (1 .. n)
    PROVE  IsFiniteSet(S) /\ Cardinality(S) \in Nat
<1>1. IsFiniteSet(1 .. n)
  BY FS_Interval
<1>2. IsFiniteSet(S)
  BY <1>1, FS_Subset, Zenon
<1> QED
  BY <1>2, FS_CardinalityType

\* The bit that is overwritten is the record that leaves the window.
LEMMA BitOfLeaving ==
    ASSUME NEW b, WindowInv(b)
    PROVE  b.bits[Len(b.log) % BehaviourWindow] <=> Len(b.log) - BehaviourWindow + 1 \in InWindow(b.log)
<1> DEFINE n == Len(b.log)
           W == BehaviourWindow
<1>1. /\ n \in Nat /\ W \in Nat \ {0} /\ DOMAIN b.log = 1 .. n
      /\ b.bits \in [Index -> BOOLEAN] /\ b.log \in Seq(BOOLEAN)
      /\ \A j \in 1 .. n : j > n - W => b.bits[(j - 1) % W] = b.log[j]
      /\ \A i \in Index : i >= n => b.bits[i] = FALSE
  BY EvidenceAssumption DEF WindowInv, ValidatorBehaviour, RingOf
<1>2. InWindow(b.log) = {i \in 1 .. n : i > n - W /\ b.log[i]}
  BY <1>1 DEF InWindow
<1> HIDE DEF n, W
<1>3. CASE n < W
  <2>0. n % W = n
    BY <1>1, <1>3, FirstRound, Zenon
  <2>1. n \in Index
    BY <1>1, <1>3 DEF Index, W
  <2>2. n - W + 1 \notin InWindow(b.log)
    BY <1>1, <1>2, <1>3
  <2>3. b.bits[n % W] = FALSE
    BY <1>1, <2>0, <2>1
  <2> QED
    BY <2>2, <2>3 DEF n, W
<1>4. CASE n >= W
  <2>1. (n - W) % W = n % W
    BY <1>1, <1>4, WindowBefore, Zenon
  <2>2. n - W + 1 \in 1 .. n /\ n - W + 1 > n - W /\ (n - W + 1) - 1 = n - W
    BY <1>1, <1>4
  <2>3. b.bits[n % W] = b.log[n - W + 1]
    BY <1>1, <2>1, <2>2
  <2>4. n - W + 1 \in InWindow(b.log) <=> b.log[n - W + 1]
    BY <1>2, <2>2
  <2> QED
    BY <2>3, <2>4 DEF n, W
<1> QED
  BY <1>1, <1>3, <1>4

\* What a record does to the window.
LEMMA WindowMoves ==
    ASSUME NEW b, WindowInv(b), NEW m \in BOOLEAN
    PROVE  Cardinality(InWindow(Append(b.log, m)))
             = b.counter + CountChange(b.bits[Len(b.log) % BehaviourWindow], m)
<1> DEFINE n == Len(b.log)
           W == BehaviourWindow
           old == b.bits[n % W]
           S == InWindow(b.log)
           T == S \ {n - W + 1}
<1>1. n \in Nat /\ W \in Nat \ {0} /\ b.log \in Seq(BOOLEAN) /\ DOMAIN b.log = 1 .. n /\ b.counter = Cardinality(S)
  BY EvidenceAssumption DEF WindowInv, ValidatorBehaviour, RingOf
<1>2. S = {i \in 1 .. n : i > n - W /\ b.log[i]}
  BY <1>1 DEF InWindow
<1>3. IsFiniteSet(S) /\ Cardinality(S) \in Nat
  <2>1. S \subseteq 1 .. n
    BY <1>2
  <2> HIDE DEF S
  <2> QED
    BY <1>1, <2>1, PartOfInterval, Zenon
<1>4. IsFiniteSet(T) /\ Cardinality(T) = IF old THEN Cardinality(S) - 1 ELSE Cardinality(S)
  <2>1. old <=> n - W + 1 \in S
    BY BitOfLeaving
  <2> QED
    BY <1>3, <2>1, FS_RemoveElement
<1>5. /\ Len(Append(b.log, m)) = n + 1 /\ DOMAIN Append(b.log, m) = 1 .. n + 1
      /\ \A i \in 1 .. n : Append(b.log, m)[i] = b.log[i]
      /\ Append(b.log, m)[n + 1] = m
  BY <1>1
<1>6. InWindow(Append(b.log, m)) = {i \in 1 .. n + 1 : i > n + 1 - W /\ Append(b.log, m)[i]}
  BY <1>1, <1>5 DEF InWindow, W
<1>9. old \in BOOLEAN
  <2>1. n % W \in Index
    BY <1>1, DivMod, Zenon DEF Index
  <2> QED
    BY <2>1 DEF WindowInv, ValidatorBehaviour
<1> HIDE DEF n, W, old, S
<1>7. CASE m = TRUE
  <2>1. InWindow(Append(b.log, m)) = T \cup {n + 1}
    BY <1>1, <1>2, <1>5, <1>6, <1>7
  <2>2. n + 1 \notin T
    BY <1>1, <1>2
  <2>3. Cardinality(T \cup {n + 1}) = Cardinality(T) + 1
    BY <1>4, <2>2, FS_AddElement
  <2>4. Cardinality(T) + 1 = b.counter + CountChange(old, m)
    BY <1>1, <1>3, <1>4, <1>7, <1>9 DEF CountChange
  <2> QED
    BY <2>1, <2>3, <2>4 DEF old, n, W
<1>8. CASE m = FALSE
  <2>1. InWindow(Append(b.log, m)) = T
    BY <1>1, <1>2, <1>5, <1>6, <1>8
  <2>2. Cardinality(T) = b.counter + CountChange(old, m)
    BY <1>1, <1>3, <1>4, <1>8, <1>9 DEF CountChange
  <2> QED
    BY <2>1, <2>2 DEF old, n, W
<1> QED
  BY <1>7, <1>8, Zenon

\* A clean window.
LEMMA CleanWindow ==
    ASSUME NEW k \in Nat
    PROVE  WindowInv([NoBehaviour EXCEPT !.slashes = k])
<1> DEFINE b == [NoBehaviour EXCEPT !.slashes = k]
<1>1. b = [offset |-> 0, counter |-> 0, bits |-> NoMisbehaviour, slashes |-> k, log |-> << >>]
  BY DEF NoBehaviour
<1>2. b \in ValidatorBehaviour /\ b.offset = 0 /\ b.counter = 0 /\ b.log = << >> /\ b.bits = NoMisbehaviour
  <2>1. NoMisbehaviour \in [Index -> BOOLEAN] /\ << >> \in Seq(BOOLEAN) /\ 0 \in Nat
    BY DEF NoMisbehaviour
  <2> HIDE DEF b
  <2> QED
    BY <1>1, <2>1 DEF ValidatorBehaviour
<1> HIDE DEF b
<1>3. InWindow(b.log) = {} /\ Len(b.log) = 0
  BY <1>2 DEF InWindow
<1>4. Cardinality(InWindow(b.log)) = 0
  BY <1>3, FS_EmptySet
<1>5. WindowInv(b)
  BY <1>2, <1>3, <1>4, EvidenceAssumption DEF WindowInv, NoMisbehaviour, RingOf
<1> QED
  BY <1>5 DEF b

\* HandleBehaviour keeps the window.
LEMMA HandleKeepsWindow ==
    ASSUME NEW b, WindowInv(b), NEW normal \in BOOLEAN
    PROVE  WindowInv(Handle(b, normal))
<1> DEFINE n == Len(b.log)
           W == BehaviourWindow
           m == ~normal
           index == n % W
           counter == b.counter + CountChange(b.bits[index], m)
           bits == [b.bits EXCEPT ![index] = m]
           log == Append(b.log, m)
           c == [b EXCEPT !.offset = n + 1, !.counter = counter, !.bits = bits, !.log = log]
<1>1. /\ n \in Nat /\ W \in Nat \ {0} /\ DOMAIN b.log = 1 .. n /\ b.log \in Seq(BOOLEAN)
      /\ b.bits \in [Index -> BOOLEAN] /\ b.offset = n /\ b.slashes \in Nat
      /\ \A j \in 1 .. n : j > n - W => b.bits[(j - 1) % W] = b.log[j]
      /\ \A i \in Index : i >= n => b.bits[i] = FALSE
  BY EvidenceAssumption DEF WindowInv, ValidatorBehaviour, RingOf
<1>2. Handle(b, normal) = IF counter > MaxMisbehaviourCount THEN Cleared(b) ELSE c
  BY <1>1 DEF Handle
<1>3. CASE counter > MaxMisbehaviourCount
  <2>1. b.slashes + 1 \in Nat
    BY <1>1
  <2>2. WindowInv(Cleared(b))
    BY <2>1, CleanWindow DEF Cleared
  <2> QED
    BY <1>2, <1>3, <2>2
<1>4. CASE ~(counter > MaxMisbehaviourCount)
  <2>1. counter = Cardinality(InWindow(log))
    BY WindowMoves, Zenon
  <2>2. m \in BOOLEAN /\ index \in Index
    BY <1>1, DivMod, Zenon DEF Index
  <2>3. bits \in [Index -> BOOLEAN] /\ bits[index] = m /\ \A i \in Index \ {index} : bits[i] = b.bits[i]
    BY <1>1, <2>2, Zenon
  <2>4. /\ log \in Seq(BOOLEAN) /\ Len(log) = n + 1 /\ log[n + 1] = m
        /\ DOMAIN log = 1 .. n + 1 /\ \A j \in 1 .. n : log[j] = b.log[j]
    BY <1>1, <2>2
  <2> HIDE DEF counter, bits, log, m, index
  <2>6. counter \in Nat /\ counter =< MaxMisbehaviourCount
    <3>1. InWindow(log) \subseteq 1 .. n + 1
      BY <2>4 DEF InWindow
    <3>2. Cardinality(InWindow(log)) \in Nat
      <4>1. n + 1 \in Nat
        BY <1>1
      <4> QED
        BY <3>1, <4>1, PartOfInterval, Zenon
    <3> QED
      BY <1>4, <2>1, <3>2, EvidenceAssumption
  <2>7. c \in ValidatorBehaviour /\ c.offset = n + 1 /\ c.counter = counter /\ c.bits = bits /\ c.log = log
    <3>1. b \in ValidatorBehaviour /\ n + 1 \in Nat
      BY <1>1 DEF WindowInv
    <3> HIDE DEF n
    <3> QED
      BY <3>1, <2>3, <2>4, <2>6, Zenon DEF ValidatorBehaviour
  <2> HIDE DEF c
  <2>8. ASSUME NEW j \in 1 .. n + 1, j > n + 1 - W
        PROVE  bits[(j - 1) % W] = log[j]
    <3>1. CASE j = n + 1
      <4>1. j - 1 = n
        BY <1>1, <3>1
      <4> QED
        BY <2>3, <2>4, <3>1, <4>1 DEF index
    <3>2. CASE j # n + 1
      <4>1. j \in 1 .. n /\ j > n - W /\ j - 1 \in Nat /\ j - 1 < n /\ n - (j - 1) < W
        BY <1>1, <2>8, <3>2
      <4>2. (j - 1) % W # index
        BY <1>1, <4>1, ApartInWindow, Zenon DEF index
      <4>3. (j - 1) % W \in Index
        BY <1>1, <4>1, DivMod DEF Index
      <4> QED
        BY <1>1, <2>3, <2>4, <4>1, <4>2, <4>3
    <3> QED
      BY <3>1, <3>2
  <2>9. ASSUME NEW i \in Index, i >= n + 1
        PROVE  bits[i] = FALSE
    <3>1. i \in Nat /\ n < W
      BY <1>1, <2>9 DEF Index
    <3>2. index = n
      BY <1>1, <3>1, FirstRound, Zenon DEF index
    <3> QED
      BY <1>1, <2>3, <2>9, <3>1, <3>2
  <2>10. WindowInv(c)
    <3>1. RingOf(log, bits)
      <4>1. ASSUME NEW j \in 1 .. Len(log), j > Len(log) - W
            PROVE  bits[(j - 1) % W] = log[j]
        <5>1. j \in 1 .. n + 1 /\ j > n + 1 - W
          BY <1>1, <2>4, <4>1
        <5> QED
          BY <5>1, <2>8, Zenon
      <4>2. \A i \in Index : i >= Len(log) => bits[i] = FALSE
        BY <2>4, <2>9, Zenon
      <4> QED
        BY <4>1, <4>2, Zenon DEF RingOf, W
    <3> QED
      BY <2>1, <2>4, <2>6, <2>7, <3>1 DEF WindowInv
  <2> QED
    BY <1>2, <1>4, <2>10
<1> QED
  BY <1>3, <1>4

(***************************************************************************)
(* However calls of HandleBehaviour and slashes follow each other, the     *)
(* counter is the number of misbehaviours among the last BehaviourWindow   *)
(* records of the key node, and never passes MaxMisbehaviourCount.         *)
(***************************************************************************)
THEOREM RingIsAlwaysSlidingWindow == BehaviourSpec => []RingIsSlidingWindow
<1> DEFINE Inv == behaviour = [v \in KeyNode |-> behaviour[v]] /\ \A v \in KeyNode : WindowInv(behaviour[v])
<1>1. BehaviourInit => Inv
  <2>1. WindowInv([NoBehaviour EXCEPT !.slashes = 0]) /\ [NoBehaviour EXCEPT !.slashes = 0] = NoBehaviour
    BY CleanWindow DEF NoBehaviour
  <2> QED
    BY <2>1 DEF BehaviourInit
<1>2. ASSUME Inv, [\E v \in KeyNode, normal \in BOOLEAN : HandleBehaviour(v, normal)]_behaviour
      PROVE  Inv'
  <2>1. CASE UNCHANGED behaviour
    BY <1>2, <2>1
  <2>2. CASE \E v \in KeyNode, normal \in BOOLEAN : HandleBehaviour(v, normal)
    <3>1. PICK v \in KeyNode, normal \in BOOLEAN : HandleBehaviour(v, normal)
      BY <2>2
    <3>2. WindowInv(Handle(behaviour[v], normal))
      BY <1>2, HandleKeepsWindow
    <3> QED
      BY <1>2, <3>1, <3>2 DEF HandleBehaviour
  <2> QED
    BY <1>2, <2>1, <2>2
<1>3. Inv => RingIsSlidingWindow
  BY DEF WindowInv, ValidatorBehaviour, RingIsSlidingWindow
<1> QED
  BY <1>1, <1>2, <1>3, PTL DEF BehaviourSpec

=============================================================================
