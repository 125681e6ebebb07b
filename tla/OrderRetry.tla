----------------------------- MODULE OrderRetry -----------------------------
(***************************************************************************)
(* Retries of orders that are not signed in time (OrderRetry of            *)
(* x/transfer).  Key nodes vote in numbered rounds that an order has to be *)
(* signed again and accuse nodes of having spoilt the last attempt; enough *)
(* votes, whatever they say, end the round.  A round's accusations are     *)
(* settled once: for each key node a good or bad mark for HandleBehaviour. *)
(*                                                                         *)
(* A batch is the orders that share one raw transaction.                   *)
(***************************************************************************)
EXTENDS Epochs, VoteBox

CONSTANTS Batch,
          Accusation,  \* sets of key nodes that a vote accuses
          MaxRound     \* bound on the rounds that are explored

VARIABLES signing,   \* batches whose orders wait for signatures
          round,     \* OrderRetryTimes
          boxes,     \* vote boxes, by batch and round
          handled,   \* rounds whose evidence is handled
          marks,     \* history: HandleBehaviour calls, bad marks by round
          since      \* history: epoch in which a box was opened

retryVars == <<epochVars, signing, round, boxes, handled, marks, since>>

Round == 0 .. MaxRound

NoBox == NewVoteBox(0)

RetryInit ==
    /\ EpochsInit
    /\ signing = Batch
    /\ round = [b \in Batch |-> 0]
    /\ boxes = [b \in Batch |-> [r \in Round |-> NoBox]]
    /\ handled = {}
    /\ marks = [b \in Batch |-> [r \in Round |-> << >>]]
    /\ since = [b \in Batch |-> [r \in Round |-> 0]]

\* Nodes that two thirds of the key nodes in force are needed to accuse.
Malicious(box) ==
    {n \in KeyNode : Cardinality({v \in ValidRetryVoters(box) : n \in box.items[v]})
                        >= Majority23(Cardinality(CurrentEpoch.keyNodeSet))}

SettleForAccused(b, r, box) ==
    LET bad == Malicious(box) IN
    IF <<b, r>> \in handled \/ bad = {}
    THEN UNCHANGED <<handled, marks>>
    ELSE /\ handled' = handled \cup {<<b, r>>}
         /\ marks' = [marks EXCEPT ![b][r] = Append(@, bad \cap CurrentEpoch.keyNodeSet)]

\* handleOrderRetryEvidences
handleOrderRetryEvidences(b, r, box) ==
    LET bad == Malicious(box) IN
    IF \/ <<b, r>> \in handled
       \/ bad = {} /\ Cardinality(ValidRetryVoters(box)) # Cardinality(CurrentEpoch.keyNodeSet)
    THEN UNCHANGED <<handled, marks>>
    ELSE /\ handled' = handled \cup {<<b, r>>}
         /\ marks' = [marks EXCEPT ![b][r] = Append(@, bad \cap CurrentEpoch.keyNodeSet)]

\* Votes are for the current round and for the next one.
RoundOpen(b, r) == round[b] =< r /\ r =< round[b] + 1

OrderRetry(n, b, r, accused) ==
    LET old == IF boxes[b][r] = NoBox
               THEN NewVoteBox(Majority23(Cardinality(CurrentEpoch.keyNodeSet))) ELSE boxes[b][r]
        new == AddRetryVote(old, n, accused)
    IN  /\ IsActiveKeyNode(n)
        /\ b \in signing
        /\ RoundOpen(b, r)
        /\ boxes' = [boxes EXCEPT ![b][r] = new]
        /\ since' = [since EXCEPT ![b][r] = IF boxes[b][r] = NoBox THEN CurrentIndex ELSE @]
        /\ round' = IF FirstConfirmed(old, new) THEN [round EXCEPT ![b] = r] ELSE round
        /\ IF new.confirmed THEN handleOrderRetryEvidences(b, r, new) ELSE UNCHANGED <<handled, marks>>
        /\ UNCHANGED <<epochVars, signing>>

\* The orders of a batch are signed.
OrdersSigned(b) ==
    /\ signing' = signing \ {b}
    /\ UNCHANGED <<epochVars, round, boxes, handled, marks, since>>

RetryEpochBlock(remove, add) ==
    /\ UpdateKeyNodes(remove, add)
    /\ height' = height + 1
    /\ UNCHANGED <<signing, round, boxes, handled, marks, since>>

\* checkOpcusMigrationStatus has found every operation CU migrated.
MigrationDone ==
    /\ ~CurrentEpoch.migrationFinished
    /\ SetMigrationFinished
    /\ UNCHANGED <<height, signing, round, boxes, handled, marks, since>>

RetryNext ==
    \/ \E n \in KeyNode, b \in Batch, r \in Round, accused \in Accusation : OrderRetry(n, b, r, accused)
    \/ \E b \in Batch : OrdersSigned(b)
    \/ \E remove, add \in SUBSET KeyNode : RetryEpochBlock(remove, add)
    \/ MigrationDone

RetrySpec == RetryInit /\ [][RetryNext]_retryVars

-----------------------------------------------------------------------------
(***************************************************************************)
(* The key nodes get one mark per round, though the evidence is looked at  *)
(* again with every vote after the confirmation.                           *)
(***************************************************************************)
MarkedOnce == \A b \in Batch, r \in Round : Len(marks[b][r]) =< 1

(***************************************************************************)
(* Once all key nodes have voted in a round its evidence is handled, if    *)
(* they are the key nodes the round was begun with.                        *)
(***************************************************************************)
HandledWhenAllVoted ==
    \A b \in Batch, r \in Round :
        /\ since[b][r] = CurrentIndex
        /\ Voters(boxes[b][r]) = CurrentEpoch.keyNodeSet
        => <<b, r>> \in handled

RoundsSettledOnce == MarkedOnce /\ HandledWhenAllVoted

=============================================================================
