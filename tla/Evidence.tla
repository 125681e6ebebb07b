------------------------------ MODULE Evidence ------------------------------
(***************************************************************************)
(* Voting by key nodes (x/evidence keeper): the vote boxes, the list of    *)
(* confirmed votes that wait for their count, and the end blocker that     *)
(* charges the key nodes who did not vote for a confirmed result.          *)
(* Every caller of Vote in x/transfer first requires IsActiveKeyNode.      *)
(***************************************************************************)
EXTENDS VoteBox, Epochs, Folds

CONSTANTS VoteID,          \* vote identifiers, natural numbers (store order)
          Vote,            \* vote contents
          DelayBlock,      \* BehaviourCountDelayBlock
          BehaviourWindow, MaxMisbehaviourCount

ASSUME EvidenceAssumption ==
    /\ VoteID \subseteq Nat
    /\ NoResult \notin Vote
    /\ DelayBlock \in Nat
    /\ BehaviourWindow \in Nat \ {0}
    /\ MaxMisbehaviourCount \in Nat

VARIABLES box,            \* VoteID -> vote box, on the identifiers voted on so far
          confirmedVote,  \* stored keys <<height, voteID>> of votes not yet counted
          behaviour,      \* misbehaviour windows of the key nodes, for one behaviour key
          missed,         \* history: votes a key node was charged with missing
          counted         \* history: votes counted by the end blocker

evidenceVars == <<height, epochs, box, confirmedVote, behaviour, missed, counted>>

(***************************************************************************)
(* HandleBehaviour: the last BehaviourWindow records of a key node are     *)
(* kept in a ring of bits with a running count of the set ones; more than  *)
(* MaxMisbehaviourCount of them slash and jail it and clear the ring.      *)
(* `log' is a history of the records since the last clearing, `slashes'    *)
(* counts SlashByOperator and JailByOperator.                              *)
(***************************************************************************)
Index == 0 .. BehaviourWindow - 1

NoMisbehaviour == [i \in Index |-> FALSE]

ValidatorBehaviour ==
    [offset : Nat, counter : Nat, bits : [Index -> BOOLEAN],
     slashes : Nat, log : Seq(BOOLEAN)]

NoBehaviour ==
    [offset |-> 0, counter |-> 0, bits |-> NoMisbehaviour, slashes |-> 0, log |-> << >>]

\* The counter after the bit at the current index changes from previous to misbehaved.
CountChange(previous, misbehaved) ==
    IF misbehaved /\ ~previous THEN 1 ELSE IF previous /\ ~misbehaved THEN -1 ELSE 0

\* The behaviour record of a validator slashed, jailed and given a clean window.
Cleared(b) == [NoBehaviour EXCEPT !.slashes = b.slashes + 1]

\* HandleBehaviour on the record of one validator.
Handle(b, normal) ==
    LET index   == b.offset % BehaviourWindow
        counter == b.counter + CountChange(b.bits[index], ~normal)
    IN  IF counter > MaxMisbehaviourCount
        THEN Cleared(b)
        ELSE [b EXCEPT !.offset  = b.offset + 1,
                       !.counter = counter,
                       !.bits    = [b.bits EXCEPT ![index] = ~normal],
                       !.log     = Append(b.log, ~normal)]

BehaviourInit == behaviour = [v \in KeyNode |-> NoBehaviour]

HandleBehaviour(v, normal) ==
    behaviour' = [behaviour EXCEPT ![v] = Handle(behaviour[v], normal)]

\* The calls of HandleBehaviour, in any order.
BehaviourSpec ==
    BehaviourInit /\ [][\E v \in KeyNode, normal \in BOOLEAN : HandleBehaviour(v, normal)]_behaviour

-----------------------------------------------------------------------------
Box == [threshold : Nat, items : UNION {[S -> Vote] : S \in SUBSET KeyNode},
        confirmed : BOOLEAN, result : Vote \cup {NoResult}]

BoxTypeOK ==
    /\ DOMAIN box \subseteq VoteID
    /\ \A id \in DOMAIN box :
        box[id] \in Box /\ (box[id].confirmed => box[id].result \in Vote)

TypeOK ==
    /\ height \in Nat
    /\ epochs \in Seq(Epoch)
    /\ BoxTypeOK
    /\ confirmedVote \subseteq Nat \X VoteID
    /\ behaviour \in [KeyNode -> ValidatorBehaviour]
    /\ missed \in [KeyNode -> SUBSET VoteID]
    /\ counted \subseteq VoteID

Init ==
    /\ EpochsInit
    /\ box = << >>
    /\ confirmedVote = {}
    /\ BehaviourInit
    /\ missed = [v \in KeyNode |-> {}]
    /\ counted = {}

-----------------------------------------------------------------------------
\* getVoteBox, or a new box whose threshold is two thirds of today's key nodes.
BoxOf(id) ==
    IF id \in DOMAIN box
    THEN box[id]
    ELSE NewVoteBox(Majority23(Cardinality(CurrentEpoch.keyNodeSet)))

\* Keeper.Vote by an active key node, in the block being executed.
CastVote(voter, id, vote) ==
    LET old == BoxOf(id)
        new == AddVote(old, voter, vote)
    IN  /\ IsActiveKeyNode(voter)
        /\ box' = [i \in DOMAIN box \cup {id} |-> IF i = id THEN new ELSE box[i]]
        /\ confirmedVote' = IF FirstConfirmed(old, new)
                            THEN confirmedVote \cup {<<height, id>>}
                            ELSE confirmedVote
        /\ UNCHANGED <<height, epochs, behaviour, missed, counted>>

\* The confirmed votes whose delay is over.
Due == {c \in confirmedVote : height > DelayBlock /\ c[1] =< height - DelayBlock}

\* They are counted newest first (reverse iteration over the store): the
\* oldest one is the last.
LastCounted(votes) ==
    CHOOSE c \in votes : \A d \in votes : c[1] < d[1] \/ (c[1] = d[1] /\ c[2] =< d[2])

\* Whether key node v is expected to have voted for c, and whether it has not.
Expected(v, c) == v \in EpochByHeight(c[1]).keyNodeSet

Missing(v, c) == Expected(v, c) /\ v \notin ValidVoters(box[c[2]])

\* A slip in RecordMisbehaviourVoter: who voted is charged, who did not is not.
ChargedInverted(v, votes) ==
    MapThenFoldSet(LAMBDA c, b : IF Expected(v, c) THEN Handle(b, Missing(v, c)) ELSE b,
                   behaviour[v], LAMBDA c : c, LastCounted, votes)

\* The behaviour window of key node v after the votes are counted.
Charged(v, votes) ==
    MapThenFoldSet(LAMBDA c, b : IF Expected(v, c) THEN Handle(b, ~Missing(v, c)) ELSE b,
                   behaviour[v], LAMBDA c : c, LastCounted, votes)

\* RecordMisbehaviourVoter in the end blocker, which ends the block.
EndBlock ==
    /\ behaviour' = [v \in KeyNode |-> Charged(v, Due)]
    /\ missed' = [v \in KeyNode |-> missed[v] \cup {c[2] : c \in {d \in Due : Missing(v, d)}}]
    /\ counted' = counted \cup {c[2] : c \in Due}
    /\ confirmedVote' = confirmedVote \ Due
    /\ height' = height + 1
    /\ UNCHANGED <<epochs, box>>

(***************************************************************************)
(* Governance runs in the end blocker before x/evidence; the epoch it      *)
(* starts is in force from the next block only, so the votes and counts of *)
(* this block do not depend on it.                                         *)
(***************************************************************************)
PassUpdateKeyNodes ==
    /\ \E remove, add \in SUBSET KeyNode : UpdateKeyNodes(remove, add)
    /\ UNCHANGED <<height, box, confirmedVote, behaviour, missed, counted>>

\* checkOpcusMigrationStatus has found every operation CU migrated.
FinishMigration ==
    /\ ~CurrentEpoch.migrationFinished
    /\ SetMigrationFinished
    /\ UNCHANGED <<height, box, confirmedVote, behaviour, missed, counted>>

Next ==
    \/ \E voter \in KeyNode, id \in VoteID, vote \in Vote : CastVote(voter, id, vote)
    \/ PassUpdateKeyNodes
    \/ FinishMigration
    \/ EndBlock

Spec == Init /\ [][Next]_evidenceVars

-----------------------------------------------------------------------------
(***************************************************************************)
(* A confirmed box holds at least threshold voters for its result, however *)
(* many voters were appended since; and no vote of an unconfirmed box has  *)
(* reached the threshold, so no confirmation was missed when votes were    *)
(* changed (VoteBox.AddVote).                                              *)
(***************************************************************************)
ConfirmedByThreshold ==
    \A id \in DOMAIN box :
        IF box[id].confirmed
        THEN Cardinality(VotersFor(box[id], box[id].result)) >= box[id].threshold
        ELSE Winners(box[id]) = {}

(***************************************************************************)
(* The vote that confirms a box is the confirmed result: callers such as   *)
(* processDepositOrderIDs act on the last voter's vote, not on Result.     *)
(***************************************************************************)
LastVoteIsResult ==
    [][\A id \in DOMAIN box' :
        FirstConfirmed(BoxOf(id), box'[id]) =>
            \A w \in Voters(box'[id]) :
                (w \notin Voters(BoxOf(id)) \/ box'[id].items[w] # BoxOf(id).items[w])
                    => box'[id].items[w] = box'[id].result]_evidenceVars

(***************************************************************************)
(* A confirmation is final: neither the result nor the vote of anyone who  *)
(* has voted changes once a box is confirmed.                              *)
(***************************************************************************)
ConfirmationFinal ==
    [][\A id \in DOMAIN box :
        box[id].confirmed =>
            /\ box'[id].confirmed
            /\ box'[id].result = box[id].result
            /\ \A w \in Voters(box[id]) : box'[id].items[w] = box[id].items[w]]_evidenceVars

(***************************************************************************)
(* Every confirmed vote is counted exactly once: it waits in the confirmed *)
(* list under one height or has been counted, never both and never twice.  *)
(***************************************************************************)
Waiting(id) == \E c \in confirmedVote : c[2] = id

CountedOnce ==
    /\ \A c, d \in confirmedVote : c[2] = d[2] => c = d
    /\ \A id \in VoteID :
        /\ ~(id \in counted /\ Waiting(id))
        /\ (id \in counted \/ Waiting(id)) <=> (id \in DOMAIN box /\ box[id].confirmed)

(***************************************************************************)
(* Only a key node that missed more than MaxMisbehaviourCount confirmed    *)
(* votes of its epochs, after the delay it is granted, is ever slashed.    *)
(***************************************************************************)
SlashedOnlyForMissedVotes ==
    \A v \in KeyNode :
        behaviour[v].slashes > 0 => Cardinality(missed[v]) > MaxMisbehaviourCount

\* The misbehaviours among the last BehaviourWindow records of a log.
InWindow(log) == {i \in DOMAIN log : i > Len(log) - BehaviourWindow /\ log[i]}

(***************************************************************************)
(* The ring is a sliding window: the counter is the number of              *)
(* misbehaviours among the last BehaviourWindow records, and it never      *)
(* passes the limit without a slash.                                       *)
(***************************************************************************)
RingIsSlidingWindow ==
    \A v \in KeyNode :
        /\ behaviour[v].counter = Cardinality(InWindow(behaviour[v].log))
        /\ behaviour[v].counter \in 0 .. MaxMisbehaviourCount

(***************************************************************************)
(* The comment on VoteBox: "It's confirmed when over 2/3 validators vote   *)
(* to the same results", read for the key nodes of the epoch in which the  *)
(* box is confirmed.  The threshold is fixed when the box is created and   *)
(* the votes of removed key nodes stay, so a change of epoch between the   *)
(* first and the last vote breaks it.                                      *)
(***************************************************************************)
ConfirmedByCurrentTwoThirds ==
    [][\A id \in DOMAIN box' :
        FirstConfirmed(BoxOf(id), box'[id]) =>
            Cardinality(VotersFor(box'[id], box'[id].result) \cap CurrentEpoch.keyNodeSet)
                >= Majority23(Cardinality(CurrentEpoch.keyNodeSet))]_evidenceVars

=============================================================================
