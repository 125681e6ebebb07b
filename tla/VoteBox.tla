------------------------------ MODULE VoteBox ------------------------------
(***************************************************************************)
(* The vote boxes of x/evidence and x/transfer, as operators on records.   *)
(* A box collects at most one vote per voter and is confirmed once; the    *)
(* order of the stored vote items is abstracted away, because a default    *)
(* box is confirmed by the very vote that first reaches the threshold (see *)
(* EvidenceProofs) and a retry box by the number of its voters.            *)
(***************************************************************************)
EXTENDS Integers, FiniteSets

CONSTANT NoResult    \* the nil Result of a box that is not confirmed

\* More than two thirds of n, in Go's integer division.
Majority23(n) == (2 * n) \div 3 + 1

NewVoteBox(confirmThreshold) ==
    [threshold |-> confirmThreshold, items |-> << >>,
     confirmed |-> FALSE, result |-> NoResult]

Voters(b) == DOMAIN b.items

\* The voters of box b whose stored vote is v.
VotersFor(b, v) == {w \in Voters(b) : b.items[w] = v}

\* A slip in AddVote: a voter may change its vote in a confirmed box.
StoreVoteAnytime(b, voter, vote) ==
    [w \in Voters(b) \cup {voter} |-> IF w = voter THEN vote ELSE b.items[w]]

(***************************************************************************)
(* Storing a vote: a voter who has voted may change the vote until the box *)
(* is confirmed; a new voter is appended even to a confirmed box.          *)
(***************************************************************************)
StoreVote(b, voter, vote) ==
    IF voter \in Voters(b) /\ b.confirmed
    THEN b.items
    ELSE [w \in Voters(b) \cup {voter} |-> IF w = voter THEN vote ELSE b.items[w]]

\* The votes that have reached the threshold in box b.
Winners(b) ==
    {v \in {b.items[w] : w \in Voters(b)} : Cardinality(VotersFor(b, v)) >= b.threshold}

\* Slips in AddVote: the votes are counted before the new one is stored; the
\* result is not recorded.
AddVoteCountFirst(b, voter, vote) ==
    LET stored == [b EXCEPT !.items = StoreVote(b, voter, vote)]
    IN  IF b.confirmed \/ Winners(b) = {}
        THEN stored
        ELSE [stored EXCEPT !.confirmed = TRUE,
                            !.result = CHOOSE v \in Winners(b) : TRUE]

\* VoteBox.AddVote: confirmed when enough voters agree on one vote.
AddVote(b, voter, vote) ==
    LET stored == [b EXCEPT !.items = StoreVote(b, voter, vote)]
    IN  IF b.confirmed \/ Winners(stored) = {}
        THEN stored
        ELSE [stored EXCEPT !.confirmed = TRUE,
                            !.result = CHOOSE v \in Winners(stored) : TRUE]

\* OrderRetryVoteBox.AddVote: confirmed when enough voters have voted, whatever they say.
AddRetryVote(b, voter, evidences) ==
    LET stored == [b EXCEPT !.items = StoreVote(b, voter, evidences)]
    IN  [stored EXCEPT !.confirmed = b.confirmed \/ Cardinality(Voters(stored)) >= b.threshold]

\* A slip in AddVote: true is returned for every vote on a confirmed box.
AlwaysConfirmed(old, new) == new.confirmed

\* AddVote returns true only for the vote that confirms the box.
FirstConfirmed(old, new) == new.confirmed /\ ~old.confirmed

\* The voters whose vote is the confirmed result; none before confirmation.
ValidVoters(b) == IF b.confirmed THEN VotersFor(b, b.result) ELSE {}

\* OrderRetryVoteBox.ValidVotes: every voter of a confirmed box.
ValidRetryVoters(b) == IF b.confirmed THEN Voters(b) ELSE {}

=============================================================================
