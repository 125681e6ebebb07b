-------------------------------- MODULE Gov ---------------------------------
(***************************************************************************)
(* Governance (x/gov).  A proposal collects deposits, is voted on with     *)
(* stake (native token) or with coins that are handed in (any other        *)
(* token), and is decided at the end of a block.  The store is a record s; *)
(* Coins are functions from denominations to amounts.  The handler of a    *)
(* content and the stake at the time of a tally are inputs.                *)
(***************************************************************************)
EXTENDS Decimal

CONSTANTS Users, Denoms, Native,
          Tokens,                         \* tokens that contents are decided by; all of today's name the native one
          MinInitDeposit, MinDeposit,     \* by token: the parameters of the native and of the dao token
          MaxDepositPeriod, VotingPeriod,
          Quorum, Threshold, Veto,
          VoteTimes,                      \* voting periods a proposal may ask for; 0 is none
          Amounts,                        \* coins of a deposit or of a dao vote
          Stakes,                         \* bonded validators and delegations at a tally
          DaoSupply,                      \* total supply of a token
          Genesis,                        \* coins of the users at genesis
          Width                           \* of a proposal id, in bits

Options == {"Yes", "Abstain", "No", "NoWithVeto"}
NoCoins == [d \in Denoms |-> 0]
Coins == {c \in Amounts : c # NoCoins}

DepositParams == [init |-> MinInitDeposit, min |-> MinDeposit, period |-> MaxDepositPeriod]
TallyParams == [quorum |-> Quorum, threshold |-> Threshold, veto |-> Veto]

\* now: time of the block.  pool: what the community pool was credited with.
\* drift: what the module account holds beyond its records.
VARIABLE s

vars == <<s>>

Plus(c, d) == [x \in Denoms |-> c[x] + d[x]]
Minus(c, d) == [x \in Denoms |-> c[x] - d[x]]
Covers(c, d) == \A x \in Denoms : c[x] >= d[x]
SumOver(f, keys) == [x \in Denoms |-> MapThenSumSet(LAMBDA k : f[k][x], keys)]
Put(f, k, v) == [x \in DOMAIN f \cup {k} |-> IF x = k THEN v ELSE f[x]]
Drop(f, keys) == [x \in DOMAIN f \ keys |-> f[x]]
Of(f, id) == {k \in DOMAIN f : k[1] = id}

-----------------------------------------------------------------------------
(***************************************************************************)
(* Proposals and their queues                                              *)
(***************************************************************************)
InsertActiveProposalQueue(t, id, end) == [t EXCEPT !.active = @ \cup {<<end, id>>}]
RemoveFromActiveProposalQueue(t, id, end) == [t EXCEPT !.active = @ \ {<<end, id>>}]
InsertInactiveProposalQueue(t, id, end) == [t EXCEPT !.inactive = @ \cup {<<end, id>>}]
RemoveFromInactiveProposalQueue(t, id, end) == [t EXCEPT !.inactive = @ \ {<<end, id>>}]

\* The iterators run up to the end time included, in the order of time.
Due(t, queue) ==
    SetToSortSeq({e \in queue : e[1] =< t.now},
                 LAMBDA a, b : a[1] < b[1] \/ (a[1] = b[1] /\ a[2] < b[2]))

NewProposal(t, token, voteTime) ==
    [token |-> token, status |-> "DepositPeriod", depositEnd |-> t.now + DepositParams.period,
     total |-> NoCoins, voteTime |-> voteTime, votingEnd |-> 0]

setProposalID(t, id) == [t EXCEPT !.next = id]

SubmitProposal(t, token, voteTime) ==
    LET p == NewProposal(t, token, voteTime)
    IN  InsertInactiveProposalQueue(
            [setProposalID(t, t.next + 1) EXCEPT !.proposals = Put(@, t.next, p)], t.next, p.depositEnd)

DeleteProposal(t, id) ==
    LET p == t.proposals[id]
    IN  [RemoveFromActiveProposalQueue(
            RemoveFromInactiveProposalQueue(t, id, p.depositEnd), id, p.votingEnd)
         EXCEPT !.proposals = Drop(@, {id})]

activateVotingPeriod(t, id) ==
    LET p   == t.proposals[id]
        end == t.now + (IF p.voteTime = 0 THEN VotingPeriod ELSE p.voteTime)
    IN  InsertActiveProposalQueue(
            RemoveFromInactiveProposalQueue(
                [t EXCEPT !.proposals[id].status = "VotingPeriod", !.proposals[id].votingEnd = end],
                id, p.depositEnd),
            id, end)

\* GetProposalsFiltered without filters: the difference of the ids is unsigned.
GetProposalsFiltered(t, numLatest) ==
    LET n     == IF numLatest = 0 THEN t.next ELSE numLatest
        first == (t.next - n) % 2 ^ Width
    IN  {id \in DOMAIN t.proposals : id >= first /\ id < t.next}

-----------------------------------------------------------------------------
(***************************************************************************)
(* Deposits                                                                *)
(***************************************************************************)
SendToModule(t, u, c) == [t EXCEPT !.bal[u] = Minus(@, c), !.module = Plus(@, c)]
SendToAccount(t, u, c) == [t EXCEPT !.bal[u] = Plus(@, c), !.module = Minus(@, c)]

\* SendCoinsFromModuleToAccount whose error the caller turns into a panic.
MustSendToAccount(t, u, c) ==
    IF Covers(t.module, c) THEN SendToAccount(t, u, c) ELSE [t EXCEPT !.panic = TRUE]

CanDeposit(t, id, u, c) ==
    /\ id \in DOMAIN t.proposals
    /\ t.proposals[id].status \in {"DepositPeriod", "VotingPeriod"}
    /\ Covers(t.bal[u], c)

DepositRecorded(t, id, u, c) ==
    Put(t.deposits, <<id, u>>,
        IF <<id, u>> \in DOMAIN t.deposits THEN Plus(t.deposits[<<id, u>>], c) ELSE c)

AddDeposit(t, id, u, c) ==
    LET paid  == [SendToModule(t, u, c) EXCEPT !.proposals[id].total = Plus(@, c)]
        p     == paid.proposals[id]
        ready == p.status = "DepositPeriod" /\ p.total[p.token] >= DepositParams.min[p.token]
        begun == IF ready THEN activateVotingPeriod(paid, id) ELSE paid
    IN  [begun EXCEPT !.deposits = DepositRecorded(t, id, u, c)]

RefundDeposits(t, id) ==
    FoldLeft(LAMBDA x, k : [MustSendToAccount(x, k[2], x.deposits[k]) EXCEPT !.deposits = Drop(@, {k})],
             t, SetToSeq(Of(t.deposits, id)))

\* The pool is credited; no coin leaves the module account.
TransferDepositsToCommunityPool(t, id) ==
    LET c == SumOver(t.deposits, Of(t.deposits, id))
    IN  [t EXCEPT !.pool = Plus(@, c), !.drift = Plus(@, c),
                  !.deposits = Drop(@, Of(@, id))]

-----------------------------------------------------------------------------
(***************************************************************************)
(* Tallies.  A stake has tokens and shares of the bonded validators, the   *)
(* delegations of the users, and the tokens of the bonded pool.  Results   *)
(* are decimals.                                                           *)
(***************************************************************************)
\* A slip in tally: the shares of a delegator who votes still count for the validator.
DeductedNone(stake, votes, v) == 0

\* Shares of delegators who vote for themselves; a bonded validator's own vote is not one of them.
DelegatorDeductions(stake, votes, v) ==
    MapThenSumSet(LAMBDA u : stake.del[u][v], DOMAIN votes \ DOMAIN stake.tokens)

\* votes: from users to options.
TallyResults(stake, votes) ==
    LET vals == DOMAIN stake.tokens
        Delegated(o) == {uv \in (DOMAIN votes \ vals) \X vals : votes[uv[1]] = o}
        Own(v) == MulInt(Quo(stake.shares[v] - DelegatorDeductions(stake, votes, v), stake.shares[v]),
                         stake.tokens[v])
    IN  [o \in Options |->
            MapThenSumSet(LAMBDA uv : MulInt(Quo(stake.del[uv[1]][uv[2]], stake.shares[uv[2]]),
                                             stake.tokens[uv[2]]), Delegated(o))
          + MapThenSumSet(Own, {v \in vals \cap DOMAIN votes : votes[v] = o})]

SumResults(r) == MapThenSumSet(LAMBDA o : r[o], Options)

\* Whether a proposal passes and whether its deposits are forfeited.
Verdict(stake, r) ==
    LET total == SumResults(r)
        yes   == [passes |-> TRUE, burn |-> FALSE]
        no    == [passes |-> FALSE, burn |-> FALSE]
        burn  == [passes |-> FALSE, burn |-> TRUE]
    IN  IF stake.pool = 0 THEN no
        ELSE IF Quo(total, ToDec(stake.pool)) < TallyParams.quorum THEN burn
        ELSE IF total = r["Abstain"] THEN no
        ELSE IF Quo(r["NoWithVeto"], total) > TallyParams.veto THEN burn
        ELSE IF Quo(r["Yes"], total - r["Abstain"]) > TallyParams.threshold THEN yes ELSE no

VotesOn(t, id) == [u \in {k[2] : k \in Of(t.votes, id)} |-> t.votes[<<id, u>>]]

VotesDeleted(t, id) == [t EXCEPT !.votes = Drop(@, Of(@, id))]

tally(t, id, stake) ==
    [verdict |-> Verdict(stake, TallyResults(stake, VotesOn(t, id))), store |-> VotesDeleted(t, id)]

DaoResults(t, id) ==
    [o \in Options |-> ToDec(MapThenSumSet(LAMBDA k : t.daoVotes[k].amount[t.proposals[id].token],
                                           {k \in Of(t.daoVotes, id) : t.daoVotes[k].option = o}))]

DaoVerdict(token, r) ==
    LET total == SumResults(r)
    IN  [passes |-> /\ DaoSupply[token] > 0
                    /\ Quo(total, ToDec(DaoSupply[token])) > TallyParams.quorum
                    /\ Quo(r["Yes"], total) > TallyParams.threshold,
         burn |-> FALSE]

\* The coins of every vote go back to the voter.
daotally(t, id) ==
    [verdict |-> DaoVerdict(t.proposals[id].token, DaoResults(t, id)),
     store |-> FoldLeft(LAMBDA x, k : [MustSendToAccount(x, k[2], x.daoVotes[k].amount) EXCEPT
                                          !.daoVotes = Drop(@, {k})],
                        t, SetToSeq(Of(t.daoVotes, id)))]

-----------------------------------------------------------------------------
(***************************************************************************)
(* Messages.  The content of a proposal passed a dry run of its handler.   *)
(***************************************************************************)
handleMsgSubmitProposal(u, token, voteTime, c) ==
    /\ c[token] >= DepositParams.init[token]
    /\ Covers(s.bal[u], c)
    /\ s' = AddDeposit(SubmitProposal(s, token, voteTime), s.next, u, c)

handleMsgDeposit(u, id, c) ==
    /\ CanDeposit(s, id, u, c)
    /\ s' = AddDeposit(s, id, u, c)

AddVote(u, id, option) ==
    /\ id \in DOMAIN s.proposals
    /\ s.proposals[id].status = "VotingPeriod"
    /\ s' = [s EXCEPT !.votes = Put(@, <<id, u>>, option)]

\* A second vote has to name the same option, and adds to the first.
AddDaoVote(u, id, c, option) ==
    LET old == IF <<id, u>> \in DOMAIN s.daoVotes THEN s.daoVotes[<<id, u>>]
               ELSE [amount |-> NoCoins, option |-> option]
    IN  /\ id \in DOMAIN s.proposals
        /\ s.proposals[id].status = "VotingPeriod"
        /\ c[s.proposals[id].token] > 0
        /\ old.option = option
        /\ Covers(s.bal[u], c)
        /\ s' = [SendToModule(s, u, c) EXCEPT
                    !.daoVotes = Put(@, <<id, u>>, [old EXCEPT !.amount = Plus(@, c)])]

\* The refunded vote's record is looked for among the other votes, and stays.
handleMsgCancelDaoVote(u, id) ==
    /\ <<id, u>> \in DOMAIN s.daoVotes
    /\ LET c == s.daoVotes[<<id, u>>].amount
       IN  /\ Covers(s.module, c)
           /\ s' = [SendToAccount(s, u, c) EXCEPT !.votes = Drop(@, {<<id, u>>}),
                                                  !.drift = Minus(@, c)]

-----------------------------------------------------------------------------
(***************************************************************************)
(* End of a block: lapsed deposit periods, then ended voting periods.      *)
(***************************************************************************)
Lapse(t, id) == TransferDepositsToCommunityPool(DeleteProposal(t, id), id)

Decide(t, id, stake, failing) ==
    LET p       == t.proposals[id]
        counted == IF p.token = Native THEN tally(t, id, stake) ELSE daotally(t, id)
        settled == IF counted.verdict.burn THEN TransferDepositsToCommunityPool(counted.store, id)
                   ELSE RefundDeposits(counted.store, id)
        status  == IF ~counted.verdict.passes THEN "Rejected"
                   ELSE IF id \in failing THEN "Failed" ELSE "Passed"
    IN  RemoveFromActiveProposalQueue([settled EXCEPT !.proposals[id].status = status], id, p.votingEnd)

\* failing: the proposals whose handler returns an error.
EndBlocker(stake, failing) ==
    LET lapsed == FoldLeft(LAMBDA t, e : Lapse(t, e[2]), s, Due(s, s.inactive))
        ended  == FoldLeft(LAMBDA t, e : Decide(t, e[2], stake, failing), lapsed, Due(lapsed, lapsed.active))
    IN  s' = [ended EXCEPT !.now = @ + 1]

-----------------------------------------------------------------------------
(***************************************************************************)
(* Export and import.  Dao votes are not exported, nor are the balances of *)
(* the accounts (x/transfer, x/genaccounts).                               *)
(***************************************************************************)
ExportGenesis(t) ==
    LET ids == GetProposalsFiltered(t, 0)
    IN  [next |-> t.next, proposals |-> Drop(t.proposals, DOMAIN t.proposals \ ids),
         deposits |-> Drop(t.deposits, {k \in DOMAIN t.deposits : k[1] \notin ids}),
         votes |-> Drop(t.votes, {k \in DOMAIN t.votes : k[1] \notin ids})]

Requeue(t, id) ==
    LET p == t.proposals[id]
    IN  CASE p.status = "DepositPeriod" -> InsertInactiveProposalQueue(t, id, p.depositEnd)
          [] p.status = "VotingPeriod" -> InsertActiveProposalQueue(t, id, p.votingEnd)
          [] OTHER -> t

InitGenesis(g, now, pool) ==
    LET t == [now |-> now, next |-> g.next, proposals |-> g.proposals, active |-> {}, inactive |-> {},
              deposits |-> g.deposits, votes |-> g.votes, daoVotes |-> <<>>,
              bal |-> [u \in Users |-> NoCoins], module |-> SumOver(g.deposits, DOMAIN g.deposits),
              pool |-> pool, drift |-> NoCoins, panic |-> FALSE]
    IN  FoldSet(LAMBDA id, x : Requeue(x, id), t, DOMAIN g.proposals)

Restart == s' = InitGenesis(ExportGenesis(s), s.now, s.pool)

ValidateGenesis ==
    /\ {Threshold, Veto} \subseteq 0 .. OneDec
    /\ \A d \in Tokens : MinDeposit[d] > 0 /\ MinInitDeposit[d] > 0

Init ==
    /\ ValidateGenesis
    /\ s = [InitGenesis([next |-> 1, proposals |-> <<>>, deposits |-> <<>>, votes |-> <<>>], 1, NoCoins)
            EXCEPT !.bal = Genesis]

EndBlock == \E stake \in Stakes, failing \in SUBSET {e[2] : e \in s.active} : EndBlocker(stake, failing)

Message ==
    \/ \E u \in Users, d \in Tokens, vt \in VoteTimes, c \in Coins : handleMsgSubmitProposal(u, d, vt, c)
    \/ \E u \in Users, id \in DOMAIN s.proposals, c \in Coins : handleMsgDeposit(u, id, c)
    \/ \E u \in Users, id \in DOMAIN s.proposals, o \in Options : AddVote(u, id, o)
    \/ \E u \in Users, id \in DOMAIN s.proposals, c \in Coins, o \in Options : AddDaoVote(u, id, c, o)
    \/ \E u \in Users, id \in DOMAIN s.proposals : handleMsgCancelDaoVote(u, id)

Next == ~s.panic /\ (Message \/ EndBlock \/ Restart)

Spec == Init /\ [][Next]_vars

-----------------------------------------------------------------------------
(***************************************************************************)
(* Properties                                                              *)
(***************************************************************************)
\* Both queues hold exactly the open proposals, each at the time its period
\* ends, across activation, lapse, tally and import (keeper.go, genesis.go).
QueuesExact ==
    /\ s.inactive = {<<s.proposals[id].depositEnd, id>> : id \in
                        {i \in DOMAIN s.proposals : s.proposals[i].status = "DepositPeriod"}}
    /\ s.active = {<<s.proposals[id].votingEnd, id>> : id \in
                        {i \in DOMAIN s.proposals : s.proposals[i].status = "VotingPeriod"}}

\* No period outlasts its end: the end of the block in which it is due, or of the first one after,
\* decides or removes the proposal, whatever was deposited, voted or restarted before (endblocker.go).
PeriodsEnd ==
    \A id \in DOMAIN s.proposals :
        LET p == s.proposals[id]
        IN  /\ p.status = "DepositPeriod" => p.depositEnd >= s.now
            /\ p.status = "VotingPeriod" => p.votingEnd >= s.now

\* Every coin of the module account belongs to a deposit or a dao vote, but for what the two
\* operations that count in drift leave behind: no other message, tally, refund or import
\* makes the account differ from its records.
HoldingsExact ==
    s.panic \/ s.module = Plus(s.drift, Plus(SumOver(s.deposits, DOMAIN s.deposits),
                                             SumOver([k \in DOMAIN s.daoVotes |-> s.daoVotes[k].amount],
                                                     DOMAIN s.daoVotes)))

\* The total by which an open proposal is activated is the sum of its deposits,
\* and a proposal that is gone or decided has none left (deposit.go, endblocker.go).
DepositsMatchTotal ==
    /\ \A k \in DOMAIN s.deposits : k[1] \in DOMAIN s.proposals
    /\ \A id \in DOMAIN s.proposals :
           SumOver(s.deposits, Of(s.deposits, id)) =
               IF s.proposals[id].status \in {"DepositPeriod", "VotingPeriod"}
               THEN s.proposals[id].total ELSE NoCoins

\* Votes do not outlive the voting period whose tally reads them: stake votes on proposals of the
\* native token and dao votes on the others (tally.go).
VotesConsumed ==
    /\ \A k \in DOMAIN s.votes : s.proposals[k[1]].token = Native
                                     => s.proposals[k[1]].status = "VotingPeriod"
    /\ \A k \in DOMAIN s.daoVotes : s.proposals[k[1]].token # Native
                                     => s.proposals[k[1]].status = "VotingPeriod"

=============================================================================
