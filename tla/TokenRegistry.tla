--------------------------- MODULE TokenRegistry ---------------------------
(***************************************************************************)
(* The token registry (x/token) with its proposals and the gas prices that *)
(* key nodes vote on, and tokens issued on this chain (x/hrc10).  A symbol *)
(* is a pair: <<chain, "">> of a coin of its own chain, <<chain, issuer>>  *)
(* of a token on that chain, whose symbol the code computes by a hash.     *)
(* Values of parameters are integers; 0 and 1 stand for the booleans, and  *)
(* Garbage for text that does not parse.                                   *)
(***************************************************************************)
EXTENDS Integers, Sequences, FiniteSets, SequencesExt, FiniteSetsExt, VoteBox

CONSTANTS
    Chains, Issuers,    \* names
    Keys,               \* parameters of tokens that are modelled
    Users, IssueTokenFee,
    KeyNodes,
    GasPriceBucketWindow

Native == <<"hbc", "">>
Garbage == 99

BooleanKeys == {"send_enabled", "deposit_enabled", "withdrawal_enabled", "need_collect_fee"}
AmountKeys == {"collect_threshold", "deposit_threshold", "open_fee", "sys_open_fee", "systransfer_num",
               "op_cu_systransfer_num", "gas_limit"}

VARIABLES
    tokens,             \* registered tokens by symbol
    ibcSymbols,         \* the list of symbols under IBCTokenListKey
    coins, feePool,     \* native coins of users, and of the community
    minted,             \* coins of issued tokens: user and symbol to amount
    boxes,              \* vote boxes by bucket and chain
    confirmedBy,        \* bucket that gave a chain its price, and the largest one that was confirmed
    height

vars == <<tokens, ibcSymbols, coins, feePool, minted, boxes, confirmedBy, height>>
registry == <<tokens, ibcSymbols>>
funds == <<coins, feePool, minted>>
votes == <<boxes, confirmedBy>>

-----------------------------------------------------------------------------
IsIBCToken(t) == t.chain # Native

\* Symbols computed by a hash have room for a short name only.
SymbolIsValid(s) == Len(s) = 2

GetToken(s) == s \in DOMAIN tokens
HasToken(s) == SymbolIsValid(s) /\ GetToken(s)

SetToken(ts, t) == [s \in DOMAIN ts \cup {t.symbol} |-> IF s = t.symbol THEN t ELSE ts[s]]

WithIBC(list, t) == IF IsIBCToken(t) THEN Append(list, t.symbol) ELSE list

SetIBCTokenSymbols(list) == ibcSymbols' = list

CreateToken(t) ==
    /\ ~HasToken(t.symbol)
    /\ tokens' = SetToken(tokens, t)
    /\ SetIBCTokenSymbols(WithIBC(ibcSymbols, t))

CalSymbol(issuer, chain) == IF chain[2] = "" THEN <<chain[1], issuer>> ELSE chain \o <<issuer>>

BaseToken(symbol, supply) ==
    [symbol |-> symbol, chain |-> Native, issuer |-> symbol[2], par |-> [k \in {"send_enabled"} |-> 1],
     gasPrice |-> 0, supply |-> supply]

BaseTokenIsValid(t) == SymbolIsValid(t.symbol) /\ SymbolIsValid(t.chain)

IBCTokenIsValid(t) ==
    /\ BaseTokenIsValid(t)
    /\ \A k \in Keys \cap {"collect_threshold", "deposit_threshold", "open_fee", "withdrawal_fee_rate"} : t.par[k] > 0
    /\ \A k \in Keys \cap {"gas_limit"} : t.par[k] >= 0
    /\ \A k \in Keys \cap {"max_op_cu_number"} : t.par[k] # 0
    /\ t.symbol # t.chain => t.issuer # ""

TokenIsValid(t) == IF IsIBCToken(t) THEN IBCTokenIsValid(t) ELSE BaseTokenIsValid(t)

\* Of the parameters of x/hrc10 at genesis.
Validate == IssueTokenFee > 0

Init ==
    /\ Validate
    /\ tokens = [s \in {Native} |-> BaseToken(Native, 1)]
    /\ ibcSymbols = << >>
    /\ coins = [u \in Users |-> 2 * IssueTokenFee] /\ feePool = 0
    /\ minted = [u \in Users |-> << >>]
    /\ boxes = << >>
    /\ confirmedBy = [c \in Chains |-> [last |-> 0, top |-> 0]]
    /\ height = 1

-----------------------------------------------------------------------------
(***************************************************************************)
(* Proposals                                                               *)
(***************************************************************************)
ChainKnown(t) == t.symbol # t.chain => HasToken(t.chain)

handleAddTokenProposal(t) ==
    /\ TokenIsValid(t)                              \* ValidateBasic of the proposal
    /\ t.chain # Native
    /\ t.symbol # t.chain => t.symbol = CalSymbol(t.issuer, t.chain)
    /\ ChainKnown(t)
    /\ CreateToken(t)
    /\ UNCHANGED <<funds, votes, height>>

\* The values that a parameter of a token may be given.
AcceptsBase(key, value) == key = "send_enabled" /\ value \in {0, 1}

AcceptsIBC(key, value) ==
    /\ value # Garbage
    /\ \/ key \in BooleanKeys /\ value \in {0, 1}
       \/ key \in AmountKeys /\ value >= 0
       \/ key = "withdrawal_fee_rate" /\ value >= 1
       \/ key = "max_op_cu_number" /\ value >= 0
       \/ key = "confirmations" /\ value > 0

\* Changes are a function from the keys of the proposal, which are distinct, to values.
handleTokenParamsChangeProposal(symbol, changes) ==
    /\ GetToken(symbol)
    /\ LET t == tokens[symbol] IN
       /\ \A k \in DOMAIN changes :
             IF IsIBCToken(t) THEN AcceptsIBC(k, changes[k]) ELSE AcceptsBase(k, changes[k])
       /\ tokens' = SetToken(tokens, [t EXCEPT !.par = [k \in DOMAIN t.par |-> IF k \in DOMAIN changes THEN changes[k] ELSE t.par[k]]])
    /\ UNCHANGED <<ibcSymbols, funds, votes, height>>

-----------------------------------------------------------------------------
(***************************************************************************)
(* Gas prices                                                              *)
(***************************************************************************)
NewGasPriceVoteBox == NewVoteBox(Majority23(Cardinality(KeyNodes)))

Prices(b) == LET voters == SetToSeq(Voters(b)) IN [i \in DOMAIN voters |-> b.items[voters[i]]]

IntMedian(prices) ==
    LET ps == SortSeq(prices, <)
        half == Len(ps) \div 2
    IN  IF Len(ps) % 2 = 1 THEN ps[half + 1] ELSE (ps[half] + ps[half + 1]) \div 2

\* Between 0.9 and 1.2 times the median.
Near(price, median) == 10 * price <= 12 * median /\ 10 * price >= 9 * median

NearVoters(b, median) == {w \in Voters(b) : Near(b.items[w], median)}

\* A slip in PricesAgree: votes far from the median count towards the threshold.
PricesAgreeAll(b) == Cardinality(Voters(b)) >= b.threshold

\* Enough votes, and enough of them near the median.
PricesAgree(b) ==
    /\ Cardinality(Voters(b)) >= b.threshold
    /\ Cardinality(NearVoters(b, IntMedian(Prices(b)))) >= b.threshold

\* GasPriceVoteBox.AddVote; the result is the confirmed median.
AddPriceVote(b, voter, price) ==
    LET stored == [b EXCEPT !.items = StoreVote(b, voter, price)]
    IN  IF b.confirmed \/ ~PricesAgree(stored)
        THEN stored
        ELSE [stored EXCEPT !.confirmed = TRUE, !.result = IntMedian(Prices(stored))]

ValidPriceVoters(b) == IF b.confirmed THEN NearVoters(b, b.result) ELSE {}

\* The average of the valid votes of a box.
AverageGasPrice(b) ==
    LET voters == ValidPriceVoters(b)
    IN  MapThenSumSet(LAMBDA w : b.items[w], voters) \div Cardinality(voters)

\* Every token of the list that lives on the chain gets the price.
updateGasPrice(chain, b) ==
    tokens' = [s \in DOMAIN tokens |->
                  IF s \in ToSet(ibcSymbols) /\ tokens[s].chain = <<chain, "">>
                  THEN [tokens[s] EXCEPT !.gasPrice = AverageGasPrice(b)]
                  ELSE tokens[s]]

InWindow(h) == h < height /\ height - h <= GasPriceBucketWindow

\* One price of a message; the others of the message follow in the same way.
SynGasPrice(node, h, chain, price) ==
    LET id == <<h \div GasPriceBucketWindow, chain>>
        old == IF id \in DOMAIN boxes THEN boxes[id] ELSE NewGasPriceVoteBox
        new == AddPriceVote(old, node, price)
    IN  /\ InWindow(h) /\ node \in KeyNodes /\ HasToken(<<chain, "">>)
        /\ boxes' = [i \in DOMAIN boxes \cup {id} |-> IF i = id THEN new ELSE boxes[i]]
        /\ IF FirstConfirmed(old, new)
           THEN /\ updateGasPrice(chain, new)
                /\ confirmedBy' = [confirmedBy EXCEPT ![chain] = [last |-> id[1], top |-> Max({@.top, id[1]})]]
           ELSE UNCHANGED <<tokens, confirmedBy>>
        /\ UNCHANGED <<ibcSymbols, funds, height>>

NextBlock ==
    /\ height' = height + 1
    /\ UNCHANGED <<registry, funds, votes>>

-----------------------------------------------------------------------------
(***************************************************************************)
(* Tokens issued on this chain                                             *)
(***************************************************************************)
ToFeePool(fee) == feePool' = feePool + fee

\* calSymbol hashes the bytes of the transaction.
handleMsgNewToken(from, to, tx, totalSupply) ==
    LET symbol == <<"hbc", tx>> IN
    /\ totalSupply > 0
    /\ ~HasToken(symbol)
    /\ coins[from] >= IssueTokenFee
    /\ coins' = [coins EXCEPT ![from] = @ - IssueTokenFee]
    /\ ToFeePool(IssueTokenFee)
    /\ CreateToken([BaseToken(symbol, totalSupply) EXCEPT !.issuer = from])
    /\ minted' = [minted EXCEPT ![to] = [s \in DOMAIN @ \cup {symbol} |-> IF s = symbol THEN totalSupply ELSE @[s]]]
    /\ UNCHANGED <<votes, height>>

-----------------------------------------------------------------------------
(***************************************************************************)
(* Genesis                                                                 *)
(***************************************************************************)
\* ExportGenesis lists the tokens in the order of their symbols, whatever that is.
ExportGenesis == LET symbols == SetToSeq(DOMAIN tokens) IN [i \in DOMAIN symbols |-> tokens[symbols[i]]]

ValidateGenesis(gs) == \A i \in DOMAIN gs : TokenIsValid(gs[i])

\* A chain is started from what another one exported.
InitGenesis ==
    LET gs == ExportGenesis IN
    /\ ValidateGenesis(gs)
    /\ tokens' = FoldLeft(SetToken, << >>, gs)
    /\ SetIBCTokenSymbols(FoldLeft(WithIBC, << >>, gs))
    /\ boxes' = << >>
    /\ UNCHANGED <<funds, confirmedBy, height>>

-----------------------------------------------------------------------------
(***************************************************************************)
(* Properties                                                              *)
(***************************************************************************)
\* The list of symbols has every token of another chain once, and nothing else: prices and collection
\* go by the list, all other code by the tokens.
ListIsIBCTokens ==
    /\ ToSet(ibcSymbols) = {s \in DOMAIN tokens : IsIBCToken(tokens[s])}
    /\ Len(ibcSymbols) = Cardinality(ToSet(ibcSymbols))

\* The chain of a token is itself a token, and not one that lives on a third chain: fees of a token are
\* paid in the coin of its chain.
ChainsRegistered ==
    \A s \in DOMAIN tokens : tokens[s].chain \in DOMAIN tokens /\ tokens[s].chain[2] = ""

\* What a user pays for an issued token is in the fee pool, and every issued token has all its supply
\* with one user.
IssueBooked ==
    /\ MapThenSumSet(LAMBDA u : coins[u], Users) + feePool = 2 * IssueTokenFee * Cardinality(Users)
    /\ feePool = IssueTokenFee * Cardinality({s \in DOMAIN tokens : ~IsIBCToken(tokens[s]) /\ s # Native})
    /\ \A s \in DOMAIN tokens : (~IsIBCToken(tokens[s]) /\ s # Native) =>
          Cardinality({u \in Users : s \in DOMAIN minted[u] /\ minted[u][s] = tokens[s].supply}) = 1

\* A price that is set lies among the votes of more than two thirds of the key nodes, which differ by a
\* third at most.
PriceSupported ==
    \A s \in DOMAIN tokens :
       (s \in DOMAIN tokens' /\ tokens'[s].gasPrice # tokens[s].gasPrice) =>
           \E id \in DOMAIN boxes' : \E S \in SUBSET DOMAIN boxes'[id].items :
               /\ id[2] = s[1]
               /\ Cardinality(S) >= Majority23(Cardinality(KeyNodes))
               /\ LET ps == {boxes'[id].items[w] : w \in S}
                  IN  Min(ps) <= tokens'[s].gasPrice /\ tokens'[s].gasPrice <= Max(ps) /\ 3 * Max(ps) <= 4 * Min(ps)

=============================================================================
