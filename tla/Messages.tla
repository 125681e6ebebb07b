------------------------------ MODULE Messages ------------------------------
(***************************************************************************)
(* The messages of the chain: which bodies ValidateBasic accepts, who has  *)
(* to sign (GetSigners), and whether the message is one of settlement      *)
(* (IsSettleOnlyMsg), which decides how the ante handler charges it.       *)
(* Before them, the addresses they carry in their text forms: base58 with  *)
(* a checksum (base58/) for custodian units, bech32 for validators and     *)
(* consensus nodes (types/address.go).                                     *)
(*                                                                         *)
(* For the text forms, bytes are digits below ByteRadix and characters of  *)
(* the alphabet digits below TextRadix (256 and 58 in the code); Space     *)
(* stands for the characters outside of the alphabet.  Texts, and bytes,   *)
(* are sequences.                                                          *)
(*                                                                         *)
(* For the messages, an address in bytes is one of CUs, "nil", or "odd"    *)
(* (another length).                                                       *)
(* An address in text is one of CUs, "", "odd" (a good checksum, but no    *)
(* address) or "junk".  An order is named by one of OrderIDs, or not.      *)
(* Coins are "none", "positive", "zero" or "negative"; payloads (raw and   *)
(* signed transactions, keys, hashes) are there, "x", or empty, "".        *)
(* Rates are multiples of 1/One.                                           *)
(***************************************************************************)
EXTENDS Integers, Sequences, SequencesExt, Functions

CONSTANTS ByteRadix, TextRadix,
          AddrLen,                       \* bytes of an address
          CkLen,                         \* bytes of a checksum
          AddrBytePrefix, AddrStrPrefix, \* 2, 16, 66 and "HBC"
          Space,
          CUs, OrderIDs, Symbols, NativeToken, One

Bytes == 0 .. ByteRadix - 1
Alphabet == 0 .. TextRadix - 1

Refused == [ok |-> FALSE, addr |-> <<>>]
Parsed(addr) == [ok |-> TRUE, addr |-> addr]

-----------------------------------------------------------------------------
(***************************************************************************)
(* Base 58                                                                 *)
(***************************************************************************)
\* The number whose digits these are, the first digit leading.
Number(digits, radix) == FoldLeft(LAMBDA n, d : n * radix + d, 0, digits)

\* The digits of a number, without leading zeros.
Digits(n, radix) ==
    LET d[k \in 0 .. n] == IF k = 0 THEN <<>> ELSE Append(d[k \div radix], k % radix) IN d[n]

LeadingZeros(s) ==
    LET nonzero == {i \in DOMAIN s : s[i] # 0}
    IN  IF nonzero = {} THEN Len(s) ELSE (CHOOSE i \in nonzero : \A j \in nonzero : i =< j) - 1

Zeros(n) == [i \in 1 .. n |-> 0]

Encode(b) == Zeros(LeadingZeros(b)) \o Digits(Number(b, ByteRadix), TextRadix)

Decode(t) ==
    IF \E i \in DOMAIN t : t[i] \notin Alphabet THEN <<>>
    ELSE Zeros(LeadingZeros(t)) \o Digits(Number(t, TextRadix), ByteRadix)

\* The head of a double SHA-256: a sum in which places count differently.
Checksum(b) ==
    LET sum == FoldLeft(LAMBDA n, d : n * 3 + d + 1, 0, b)
    IN  [i \in 1 .. CkLen |-> (sum \div ByteRadix ^ (CkLen - i)) % ByteRadix]

WithChecksum(b) == Encode(b \o Checksum(b))

CheckEncode(input, version) == WithChecksum(<<version>> \o input)

Body(decoded) == SubSeq(decoded, 1, Len(decoded) - CkLen)
ChecksumHolds(decoded) == SubSeq(decoded, Len(decoded) - CkLen + 1, Len(decoded)) = Checksum(Body(decoded))

\* [ok, addr]: the version, and what follows it.
CheckDecode(t) ==
    LET decoded == Decode(t)
    IN  IF Len(decoded) < CkLen + 1 \/ ~ChecksumHolds(decoded) THEN Refused ELSE Parsed(Body(decoded))

EthAddrToHBCAddr(input) == WithChecksum(AddrBytePrefix \o input)

HBCAddrToEthAddr(t) ==
    LET decoded == Decode(t)
    IN  IF \/ Len(decoded) < Len(AddrBytePrefix) + CkLen
           \/ ~IsPrefix(AddrStrPrefix, t)
           \/ ~ChecksumHolds(decoded)
        THEN Refused
        ELSE Parsed(SubSeq(Body(decoded), Len(AddrBytePrefix) + 1, Len(decoded) - CkLen))

-----------------------------------------------------------------------------
(***************************************************************************)
(* Addresses of custodian units                                            *)
(***************************************************************************)
Blank(t) == \A i \in DOMAIN t : t[i] = Space

\* A slip in CUAddressFromBase58: the length is not looked at.
CUAddressAnyLength(t) ==
    LET body == CheckDecode(t)
        n    == Len(AddrBytePrefix)
    IN  IF Blank(t) THEN Parsed(<<>>)
        ELSE IF ~IsPrefix(AddrStrPrefix, t) \/ ~body.ok \/ ~IsPrefix(AddrBytePrefix, body.addr) THEN Refused
        ELSE Parsed(SubSeq(body.addr, n + 1, Len(body.addr)))

\* A blank text is the empty address.
CUAddressFromBase58(t) ==
    LET body == CheckDecode(t)
        n    == Len(AddrBytePrefix)
    IN  IF Blank(t) THEN Parsed(<<>>)
        ELSE IF \/ ~IsPrefix(AddrStrPrefix, t)
                \/ ~body.ok
                \/ Len(body.addr) # AddrLen + n
                \/ ~IsPrefix(AddrBytePrefix, body.addr)
        THEN Refused
        ELSE Parsed(SubSeq(body.addr, n + 1, Len(body.addr)))

CUAddressString(a) == IF Len(a) # AddrLen THEN <<>> ELSE WithChecksum(AddrBytePrefix \o a)

IsValidAddrText(t) == Len(t) > Len(AddrBytePrefix) /\ IsPrefix(AddrStrPrefix, t) /\ CheckDecode(t).ok
IsValidAddr(a) == Len(a) = AddrLen /\ IsValidAddrText(CUAddressString(a))

CUAddressFromByte(b) == IF Len(b) = AddrLen THEN b ELSE <<>>

\* JSON and YAML carry the text form.
Marshal(a) == CUAddressString(a)
Unmarshal(t) == CUAddressFromBase58(t)

-----------------------------------------------------------------------------
(***************************************************************************)
(* Addresses of validators and of consensus nodes.  A bech32 text is a     *)
(* pair of a prefix and the bytes; its encoding is that of the library.    *)
(***************************************************************************)
ValAddrPrefix == "valoper"
ConsAddrPrefix == "valcons"

Bech32(hrp, data) == [hrp |-> hrp, data |-> data]
NoText == Bech32("", <<>>)

VerifyAddressFormat(b) == Len(b) = AddrLen

GetFromBech32(t, prefix) == IF t = NoText \/ t.hrp # prefix THEN Refused ELSE Parsed(t.data)

ValAddressFromBech32(t) ==
    LET bz == GetFromBech32(t, ValAddrPrefix)
    IN  IF t = NoText THEN Parsed(<<>>)
        ELSE IF bz.ok /\ VerifyAddressFormat(bz.addr) THEN bz ELSE Refused

ValAddressString(a) == IF a = <<>> THEN NoText ELSE Bech32(ValAddrPrefix, a)

ConsAddressFromBech32(t) ==
    LET bz == GetFromBech32(t, ConsAddrPrefix)
    IN  IF t = NoText THEN Parsed(<<>>)
        ELSE IF bz.ok /\ VerifyAddressFormat(bz.addr) THEN bz ELSE Refused

ConsAddressString(a) == IF a = <<>> THEN NoText ELSE Bech32(ConsAddrPrefix, a)

-----------------------------------------------------------------------------

Accept(ok, signers, kind) == [ok |-> ok, signers |-> signers, kind |-> kind]
User == "user"
Settle == "settle"
SettleOnly == "settle only"

-----------------------------------------------------------------------------
(***************************************************************************)
(* Checks on fields                                                        *)
(***************************************************************************)
Valid(addr) == addr \in CUs
NonEmpty(addr) == addr # "nil"

\* CUAddressFromBase58: an empty text is the empty address.
Base58(text) == text \in CUs \cup {""}
ValidText(text) == text \in CUs \cup {"odd"}

TextSigners(text) == IF Base58(text) THEN <<IF text = "" THEN "nil" ELSE text>> ELSE <<>>

Legal(id) == id \in OrderIDs

LegalList(ids) == IsInjective(ids) /\ \A i \in DOMAIN ids : Legal(ids[i])
Batch(ids) == ids # <<>> /\ LegalList(ids)

CoinsValid(coins) == coins \in {"none", "positive"}
AnyNegative(coins) == coins = "negative"
ValidSymbol(s) == s \in Symbols
Pair(a, b) == ValidSymbol(a) /\ ValidSymbol(b) /\ a # b
Given(payload) == payload # ""
Fraction(rate) == 0 =< rate /\ rate < One

-----------------------------------------------------------------------------
(***************************************************************************)
(* x/transfer: payments, deposits, collects, withdrawals, gas for users    *)
(***************************************************************************)
MsgSend(m) == Accept(Valid(m.from) /\ Valid(m.to) /\ m.amount = "positive", <<m.from>>, User)

\* Inputs and outputs balance, and each is valid.
MsgMultiSend(m) ==
    Accept(/\ m.inputs # <<>> /\ m.outputs # <<>>
           /\ \A i \in DOMAIN m.inputs : NonEmpty(m.inputs[i])
           /\ \A i \in DOMAIN m.outputs : NonEmpty(m.outputs[i])
           /\ m.amount = "positive",
           m.inputs, User)

MsgDeposit(m) ==
    Accept(/\ Legal(m.orderID) /\ Valid(m.from) /\ Valid(m.to) /\ ValidSymbol(m.symbol)
           /\ Given(m.txhash) /\ Given(m.toAddress) /\ m.amount > 0,
           <<m.from>>, Settle)

MsgConfirmedDeposit(m) ==
    Accept(LegalList(m.valid) /\ LegalList(m.invalid) /\ Valid(m.from), <<m.from>>, SettleOnly)

MsgCollectWaitSign(m) ==
    Accept(Base58(m.validator) /\ Given(m.collectToCU) /\ Given(m.rawData) /\ Batch(m.orderIDs),
           TextSigners(m.validator), SettleOnly)

MsgCollectSignFinish(m) ==
    Accept(Base58(m.validator) /\ Given(m.signedTx) /\ Batch(m.orderIDs), TextSigners(m.validator), SettleOnly)

MsgCollectFinish(m) ==
    Accept(Base58(m.validator) /\ m.costFee >= 0 /\ Batch(m.orderIDs), TextSigners(m.validator), SettleOnly)

MsgWithdrawal(m) ==
    Accept(Base58(m.fromCU) /\ Given(m.toAddress) /\ m.orderID # "" /\ m.amount > 0 /\ m.gasFee > 0,
           TextSigners(m.fromCU), User)

MsgWithdrawalConfirm(m) == Accept(Base58(m.fromCU) /\ m.orderID # "", TextSigners(m.fromCU), SettleOnly)

MsgWithdrawalWaitSign(m) ==
    Accept(Base58(m.opCU) /\ Base58(m.validator) /\ Given(m.rawData) /\ Batch(m.orderIDs),
           TextSigners(m.validator), SettleOnly)

MsgWithdrawalSignFinish(m) ==
    Accept(Base58(m.validator) /\ Given(m.signedTx) /\ Batch(m.orderIDs), TextSigners(m.validator), SettleOnly)

MsgWithdrawalFinish(m) ==
    Accept(Base58(m.validator) /\ m.costFee >= 0 /\ Batch(m.orderIDs), TextSigners(m.validator), SettleOnly)

MsgSysTransfer(m) ==
    Accept(Base58(m.validator) /\ Given(m.toAddress) /\ Legal(m.orderID) /\ Valid(m.fromCU) /\ Valid(m.toCU),
           TextSigners(m.validator), SettleOnly)

MsgSysTransferWaitSign(m) == Accept(Base58(m.validator) /\ Given(m.rawData), TextSigners(m.validator), SettleOnly)
MsgSysTransferSignFinish(m) == Accept(Base58(m.validator) /\ Given(m.signedTx), TextSigners(m.validator), SettleOnly)
MsgSysTransferFinish(m) == Accept(Base58(m.validator) /\ m.costFee >= 0, TextSigners(m.validator), SettleOnly)

MsgOpcuAssetTransfer(m) ==
    Accept(Base58(m.fromCU) /\ Base58(m.opCU) /\ Given(m.toAddress) /\ m.orderID # "" /\ m.items > 0,
           TextSigners(m.fromCU), SettleOnly)

MsgOpcuAssetTransferWaitSign(m) ==
    Accept(Base58(m.validator) /\ Given(m.rawData), TextSigners(m.validator), SettleOnly)
MsgOpcuAssetTransferSignFinish(m) ==
    Accept(Base58(m.validator) /\ Given(m.signedTx), TextSigners(m.validator), SettleOnly)
MsgOpcuAssetTransferFinish(m) == Accept(Base58(m.validator) /\ m.costFee >= 0, TextSigners(m.validator), SettleOnly)

\* Each validator appears once in the evidence of a retry.
MsgOrderRetry(m) ==
    Accept(Base58(m.from) /\ Batch(m.orderIDs) /\ IsInjective(m.evidences), TextSigners(m.from), SettleOnly)

MsgCancelWithdrawal(m) == Accept(Base58(m.fromCU) /\ Legal(m.orderID), TextSigners(m.fromCU), User)

-----------------------------------------------------------------------------
(***************************************************************************)
(* x/keygen                                                                *)
(***************************************************************************)
MsgKeyGen(m) ==
    Accept(Legal(m.orderID) /\ ValidSymbol(m.symbol) /\ m.symbol # NativeToken /\ Valid(m.from) /\ Valid(m.to),
           <<m.from>>, User)

MsgKeyGenWaitSign(m) ==
    Accept(/\ Valid(m.from) /\ Legal(m.orderID) /\ Given(m.pubKey)
           /\ m.keyNodes # <<>> /\ \A i \in DOMAIN m.keyNodes : Valid(m.keyNodes[i])
           /\ m.keySigs # 0 /\ m.epoch # 0,
           <<m.from>>, SettleOnly)

MsgPreKeyGen(m) == Accept(Batch(m.orderIDs) /\ Valid(m.from), <<m.from>>, SettleOnly)
MsgKeyGenFinish(m) == Accept(Valid(m.validator), <<m.validator>>, SettleOnly)
MsgOpcuMigrationKeyGen(m) == Accept(Batch(m.orderIDs) /\ Valid(m.from), <<m.from>>, SettleOnly)

MsgNewOpCU(m) ==
    Accept(m.symbol \notin {"", NativeToken} /\ Valid(m.opCU) /\ Valid(m.from), <<m.from>>, User)

-----------------------------------------------------------------------------
(***************************************************************************)
(* x/mapping                                                               *)
(***************************************************************************)
MsgMappingSwap(m) == Accept(Valid(m.from) /\ ValidSymbol(m.symbol) /\ m.coins = 1, <<m.from>>, User)

MsgCreateDirectSwap(m) ==
    Accept(/\ ValidText(m.from) /\ ValidText(m.receiveAddr) /\ Legal(m.orderID)
           /\ Pair(m.srcSymbol, m.targetSymbol) /\ m.amount > 0 /\ m.swapAmount > 0 /\ ~m.descTooLong,
           TextSigners(m.from), User)

MsgCreateFreeSwap(m) ==
    Accept(/\ ValidText(m.from) /\ Legal(m.orderID) /\ Pair(m.srcSymbol, m.targetSymbol)
           /\ m.totalAmount > 0 /\ m.minSwapAmount > 0 /\ m.maxSwapAmount > 0
           /\ m.maxSwapAmount >= m.minSwapAmount /\ ~m.descTooLong,
           TextSigners(m.from), User)

MsgSwapSymbol(m) ==
    Accept(ValidText(m.from) /\ m.swapType \in {"free", "direct"} /\ Legal(m.orderID) /\ m.amount > 0,
           TextSigners(m.from), User)

MsgCancelSwap(m) ==
    Accept(ValidText(m.from) /\ m.swapType \in {"free", "direct"} /\ Legal(m.orderID), TextSigners(m.from), User)

-----------------------------------------------------------------------------
(***************************************************************************)
(* x/openswap.  A name is "", "short" or "long"; a field that may be left  *)
(* out of an edit is "none" then.                                          *)
(***************************************************************************)
MsgCreateDex(m) == Accept(Valid(m.from) /\ Valid(m.incomeReceiver) /\ m.name = "short", <<m.from>>, User)

MsgEditDex(m) ==
    Accept(Valid(m.from) /\ (m.incomeReceiver = "none" \/ Valid(m.incomeReceiver)) /\ m.name # "long",
           <<m.from>>, User)

MsgCreateTradingPair(m) ==
    Accept(/\ Valid(m.from) /\ m.dexID # 0 /\ Pair(m.tokenA, m.tokenB)
           /\ Fraction(m.lpRewardRate) /\ Fraction(m.refererRewardRate),
           <<m.from>>, User)

\* Rates that are left out stay as they are; here they are sequences of at most one rate.
MsgEditTradingPair(m) ==
    Accept(/\ Valid(m.from) /\ m.dexID # 0 /\ Pair(m.tokenA, m.tokenB)
           /\ \A i \in DOMAIN m.lpRewardRate : Fraction(m.lpRewardRate[i])
           /\ \A i \in DOMAIN m.refererRewardRate : Fraction(m.refererRewardRate[i]),
           <<m.from>>, User)

MsgAddLiquidity(m) ==
    Accept(Valid(m.from) /\ Pair(m.tokenA, m.tokenB) /\ m.maxTokenA > 0 /\ m.maxTokenB > 0, <<m.from>>, User)

MsgRemoveLiquidity(m) == Accept(Valid(m.from) /\ Pair(m.tokenA, m.tokenB) /\ m.liquidity > 0, <<m.from>>, User)

SwapPath(path) ==
    /\ Len(path) >= 2
    /\ \A i \in DOMAIN path : ValidSymbol(path[i]) /\ (i > 1 => path[i] # path[i - 1])

MsgSwapExactIn(m) ==
    Accept(/\ Valid(m.from) /\ Valid(m.referer) /\ Valid(m.receiver) /\ SwapPath(m.swapPath)
           /\ m.amountIn > 0 /\ m.minAmountOut > 0,
           <<m.from>>, User)

MsgSwapExactOut(m) ==
    Accept(/\ Valid(m.from) /\ Valid(m.referer) /\ Valid(m.receiver) /\ SwapPath(m.swapPath)
           /\ m.maxAmountIn > 0 /\ m.amountOut > 0,
           <<m.from>>, User)

MsgLimitSwap(m) ==
    Accept(/\ Valid(m.from) /\ Legal(m.orderID) /\ Valid(m.referer) /\ Valid(m.receiver)
           /\ ValidSymbol(m.baseSymbol) /\ ValidSymbol(m.quoteSymbol)
           /\ m.amountIn > 0 /\ m.price > 0 /\ m.side \in {"buy", "sell"},
           <<m.from>>, User)

MsgCancelLimitSwap(m) == Accept(Valid(m.from) /\ Batch(m.orderIDs), <<m.from>>, User)
MsgClaimEarning(m) == Accept(Valid(m.from) /\ Pair(m.tokenA, m.tokenB), <<m.from>>, User)

-----------------------------------------------------------------------------
(***************************************************************************)
(* Staking, governance, distribution and the rest                          *)
(***************************************************************************)
\* CommissionRates.Validate: 0 =< rate =< maximum =< 1, and so the change.
CommissionValid(c) ==
    /\ 0 =< c.maxRate /\ c.maxRate =< One
    /\ 0 =< c.rate /\ c.rate =< c.maxRate
    /\ 0 =< c.maxChangeRate /\ c.maxChangeRate =< c.maxRate

MsgCreateValidator(m) ==
    Accept(/\ NonEmpty(m.delegator) /\ NonEmpty(m.validator) /\ m.validator = m.delegator
           /\ m.value > 0 /\ Given(m.description) /\ CommissionValid(m.commission)
           /\ m.minSelfDelegation > 0 /\ m.value >= m.minSelfDelegation,
           IF m.delegator = m.validator THEN <<m.delegator>> ELSE <<m.delegator, m.validator>>, User)

\* A new rate and a new minimum are sequences of at most one number.
MsgEditValidator(m) ==
    Accept(/\ NonEmpty(m.validator) /\ Given(m.description)
           /\ \A i \in DOMAIN m.minSelfDelegation : m.minSelfDelegation[i] > 0
           /\ \A i \in DOMAIN m.rate : 0 =< m.rate[i] /\ m.rate[i] =< One,
           <<m.validator>>, User)

MsgKeyNodeHeartbeat(m) == Accept(NonEmpty(m.validator) /\ m.height # 0, <<m.validator>>, User)
MsgDelegate(m) == Accept(NonEmpty(m.delegator) /\ NonEmpty(m.validator) /\ m.amount > 0, <<m.delegator>>, User)

MsgBeginRedelegate(m) ==
    Accept(NonEmpty(m.delegator) /\ NonEmpty(m.src) /\ NonEmpty(m.dst) /\ m.amount > 0, <<m.delegator>>, User)

MsgUndelegate(m) == Accept(NonEmpty(m.delegator) /\ NonEmpty(m.validator) /\ m.amount > 0, <<m.delegator>>, User)

\* The content checks itself; it is "", "bad" or "good".
MsgSubmitProposal(m) ==
    Accept(m.content = "good" /\ NonEmpty(m.proposer) /\ CoinsValid(m.deposit) /\ ~AnyNegative(m.deposit),
           <<m.proposer>>, User)

MsgGovDeposit(m) ==
    Accept(NonEmpty(m.depositor) /\ CoinsValid(m.amount) /\ ~AnyNegative(m.amount), <<m.depositor>>, User)

ValidVoteOption(o) == o \in {"Yes", "Abstain", "No", "NoWithVeto"}
MsgVote(m) == Accept(NonEmpty(m.voter) /\ ValidVoteOption(m.option), <<m.voter>>, User)
MsgDaoVote(m) == Accept(NonEmpty(m.voter) /\ ~AnyNegative(m.amount) /\ ValidVoteOption(m.option), <<m.voter>>, User)
MsgCancelDaoVote(m) == Accept(NonEmpty(m.voter), <<m.voter>>, User)

MsgSetWithdrawAddress(m) == Accept(NonEmpty(m.delegator) /\ NonEmpty(m.withdraw), <<m.delegator>>, User)
MsgWithdrawDelegatorReward(m) == Accept(NonEmpty(m.delegator) /\ NonEmpty(m.validator), <<m.delegator>>, User)
MsgWithdrawValidatorCommission(m) == Accept(NonEmpty(m.validator), <<m.validator>>, User)
MsgUnjail(m) == Accept(NonEmpty(m.validator), <<m.validator>>, User)
MsgVerifyInvariant(m) == Accept(NonEmpty(m.sender), <<m.sender>>, User)
MsgSubmitEvidence(m) == Accept(m.evidence = "good" /\ NonEmpty(m.submitter), <<m.submitter>>, User)

\* Decimals are at most the precision of decimal numbers, of which 0 .. 2 stands for 0 .. 18.
MsgNewToken(m) ==
    Accept(Valid(m.from) /\ Valid(m.to) /\ Given(m.name) /\ m.decimals =< 2 /\ m.totalSupply > 0, <<m.from>>, User)

MsgSynGasPrice(m) == Accept(Base58(m.from) /\ m.prices # 0, TextSigners(m.from), SettleOnly)

-----------------------------------------------------------------------------
(***************************************************************************)
(* Transactions: a sequence of accepted messages                           *)
(***************************************************************************)
\* String of an address: all that are not of the right length have the empty text.
AddressText(addr) == IF Valid(addr) THEN addr ELSE ""

Distinct(addrs) ==
    FoldLeft(LAMBDA list, a : IF \E i \in DOMAIN list : AddressText(list[i]) = AddressText(a) THEN list ELSE Append(list, a),
             <<>>, addrs)

\* A slip in GetSigners: addresses without a text are passed over.
SignersWithText(msgs) ==
    Distinct(SelectSeq(FlattenSeq([i \in DOMAIN msgs |-> msgs[i].signers]), LAMBDA a : AddressText(a) # ""))

\* GetSigners of StdTx: the signers of the messages in their order, of one text the first.
GetSigners(msgs) == Distinct(FlattenSeq([i \in DOMAIN msgs |-> msgs[i].signers]))

\* ValidateBasic of StdTx and processSig: there are signers, and each can sign.  The address of a key has the
\* right length, so that no key fits another address (ProcessPubKey).
CanBeSigned(msgs) == GetSigners(msgs) # <<>> /\ \A i \in DOMAIN GetSigners(msgs) : Valid(GetSigners(msgs)[i])

-----------------------------------------------------------------------------
(***************************************************************************)
(* The units for which the handler of a message acts: whose coins, votes,  *)
(* bonds, swaps or proposals it changes in their name.  Where the message  *)
(* has a text the handler reads it again, and refuses the message when it  *)
(* cannot.  Handlers that prepare or sign transactions on other chains     *)
(* look at no sender.                                                      *)
(***************************************************************************)
ReadAgain(text) == IF Base58(text) THEN {IF text = "" THEN "nil" ELSE text} ELSE {}

Prepares == {"MsgCollectWaitSign", "MsgCollectSignFinish", "MsgWithdrawalWaitSign", "MsgWithdrawalSignFinish",
             "MsgSysTransfer", "MsgSysTransferWaitSign", "MsgSysTransferSignFinish", "MsgOpcuAssetTransfer",
             "MsgOpcuAssetTransferWaitSign", "MsgOpcuAssetTransferSignFinish", "MsgKeyGenFinish"}

TransferActors(type, m) ==
    CASE type \in Prepares -> {}
      [] type = "MsgMultiSend" -> Range(m.inputs)
      [] type \in {"MsgSend", "MsgDeposit", "MsgConfirmedDeposit"} -> {m.from}
      [] type = "MsgOrderRetry" -> ReadAgain(m.from)
      [] type \in {"MsgWithdrawal", "MsgWithdrawalConfirm", "MsgCancelWithdrawal"} -> ReadAgain(m.fromCU)
      [] OTHER -> ReadAgain(m.validator)

\* The handlers of x/mapping, but for MsgMappingSwap, and of MsgSynGasPrice.
TextActors(m) == ReadAgain(m.from)

\* The other handlers take the address as it is in the message.
Senders == {"from", "delegator", "proposer", "depositor", "voter", "sender", "submitter"}
OtherActors(m) == IF Senders \cap DOMAIN m = {} THEN {m.validator} ELSE {m[f] : f \in Senders \cap DOMAIN m}
=============================================================================
