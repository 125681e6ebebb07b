------------------------------ MODULE BaseApp -------------------------------
(***************************************************************************)
(* Execution of blocks (baseapp/baseapp.go): the committed state, the      *)
(* state of the mempool's checks, the state of the block that is being     *)
(* delivered, the gas of the block, and what a restart loses.  Tendermint  *)
(* drives the calls: begin, deliver any number of times, end, commit, with *)
(* checks and simulations at any time between them.                        *)
(*                                                                         *)
(* The state of the application is [seq, pub, bal, kv]: what the ante      *)
(* handler works on, and kv, the messages whose writes are in the store.   *)
(* A handler writes first, and then fails, panics or ends; a message       *)
(* "verify" is one of x/crisis.                                            *)
(***************************************************************************)
EXTENDS Integers, Sequences, SequencesExt

-----------------------------------------------------------------------------
(***************************************************************************)
(* Gas meters (store/types/gas.go).  A meter that panics keeps what it was *)
(* charged; one whose counter would overflow falls back to zero.           *)
(***************************************************************************)
CONSTANT MaxUint64

NewGasMeter(limit) == [limit |-> limit, infinite |-> FALSE, consumed |-> 0, panic |-> "none"]
NewInfiniteGasMeter == [limit |-> 0, infinite |-> TRUE, consumed |-> 0, panic |-> "none"]

IsPastLimit(g) == ~g.infinite /\ g.consumed > g.limit
IsOutOfGas(g) == ~g.infinite /\ g.consumed >= g.limit
GasConsumedToLimit(g) == IF IsPastLimit(g) THEN g.limit ELSE g.consumed

ConsumeGas(g, amount) ==
    IF MaxUint64 - g.consumed < amount
    THEN [g EXCEPT !.consumed = 0, !.panic = "gas overflow"]
    ELSE LET c == [g EXCEPT !.consumed = @ + amount]
         IN  IF IsPastLimit(c) THEN [c EXCEPT !.panic = "out of gas"] ELSE c

-----------------------------------------------------------------------------
(***************************************************************************)
(* The ante handler (x/custodianunit/ante.go) and the standard transaction *)
(* (x/custodianunit/types/stdtx.go): fees, the fee quota of key nodes,     *)
(* signatures, sequence numbers, and the refund of fees for unused gas.    *)
(*                                                                         *)
(* A transaction is [msgs, fee, gas, sigs, memo].  A message has its kind, *)
(* its signers and what its handler does; a signature tells who made it,   *)
(* the sequence number it was made over, whether the public key comes with *)
(* it, and how many keys that key has.                                     *)
(***************************************************************************)
CONSTANTS Users, OpCUs, KeyNodes,      \* Users: who signs; OpCUs and active key nodes among them
          Precision,                   \* digits of decimals
          MinGasPrice,                 \* of this node, whole coins
          TxSizeGas, SigGas,           \* what the ante handler charges
          ParamsGas, ReadGas,          \* gas of reading the parameters, and a unit
          BeginGas,                    \* gas of the begin blockers; in the first block, of the genesis too
          TxSigLimit, MaxMemoCharacters, MaxGasWanted,
          SettleQuota,                 \* gas a key node may use free of fees, in a block
          DefaultGasUsedForRefund, RefundGas

D == INSTANCE Decimal WITH maxBitLen <- 255

Collector == "fee_collector"

-----------------------------------------------------------------------------
(***************************************************************************)
(* StdTx                                                                   *)
(***************************************************************************)
\* Each address once, in the order of its first message.
GetSigners(tx) ==
    FoldLeft(LAMBDA seen, a : IF Contains(seen, a) THEN seen ELSE Append(seen, a),
             <<>>, FlattenSeq([i \in DOMAIN tx.msgs |-> tx.msgs[i].signers]))

IsSettleTx(tx) == \A i \in DOMAIN tx.msgs : tx.msgs[i].kind \in {"settle", "settle only"}
IsSettleOnlyTx(tx) == \E i \in DOMAIN tx.msgs : tx.msgs[i].kind = "settle only"

ValidateBasic(tx) ==
    /\ tx.gas =< MaxGasWanted
    /\ tx.fee >= 0
    /\ Len(tx.sigs) # 0
    /\ Len(tx.sigs) = Len(GetSigners(tx))

ValidateSigCount(tx) == FoldLeft(LAMBDA n, s : n + s.keys, 0, tx.sigs) =< TxSigLimit
ValidateMemo(tx) == tx.memo =< MaxMemoCharacters
EnsureSufficientMempoolFees(tx) == MinGasPrice = 0 \/ tx.fee >= MinGasPrice * tx.gas
CheckCUType(signers) == \A i \in DOMAIN signers : signers[i] \notin OpCUs

-----------------------------------------------------------------------------
(***************************************************************************)
(* The ante handler.  ctx is [check, simulate, height, quota, used]; the   *)
(* handler threads [st, meter, quota, paid, code, ctxUsed], and what       *)
(* follows a code other than "ok" is skipped.  used is the gas on the      *)
(* meter of the context it is called with, which all transactions of a     *)
(* block share: the parameters and the signers are read on that meter.     *)
(***************************************************************************)
Check(x, holds, code) == IF x.code = "ok" /\ ~holds THEN [x EXCEPT !.code = code] ELSE x

Charge(x, gas) ==
    IF x.code # "ok" THEN x
    ELSE LET g == ConsumeGas(x.meter, gas)
         IN  [x EXCEPT !.meter = g, !.code = IF g.panic = "none" THEN "ok" ELSE g.panic]

SetGasMeter(ctx, limit) == IF ctx.simulate \/ ctx.height = 0 THEN NewInfiniteGasMeter ELSE NewGasMeter(limit)

Consume(quota, addr, gas) ==
    LET after == quota[addr] + gas
    IN  IF after =< SettleQuota THEN [ok |-> TRUE, quota |-> [quota EXCEPT ![addr] = after]]
        ELSE [ok |-> FALSE, quota |-> quota]

DeductFees(x, addr, fee) ==
    IF x.st.bal[addr] < fee THEN [x EXCEPT !.code = "insufficient coins"]
    ELSE [x EXCEPT !.st.bal = [@ EXCEPT ![addr] = @ - fee, ![Collector] = @ + fee], !.paid = fee]

\* The quota is memory of the block: an abort after it was used does not give it back.
PayFees(ctx, x, tx) ==
    LET payer  == GetSigners(tx)[1]
        asked  == ~ctx.check /\ IsSettleTx(tx) /\ payer \in KeyNodes
        quota  == Consume(x.quota, payer, tx.gas)
    IN  IF x.code # "ok" \/ tx.fee = 0 THEN x
        ELSE IF asked /\ quota.ok THEN [x EXCEPT !.quota = quota.quota]
        ELSE DeductFees(x, payer, tx.fee)

\* A public key that is not known comes with the signature, and has to be the signer's.
ProcessPubKey(ctx, x, addr, sig) ==
    Check(x, ctx.simulate \/ x.st.pub[addr] \/ (sig.pubKey /\ sig.by = addr), "invalid pubkey")

\* Every key of a multisignature is paid for.
DefaultSigVerificationGasConsumer(x, sig) == FoldLeft(LAMBDA y, i : Charge(y, SigGas), x, [i \in 1 .. sig.keys |-> i])

\* The bytes that are signed hold the chain, the sequence number and the transaction.
processSig(ctx, x, addr, sig) ==
    LET k == DefaultSigVerificationGasConsumer(ProcessPubKey(ctx, x, addr, sig), sig)
        v == Check(k, ctx.simulate \/ (sig.by = addr /\ sig.sequence = k.st.seq[addr]), "unauthorized")
    IN  IF v.code # "ok" THEN v
        ELSE [v EXCEPT !.st.pub[addr] = TRUE, !.st.seq[addr] = @ + 1]

ReadUnit(x) == IF x.code = "ok" THEN [x EXCEPT !.ctxUsed = @ + ReadGas] ELSE x

MeterSet(ctx, x, tx) == IF x.code = "ok" THEN [x EXCEPT !.meter = SetGasMeter(ctx, tx.gas)] ELSE x

AnteHandler(ctx, st, tx) ==
    LET start   == [st |-> st, meter |-> NewInfiniteGasMeter, quota |-> ctx.quota, paid |-> 0, code |-> "ok",
                    ctxUsed |-> ctx.used + ParamsGas]
        mempool == Check(start, ctx.check /\ ~ctx.simulate => EnsureSufficientMempoolFees(tx), "insufficient fee")
        counted == Check(MeterSet(ctx, mempool, tx), ValidateSigCount(tx), "too many signatures")
        valid   == Check(counted, ValidateBasic(tx), "invalid")
        memo    == Check(Charge(valid, TxSizeGas), ValidateMemo(tx), "memo too large")
        typed   == Check(memo, CheckCUType(GetSigners(tx)), "invalid address")
        settle  == Check(PayFees(ctx, ReadUnit(typed), tx), IsSettleOnlyTx(tx) => GetSigners(tx)[1] \in KeyNodes, "invalid account")
    IN  FoldLeft(LAMBDA x, i : IF x.code # "ok" THEN x
                               ELSE processSig(ctx, IF i = 1 THEN x ELSE ReadUnit(x), GetSigners(tx)[i], tx.sigs[i]),
                 settle, [i \in DOMAIN tx.sigs |-> i])

RefundCoins(tx, used) ==
    D!TruncateInt(D!Mul(D!ToDec(tx.fee),
                        D!OneDec - D!Quo(D!ToDec(used + DefaultGasUsedForRefund), D!ToDec(tx.gas))))

\* The refund is paid with the gas that is left; x is [st, meter, code].
GasRefundHandler(x, tx, used) ==
    LET refund == RefundCoins(tx, used)
        payer  == GetSigners(tx)[1]
    IN  IF tx.gas < used + DefaultGasUsedForRefund \/ IsSettleTx(tx)
        THEN [done |-> FALSE, refund |-> 0, st |-> x.st, meter |-> x.meter]
        ELSE [done |-> TRUE, refund |-> refund,
              st |-> [x.st EXCEPT !.bal = [@ EXCEPT ![payer] = @ + refund, ![Collector] = @ - refund]],
              meter |-> ConsumeGas(x.meter, RefundGas)]

-----------------------------------------------------------------------------
CONSTANTS Txs,                \* transactions there are
          MaxBlockGas,        \* of the consensus parameters; -1: none
          HaltHeight,         \* of the node's configuration; 0: none
          HaltByTime,         \* whether the node is to halt at a time
          ConstantFee,        \* of x/crisis
          GenesisBalance

\* deliver, blockGas and quota are memory of the block; block: its transactions so far, with
\* what DeliverTx answered.
VARIABLES committed, height, check, checkHeight, deliver, blockGas, quota, phase, block

vars == <<committed, height, check, checkHeight, deliver, blockGas, quota, phase, block>>

getMaximumBlockGas == IF MaxBlockGas = -1 THEN 0 ELSE MaxBlockGas
NewBlockGas == IF getMaximumBlockGas > 0 THEN NewGasMeter(getMaximumBlockGas) ELSE NewInfiniteGasMeter
NewQuota == [u \in Users |-> 0]

-----------------------------------------------------------------------------
(***************************************************************************)
(* Messages.  x is [st, meter, code]; a code "panic" or one of the meter's *)
(* unwinds the stack, any other one is the result of a handler.            *)
(***************************************************************************)
Panics(code) == code \in {"panic", "out of gas", "gas overflow"}

\* x/crisis: the constant fee is paid, and a broken invariant panics.
handleMsgVerifyInvariant(x, msg) ==
    LET sender == msg.signers[1]
    IN  IF x.st.bal[sender] < ConstantFee THEN [x EXCEPT !.code = "insufficient coins"]
        ELSE [x EXCEPT !.st.bal = [@ EXCEPT ![sender] = @ - ConstantFee, ![Collector] = @ + ConstantFee],
                       !.code = IF msg.does = "verify broken" THEN "panic" ELSE "ok"]

Handle(x, msg) ==
    LET c == Charge(x, msg.gas)
    IN  IF c.code # "ok" THEN c
        ELSE IF msg.does \in {"verify", "verify broken"} THEN handleMsgVerifyInvariant(c, msg)
        ELSE [c EXCEPT !.st.kv = Append(@, msg.id),
                       !.code = IF msg.does = "ok" THEN "ok" ELSE msg.does]

\* The first message that fails ends the loop; a check only looks up the routes.
runMsgs(mode, x, msgs) ==
    FoldLeft(LAMBDA y, msg : IF y.code # "ok" THEN y
                             ELSE IF ~msg.routed THEN [y EXCEPT !.code = "unknown request"]
                             ELSE IF mode = "check" THEN y
                             ELSE Handle(y, msg),
             x, msgs)

validateBasicTxMsgs(msgs) == Len(msgs) > 0 /\ \A i \in DOMAIN msgs : msgs[i].valid

-----------------------------------------------------------------------------
(***************************************************************************)
(* Transactions.  mem is [st, blockGas, quota, height, used]; used is the  *)
(* gas on the meter of the deliver state (of a check it is of no account). *)
(***************************************************************************)
\* Deferred in deliver mode: the gas of the transaction is charged to the block, and a panic
\* of the meter of the block takes the place of the result.  The state is written by then.
ChargeBlock(r, meter) ==
    LET g == ConsumeGas([r.blockGas EXCEPT !.panic = "none"], GasConsumedToLimit(meter))
    IN  [r EXCEPT !.blockGas = g, !.code = IF g.panic = "none" THEN @ ELSE g.panic, !.used = meter.consumed]

\* A slip in deliverMsgs: the refund of a failed transaction is written with what its messages wrote.
deliverMsgsDirty(ante, run, tx) ==
    LET refund == GasRefundHandler(run, tx, run.meter.consumed)
    IN  IF Panics(run.code) THEN [st |-> ante.st, refund |-> 0, meter |-> run.meter]
        ELSE [st |-> refund.st, refund |-> refund.refund, meter |-> refund.meter]

\* What is written after the messages: of a success all of it, of a failure only the refund, and
\* of a panic nothing but what the ante handler wrote before.
deliverMsgs(ante, run, tx) ==
    LET final  == IF run.code = "ok" THEN run ELSE [run EXCEPT !.st = ante.st]
        refund == GasRefundHandler(final, tx, run.meter.consumed)
    IN  IF Panics(run.code) THEN [st |-> ante.st, refund |-> 0, meter |-> run.meter]
        ELSE [st |-> refund.st, refund |-> refund.refund, meter |-> refund.meter]

Charged(mode, r, meter) == IF mode = "deliver" THEN ChargeBlock(r, meter) ELSE [r EXCEPT !.used = meter.consumed]

\* The result once the messages ran: a check writes what the ante handler wrote.
afterMsgs(mode, r, ante, run, done) ==
    IF mode # "deliver"
    THEN Charged(mode, [r EXCEPT !.st = ante.st, !.code = run.code, !.paid = ante.paid], run.meter)
    ELSE Charged(mode, [r EXCEPT !.st = done.st, !.quota = ante.quota, !.code = run.code,
                                 !.paid = ante.paid, !.refund = done.refund], done.meter)

\* The messages run when the ante handler did not abort.
afterAnte(mode, r, ante, tx) ==
    LET run == runMsgs(mode, [st |-> ante.st, meter |-> ante.meter, code |-> "ok"], tx.msgs)
    IN  IF ante.code # "ok" THEN Charged(mode, [r EXCEPT !.code = ante.code, !.quota = ante.quota], ante.meter)
        ELSE afterMsgs(mode, r, ante, run, deliverMsgs(ante, run, tx))

withAnte(mode, r, ante, tx) == afterAnte(mode, [r EXCEPT !.ctxUsed = ante.ctxUsed], ante, tx)

\* A transaction with an invalid message never gets a meter of its own: what is charged to the block
\* is the gas that the meter of the deliver state shows.
runTx(mode, mem, tx) ==
    LET ctx == [check |-> mode # "deliver", simulate |-> mode = "simulate",
                height |-> mem.height, quota |-> mem.quota, used |-> mem.used]
        r   == [st |-> mem.st, blockGas |-> mem.blockGas, quota |-> mem.quota, code |-> "ok",
                paid |-> 0, refund |-> 0, used |-> 0, ctxUsed |-> mem.used]
    IN  IF mode = "deliver" /\ IsOutOfGas(mem.blockGas) THEN [r EXCEPT !.code = "no block gas"]
        ELSE IF ~validateBasicTxMsgs(tx.msgs)
        THEN Charged(mode, [r EXCEPT !.code = "invalid"], [NewInfiniteGasMeter EXCEPT !.consumed = mem.used])
        ELSE withAnte(mode, r, AnteHandler(ctx, mem.st, tx), tx)

-----------------------------------------------------------------------------
(***************************************************************************)
(* Calls of Tendermint                                                     *)
(***************************************************************************)
GenesisState == [seq |-> [u \in Users |-> 0], pub |-> [u \in Users |-> FALSE],
                 bal |-> [a \in Users \cup {Collector} |-> IF a \in Users THEN GenesisBalance ELSE 0],
                 kv |-> <<>>]
NoState == [none |-> TRUE]

setCheckState(st, h) == check' = st /\ checkHeight' = h
setDeliverState(st) == deliver' = st

\* After InitChain: the genesis is in the deliver state, which the first commit writes.
Init ==
    /\ committed = NoState /\ height = 0
    /\ check = NoState /\ checkHeight = 0
    /\ deliver = GenesisState
    /\ blockGas = NewInfiniteGasMeter /\ quota = NewQuota
    /\ phase = "idle" /\ block = <<>>

\* A slip in BeginBlock: the quota of the last block goes on.
BeginBlockOldQuota ==
    /\ phase = "idle"
    /\ phase' = "deliver"
    /\ deliver' = IF deliver = NoState THEN committed ELSE deliver
    /\ blockGas' = NewBlockGas /\ block' = <<>>
    /\ UNCHANGED <<quota, committed, height, check, checkHeight>>

BeginBlock ==
    /\ phase = "idle"
    /\ phase' = "deliver"
    /\ setDeliverState(IF deliver = NoState THEN committed ELSE deliver)
    /\ blockGas' = NewBlockGas /\ quota' = NewQuota /\ block' = <<>>
    /\ UNCHANGED <<committed, height, check, checkHeight>>

Answer(tx, r) == [tx |-> tx, code |-> r.code, paid |-> r.paid, refund |-> r.refund, used |-> r.used, ctxUsed |-> r.ctxUsed]

\* The meter of the deliver state, after the transactions of the block.
DeliverUsed == IF block = <<>> THEN BeginGas ELSE Last(block).ctxUsed

DeliverTx(tx) ==
    LET r == runTx("deliver", [st |-> deliver, blockGas |-> blockGas, quota |-> quota, height |-> height + 1,
                               used |-> DeliverUsed], tx)
    IN  /\ phase = "deliver"
        /\ deliver' = r.st /\ blockGas' = r.blockGas /\ quota' = r.quota
        /\ block' = Append(block, Answer(tx, r))
        /\ UNCHANGED <<committed, height, check, checkHeight, phase>>

CheckTx(tx) ==
    LET r == runTx("check", [st |-> check, blockGas |-> NewInfiniteGasMeter, quota |-> NewQuota,
                             height |-> checkHeight, used |-> 0], tx)
    IN  /\ check # NoState
        /\ check' = r.st
        /\ UNCHANGED <<committed, height, checkHeight, deliver, blockGas, quota, phase, block>>

\* EndBlock and Commit: the end blockers are in the models of their modules.
Commit ==
    /\ phase = "deliver"
    /\ HaltHeight > 0 => height + 1 < HaltHeight
    /\ committed' = deliver /\ height' = height + 1
    /\ setCheckState(deliver, height + 1)
    /\ deliver' = NoState /\ block' = <<>>
    /\ phase' = "idle"
    /\ UNCHANGED <<blockGas, quota>>

\* At the halt height, or in a block of the halt time, the process ends instead of committing.  The times
\* of blocks are not modelled: that of any block may be the one.
Halt ==
    /\ phase = "deliver"
    /\ HaltByTime \/ (HaltHeight > 0 /\ height + 1 >= HaltHeight)
    /\ phase' = "halted"
    /\ UNCHANGED <<committed, height, check, checkHeight, deliver, blockGas, quota, block>>

\* The process stops and loads the last version; the state of checks starts from an empty header.
Restart ==
    /\ height > 0
    /\ setCheckState(committed, 0)
    /\ deliver' = NoState /\ blockGas' = NewInfiniteGasMeter /\ quota' = NewQuota
    /\ phase' = "idle" /\ block' = <<>>
    /\ UNCHANGED <<committed, height>>

Next ==
    \/ BeginBlock
    \/ \E tx \in Txs : DeliverTx(tx) \/ CheckTx(tx)
    \/ Commit
    \/ Halt
    \/ Restart

Spec == Init /\ [][Next]_vars

-----------------------------------------------------------------------------
(***************************************************************************)
(* Properties                                                              *)
(***************************************************************************)
Current == IF deliver = NoState THEN committed ELSE deliver

\* The messages of a transaction take effect at most once, however often its bytes are delivered,
\* checked or replayed after a restart: a sequence number is used up by what it signed.
NoReplay == \A i, j \in DOMAIN Current.kv : Current.kv[i] = Current.kv[j] => i = j

\* Of a transaction that reports an error nothing is written but fees and sequence numbers, and of
\* one that succeeds every message is.  The exception is a transaction whose gas the block has no room
\* for: its messages ran and were written before the meter of the block is charged, and the panic of
\* that meter turns the result into an error (baseapp.go:906-917, 974-976).  The messages of one that
\* succeeded until then are in the state, all of them or none.
AllOrNothing ==
    block' # <<>> /\ block' # block =>
       LET r   == Last(block')
           ids == [i \in DOMAIN r.tx.msgs |-> r.tx.msgs[i].id]
       IN  IF blockGas'.panic = "none"
           THEN /\ r.code = "ok" /\ (\A i \in DOMAIN r.tx.msgs : r.tx.msgs[i].does = "ok")
                       => deliver'.kv = deliver.kv \o ids
                /\ r.code # "ok" => deliver'.kv = deliver.kv
           ELSE deliver'.kv \in {deliver.kv, deliver.kv \o ids}

\* Who runs a transaction pays for the gas it used, also when it fails: the payer loses
\* the share of the fee that was used, and not more than the fee and what the messages
\* take; only a key node's settlement within the quota is free.
GasIsPaid ==
    \A i \in DOMAIN block :
        LET r == block[i]
        IN  /\ r.refund =< r.paid
            /\ r.paid > 0 => \/ r.refund = 0 /\ r.paid = r.tx.fee
                             \/ (r.paid - r.refund) * r.tx.gas >= r.tx.fee * r.used
            /\ r.paid = 0 /\ r.code = "ok" /\ r.tx.fee > 0
                   => IsSettleTx(r.tx) /\ GetSigners(r.tx)[1] \in KeyNodes

\* What key nodes run free of fees in a block stays within the quota of each.
QuotaKept ==
    \A u \in Users :
        LET free == SelectSeq(block, LAMBDA r : r.code = "ok" /\ r.paid = 0 /\ r.tx.fee > 0 /\ GetSigners(r.tx)[1] = u)
        IN  FoldLeft(LAMBDA n, r : n + r.tx.gas, 0, free) =< SettleQuota

\* A block has the same results on every node: they follow from the committed state and its
\* transactions, and from nothing a process remembers of checks, earlier blocks or a restart.
NodesAgree ==
    phase = "deliver" /\ height > 0 =>
        LET mem == FoldLeft(LAMBDA m, a :
                                LET r == runTx("deliver", [st |-> m.st, blockGas |-> m.blockGas, quota |-> m.quota,
                                                           height |-> height + 1, used |-> m.used], a.tx)
                                IN  [st |-> r.st, blockGas |-> r.blockGas, quota |-> r.quota, used |-> r.ctxUsed,
                                     answers |-> Append(m.answers, Answer(a.tx, r))],
                            [st |-> committed, blockGas |-> NewBlockGas, quota |-> NewQuota, used |-> BeginGas,
                             answers |-> <<>>], block)
        IN  mem.st = deliver /\ mem.answers = block

-----------------------------------------------------------------------------
=============================================================================
