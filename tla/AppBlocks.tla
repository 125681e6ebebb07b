----------------------------- MODULE AppBlocks ------------------------------
(***************************************************************************)
(* The module manager (types/module) with the modules and orders of the    *)
(* application (bhexapp/app.go): genesis, blocks, export, and the checks   *)
(* of x/crisis.  A step is the turn of one module.  Of what the modules do *)
(* the model keeps coins that move between accounts, the fee collector and *)
(* the pools, the total supply, and changes of validators that consensus   *)
(* has not been told of.  The chain is one; only the period at which the   *)
(* registered invariants are checked is a node's own.                      *)
(***************************************************************************)
EXTENDS Integers, Sequences, FiniteSets

CONSTANTS Nodes,
          Period,       \* of each node: blocks between two checks of the invariants, 0 for never
          Routes,       \* of the invariants that are registered
          Files         \* the genesis files a chain may start with

VARIABLES file, phase, todo, height,
          coins,        \* of accounts, of the fee collector, of the pools of modules
          supply,
          ready,        \* modules whose genesis is done
          provider,     \* the module whose validator updates are used, or "none"
          pending,      \* changes of validators that are in no update, with their heights
          broken,       \* routes of invariants that are broken, with the height of the fault
          halted,       \* nodes that have panicked outside a transaction
          verified      \* a message has shown that an invariant is broken

vars == <<file, phase, todo, height, coins, supply, ready, provider, pending, broken, halted, verified>>
block == <<broken, halted, verified>>

Total == coins.accounts + coins.collector + coins.pools

-----------------------------------------------------------------------------
(***************************************************************************)
(* The orders                                                              *)
(***************************************************************************)
OrderBeginBlockers == <<"upgrade", "mint", "distr", "openswap", "slashing">>

\* A slip in SetOrderEndBlockers: proposals come after the validator set.
EndBlockersLate == <<"crisis", "staking", "gov", "openswap", "evidence">>

OrderEndBlockers == <<"crisis", "gov", "staking", "openswap", "evidence">>

OrderInitGenesis ==
    <<"genaccounts", "order", "receipt", "token", "keygen", "distr", "staking", "custodianunit", "transfer",
      "slashing", "gov", "ibcasset", "mint", "supply", "crisis", "genutil", "hrc10", "mapping", "openswap", "evidence">>

\* NewManager: the order of an export is that in which the modules are listed.
OrderExportGenesis ==
    <<"genaccounts", "genutil", "custodianunit", "crisis", "supply", "distr", "gov", "mint", "slashing", "staking",
      "token", "receipt", "order", "keygen", "transfer", "ibcasset", "hrc10", "openswap", "mapping", "evidence", "upgrade">>

-----------------------------------------------------------------------------
(***************************************************************************)
(* Manager.InitGenesis.  A genesis file says which modules have data, the  *)
(* coins of accounts, the tokens of the validators in the staking state,   *)
(* whether there are genesis transactions, and the supply, or zero.        *)
(***************************************************************************)
Turn(m) == todo # <<>> /\ Head(todo) = m /\ todo' = Tail(todo)

\* Only one module may give validator updates.
Updates(m, some) ==
    /\ IF some /\ provider # "none" THEN phase' = "panic" ELSE UNCHANGED phase
    /\ provider' = IF some THEN m ELSE provider

\* AssertInvariants panics at the first registered invariant that is broken.
AssertInvariants == broken = {}

SupplyAtGenesis(f) == IF f.supply = 0 THEN Total ELSE f.supply

\* DeliverGenTxs: a genesis transaction moves the coins of an account to the pool of a new validator.
GenTxDelivered == coins.accounts > 0 /\ "staking" \in ready

HasData(m) == m \in file.modules
WithEffect == {"genaccounts", "staking", "supply", "crisis", "genutil"}

InitGenesis ==
    /\ phase = "genesis"
    /\ \/ /\ Turn("genaccounts") /\ HasData("genaccounts")
          /\ coins' = [coins EXCEPT !.accounts = file.coins]
          /\ UNCHANGED <<phase, supply, provider>>
       \/ /\ Turn("staking") /\ HasData("staking")
          /\ coins' = [coins EXCEPT !.pools = @ + file.staked]
          /\ Updates("staking", file.staked > 0)
          /\ UNCHANGED supply
       \/ /\ Turn("supply") /\ HasData("supply")
          /\ supply' = SupplyAtGenesis(file)
          /\ UNCHANGED <<phase, coins, provider>>
       \/ /\ Turn("crisis") /\ HasData("crisis")
          /\ IF AssertInvariants THEN UNCHANGED phase ELSE phase' = "panic"
          /\ UNCHANGED <<coins, supply, provider>>
       \/ /\ Turn("genutil") /\ HasData("genutil")
          /\ IF file.gentxs /\ ~GenTxDelivered
             THEN phase' = "panic" /\ UNCHANGED <<coins, provider>>
             ELSE /\ coins' = IF file.gentxs THEN [coins EXCEPT !.accounts = @ - 1, !.pools = @ + 1] ELSE coins
                  /\ Updates("genutil", file.gentxs)
          /\ UNCHANGED supply
       \/ /\ \E m \in {OrderInitGenesis[i] : i \in DOMAIN OrderInitGenesis} :
                 Turn(m) /\ (HasData(m) => m \notin WithEffect)
          /\ UNCHANGED <<phase, coins, supply, provider>>
    /\ ready' = ready \cup ({Head(todo)} \cap file.modules)
    /\ UNCHANGED <<file, height, pending, block>>

-----------------------------------------------------------------------------
(***************************************************************************)
(* Manager.BeginBlock                                                      *)
(***************************************************************************)
Running == Nodes \ halted

StartBlock ==
    /\ phase \in {"genesis", "committed"} /\ todo = <<>> /\ Running # {}
    /\ phase = "genesis" => provider # "none"      \* consensus needs validators
    /\ height' = height + 1 /\ phase' = "begin" /\ todo' = OrderBeginBlockers
    /\ provider' = "none"
    /\ UNCHANGED <<file, coins, supply, ready, pending, block>>

\* A slash burns a coin of the pools, if there is one, and changes a validator.
Slashed(by) ==
    /\ coins.pools > 0
    /\ coins' = [coins EXCEPT !.pools = @ - 1] /\ supply' = supply - 1
    /\ pending' = pending \cup {<<by, height>>}

BeginBlock ==
    /\ phase = "begin"
    /\ \/ /\ Turn("mint")
          /\ coins' = [coins EXCEPT !.collector = @ + 1] /\ supply' = supply + 1
          /\ UNCHANGED pending
       \/ /\ Turn("distr")
          /\ coins' = IF height > 1 THEN [coins EXCEPT !.pools = @ + coins.collector, !.collector = 0] ELSE coins
          /\ UNCHANGED <<supply, pending>>
       \/ Turn("slashing") /\ (Slashed("slashing") \/ UNCHANGED <<coins, supply, pending>>)
       \/ \E m \in {"upgrade", "openswap"} : Turn(m) /\ UNCHANGED <<coins, supply, pending>>
    /\ UNCHANGED <<file, phase, height, ready, provider, block>>

-----------------------------------------------------------------------------
(***************************************************************************)
(* Messages                                                                *)
(***************************************************************************)
Delivering == phase = "begin" /\ todo = <<>>

\* A message that changes a validator, for a fee.
DeliverStake ==
    /\ Delivering /\ coins.accounts > 1
    /\ coins' = [coins EXCEPT !.accounts = @ - 2, !.collector = @ + 1, !.pools = @ + 1]
    /\ pending' = pending \cup {<<"message", height>>}
    /\ UNCHANGED <<file, phase, todo, height, supply, ready, provider, block>>

\* A fault elsewhere breaks an invariant.
Break(r) ==
    /\ Delivering /\ \A b \in broken : b[1] # r
    /\ broken' = broken \cup {<<r, height>>}
    /\ UNCHANGED <<file, phase, todo, height, coins, supply, ready, provider, pending, halted, verified>>

(***************************************************************************)
(* handleMsgVerifyInvariant: the panic of a broken invariant is recovered  *)
(* in runTx, and nothing of the message, its fee included, is written.     *)
(***************************************************************************)
VerifyInvariant(r) ==
    /\ Delivering /\ coins.accounts > 0
    /\ IF \E b \in broken : b[1] = r THEN verified' = TRUE /\ UNCHANGED coins
       ELSE coins' = [coins EXCEPT !.accounts = @ - 1, !.collector = @ + 1] /\ UNCHANGED verified
    /\ UNCHANGED <<file, phase, todo, height, supply, ready, provider, pending, broken, halted>>

-----------------------------------------------------------------------------
(***************************************************************************)
(* Manager.EndBlock                                                        *)
(***************************************************************************)
EndDelivery ==
    /\ Delivering
    /\ phase' = "end" /\ todo' = OrderEndBlockers
    /\ UNCHANGED <<file, height, coins, supply, ready, provider, pending, block>>

Checks(n) == Period[n] # 0 /\ height % Period[n] = 0

EndBlock ==
    /\ phase = "end"
    /\ \/ /\ Turn("crisis")
          /\ halted' = halted \cup {n \in Running : Checks(n) /\ ~AssertInvariants}
          /\ UNCHANGED <<phase, coins, supply, provider, pending>>
       \/ /\ Turn("gov")
          /\ pending' = pending \/ pending' = pending \cup {<<"proposal", height>>}
          /\ UNCHANGED <<phase, coins, supply, provider, halted>>
       \/ /\ Turn("staking")
          /\ Updates("staking", pending # {})
          /\ pending' = {}
          /\ UNCHANGED <<coins, supply, halted>>
       \/ Turn("openswap") /\ UNCHANGED <<phase, coins, supply, provider, pending, halted>>
       \/ /\ Turn("evidence")
          /\ Slashed("evidence") \/ UNCHANGED <<coins, supply, pending>>
          /\ UNCHANGED <<phase, provider, halted>>
    /\ UNCHANGED <<file, height, ready, broken, verified>>

Commit ==
    /\ phase = "end" /\ todo = <<>>
    /\ phase' = "committed"
    /\ UNCHANGED <<file, todo, height, coins, supply, ready, provider, pending, block>>

(***************************************************************************)
(* ExportAppStateAndValidators and a new chain from it.  The accounts are  *)
(* exported without their coins, and the balances not at all.              *)
(***************************************************************************)
Export ==
    [modules |-> {OrderExportGenesis[i] : i \in DOMAIN OrderExportGenesis}, coins |-> 0, staked |-> coins.pools,
     gentxs |-> FALSE, supply |-> supply]

Start(f) ==
    [file |-> f, phase |-> "genesis", todo |-> OrderInitGenesis, height |-> 0,
     coins |-> [accounts |-> 0, collector |-> 0, pools |-> 0], supply |-> 0, ready |-> {},
     provider |-> "none", pending |-> {}, broken |-> {}, halted |-> {}, verified |-> FALSE]

RestartFrom(s) ==
    /\ file' = s.file /\ phase' = s.phase /\ todo' = s.todo /\ height' = s.height /\ coins' = s.coins
    /\ supply' = s.supply /\ ready' = s.ready /\ provider' = s.provider /\ pending' = s.pending
    /\ broken' = s.broken /\ halted' = s.halted /\ verified' = s.verified

Restart == phase = "committed" /\ broken = {} /\ RestartFrom(Start(Export))

Init ==
    \E f \in Files : LET s == Start(f) IN
        /\ file = s.file /\ phase = s.phase /\ todo = s.todo /\ height = s.height /\ coins = s.coins
        /\ supply = s.supply /\ ready = s.ready /\ provider = s.provider /\ pending = s.pending
        /\ broken = s.broken /\ halted = s.halted /\ verified = s.verified

Next ==
    \/ InitGenesis \/ StartBlock \/ BeginBlock \/ DeliverStake \/ EndDelivery \/ EndBlock \/ Commit \/ Restart
    \/ \E r \in Routes : Break(r) \/ VerifyInvariant(r)

Spec == Init /\ [][Next]_vars

-----------------------------------------------------------------------------
(***************************************************************************)
(* Genesis goes through for every file that does not both hold validators  *)
(* and create some: modules find what they need, in the given order, and   *)
(* the validator updates come from one module.                             *)
(***************************************************************************)
GenesisSucceeds == phase = "panic" => file.staked > 0 /\ file.gentxs

(***************************************************************************)
(* "During begin block slashing happens after distr.BeginBlocker so that   *)
(* there is nothing left over in the validator fee pool" (bhexapp/         *)
(* app.go:275): nothing of the fees and of what mint has just added.       *)
(***************************************************************************)
NothingLeftOver ==
    phase = "begin" /\ todo # <<>> /\ Head(todo) = "slashing" /\ height > 1 => coins.collector = 0

(***************************************************************************)
(* When a block is committed consensus knows of every change of validators *)
(* by slashing, messages and proposals of this block; only evidence, which *)
(* is handled after staking, waits, and for one block at most.             *)
(***************************************************************************)
UpdatesCurrent == phase = "committed" => pending \subseteq {<<"evidence", height>>}

(***************************************************************************)
(* A node that checks invariants is not past the first block that it has   *)
(* to check since one was broken, whatever other nodes do.                 *)
(***************************************************************************)
BreaksFound ==
    phase = "committed" =>
        \A n \in Running, b \in broken : \A h \in b[2] .. height : ~(Period[n] # 0 /\ h % Period[n] = 0)

=============================================================================
