------------------------------ MODULE Slashing ------------------------------
(***************************************************************************)
(* Signing windows, downtime, double signs and jails (x/slashing).  All of *)
(* the state of a validator is one record; the validator set comes from    *)
(* x/staking, of which only status, jail and removal are kept.  One        *)
(* counter is block height and block time.                                 *)
(***************************************************************************)
EXTENDS Integers, Sequences, FiniteSets

CONSTANTS Validators,
          SignedBlocksWindow,
          MinSignedPerWindow,                  \* votes of a window, rounded from its decimal fraction
          DowntimeJailDuration, MaxEvidenceAge,
          UnbondingTime,
          Forever                              \* later than every block

\* What genesis validation asks of the parameters; and an unbonding time that
\* outlasts the blocks a set of validators still votes after it is replaced.
SlashingConstants ==
    /\ SignedBlocksWindow \in Nat \ {0} /\ MinSignedPerWindow \in 0..SignedBlocksWindow
    /\ {DowntimeJailDuration, MaxEvidenceAge, UnbondingTime, Forever} \subseteq Nat
    /\ UnbondingTime >= 2

VARIABLES height,
          phase,       \* "begin" or "deliver"
          c,           \* records of the validators
          valsets,     \* the sets decided at the ends of the last three blocks, oldest first
          panic

vars == <<height, phase, c, valsets, panic>>

NoInfo == [found |-> FALSE, start |-> 0, offset |-> 0, until |-> 0, tombstoned |-> FALSE, missed |-> 0]
NewValidatorSigningInfo(h) ==
    [found |-> TRUE, start |-> h, offset |-> 0, until |-> 0, tombstoned |-> FALSE, missed |-> 0]

Unknown == [found |-> FALSE, status |-> "Unbonded", jailed |-> FALSE, time |-> 0, empty |-> FALSE,
            pubkey |-> FALSE, info |-> NoInfo, bits |-> {},
            seen |-> <<>>,      \* whether it missed, for each vote since the last reset
            voted |-> 0,        \* height of the last block it was to sign
            doubles |-> 0]      \* slashes for double signs, also of earlier validators with its key

-----------------------------------------------------------------------------
(***************************************************************************)
(* Hooks that x/staking calls                                              *)
(***************************************************************************)
AfterValidatorCreated(r) == [r EXCEPT !.pubkey = TRUE]
AfterValidatorRemoved(r) == [r EXCEPT !.pubkey = FALSE]
AfterValidatorBonded(r) ==
    IF r.info.found THEN r ELSE [r EXCEPT !.info = NewValidatorSigningInfo(height)]

-----------------------------------------------------------------------------
(***************************************************************************)
(* Votes and evidence of a block, on the record of one validator           *)
(***************************************************************************)
MaxMissed == SignedBlocksWindow - MinSignedPerWindow

\* The switch on the bit before and the bit now.
MissedChange(previous, missed) == IF ~previous /\ missed THEN 1 ELSE IF previous /\ ~missed THEN -1 ELSE 0

Index(r) == r.info.offset % SignedBlocksWindow

\* The bit of this vote, and a counter that follows the bits.
Record(r, signed) ==
    [r EXCEPT !.bits = IF signed THEN @ \ {Index(r)} ELSE @ \cup {Index(r)},
              !.info = [r.info EXCEPT !.offset = @ + 1, !.missed = @ + MissedChange(Index(r) \in r.bits, ~signed)],
              !.seen = Append(@, ~signed),
              !.voted = height]

\* A slip in the downtime branch: the bits survive the reset.
PunishKeepingBits(r, now) ==
    [r EXCEPT !.jailed = TRUE, !.seen = <<>>,
              !.info = [r.info EXCEPT !.until = now + DowntimeJailDuration, !.missed = 0, !.offset = 0]]

\* Slash, Jail, and a reset of the window.
PunishDowntime(r, now) ==
    [r EXCEPT !.jailed = TRUE, !.bits = {}, !.seen = <<>>,
              !.info = [r.info EXCEPT !.until = now + DowntimeJailDuration, !.missed = 0, !.offset = 0]]

Down(r, now) == now > r.info.start + SignedBlocksWindow /\ r.info.missed > MaxMissed

HandleValidatorSignature(r, signed, now) ==
    LET n == Record(r, signed)
    IN  IF Down(n, now) /\ n.found /\ ~n.jailed THEN PunishDowntime(n, now) ELSE n

\* A slip in HandleDoubleSign: the validator is jailed, not tombstoned.
DoubleSignJailed(r, at, now) ==
    IF ~r.pubkey \/ now - at > MaxEvidenceAge \/ ~r.found \/ r.status = "Unbonded" \/ r.info.tombstoned
    THEN r
    ELSE [r EXCEPT !.jailed = TRUE, !.doubles = @ + 1]

\* Evidence on a vote of height at.
HandleDoubleSign(r, at, now) ==
    IF ~r.pubkey \/ now - at > MaxEvidenceAge \/ ~r.found \/ r.status = "Unbonded" \/ r.info.tombstoned
    THEN r
    ELSE [r EXCEPT !.jailed = TRUE, !.info = [r.info EXCEPT !.tombstoned = TRUE, !.until = Forever], !.doubles = @ + 1]

\* BeginBlocker: every vote of the last commit, then the evidence.
BeginBlocker(absent, accused, at) ==
    LET now == height + 1
        Voted(v) == IF v \in valsets[1] THEN HandleValidatorSignature(c[v], v \notin absent, now) ELSE c[v]
    IN  /\ phase = "begin" /\ absent \subseteq valsets[1]
        /\ \A v \in accused : at =< c[v].voted /\ at >= 1
        /\ height' = now /\ phase' = "deliver"
        /\ IF \E v \in valsets[1] : ~c[v].pubkey \/ ~c[v].info.found
           THEN panic' = TRUE /\ UNCHANGED c
           ELSE /\ c' = [v \in Validators |->
                            IF v \in accused THEN HandleDoubleSign(Voted(v), at, now) ELSE Voted(v)]
                /\ UNCHANGED panic
        /\ UNCHANGED valsets

-----------------------------------------------------------------------------
(***************************************************************************)
(* Messages and the end of a block                                         *)
(***************************************************************************)
Deliver(v, r) ==
    /\ phase = "deliver"
    /\ c' = [c EXCEPT ![v] = r]
    /\ UNCHANGED <<height, phase, valsets, panic>>

\* handleMsgUnjail; an empty validator has no self-delegation.
MsgUnjail(v) ==
    /\ c[v].found /\ ~c[v].empty /\ c[v].jailed
    /\ c[v].info.found /\ ~c[v].info.tombstoned /\ height >= c[v].info.until
    /\ Deliver(v, [c[v] EXCEPT !.jailed = FALSE])

\* A validator with the consensus key of v is created.
CreateValidator(v) ==
    /\ ~c[v].found
    /\ Deliver(v, AfterValidatorCreated([c[v] EXCEPT !.found = TRUE, !.status = "Unbonded", !.jailed = FALSE,
                                                     !.empty = FALSE]))

Removed(r) == AfterValidatorRemoved([r EXCEPT !.found = FALSE])

\* The last delegation leaves; without its own stake the validator is jailed.
UndelegateAll(v) ==
    /\ c[v].found /\ ~c[v].empty
    /\ LET r == [c[v] EXCEPT !.empty = TRUE, !.jailed = TRUE]
       IN  Deliver(v, IF r.status = "Unbonded" THEN Removed(r) ELSE r)

\* JailByOperator, for misbehaviour of a key node.
JailByOperator(v) == c[v].found /\ ~c[v].jailed /\ Deliver(v, [c[v] EXCEPT !.jailed = TRUE])

BeginUnbonding(r) == [r EXCEPT !.status = "Unbonding", !.time = height + UnbondingTime]

\* UnbondAllMatureValidatorQueue
Matured(r) ==
    IF r.status # "Unbonding" \/ r.time > height THEN r
    ELSE IF r.empty THEN Removed([r EXCEPT !.status = "Unbonded"]) ELSE [r EXCEPT !.status = "Unbonded"]

\* ApplyAndReturnValidatorSetUpdates bonds the validators B, then the mature ones are unbonded.
AtEnd(r, bonded) ==
    Matured(IF bonded /\ r.status # "Bonded" THEN AfterValidatorBonded([r EXCEPT !.status = "Bonded"])
            ELSE IF ~bonded /\ r.status = "Bonded" THEN BeginUnbonding(r)
            ELSE r)

EndBlock(B) ==
    /\ phase = "deliver" /\ ~panic
    /\ \A v \in B : c[v].found /\ ~c[v].jailed /\ ~c[v].empty
    /\ c' = [v \in Validators |-> AtEnd(c[v], v \in B)]
    /\ valsets' = <<valsets[2], valsets[3], B>>
    /\ phase' = "begin"
    /\ UNCHANGED <<height, panic>>

(***************************************************************************)
(* ExportGenesis of a stopped chain and InitGenesis of the next one: the   *)
(* relations from addresses to keys are built again from the validators,   *)
(* the bits of a window are copied one by one.                             *)
(***************************************************************************)
ExportGenesis(r) == [info |-> r.info, missed |-> [i \in 0..(SignedBlocksWindow - 1) |-> i \in r.bits]]
InitGenesis(r, data) ==
    [r EXCEPT !.pubkey = r.found, !.info = data.info, !.bits = {i \in DOMAIN data.missed : data.missed[i]}]
Restart ==
    /\ phase = "begin" /\ ~panic
    /\ c' = [v \in Validators |-> InitGenesis([c[v] EXCEPT !.pubkey = FALSE, !.info = NoInfo, !.bits = {}],
                                              ExportGenesis(c[v]))]
    /\ UNCHANGED <<height, phase, valsets, panic>>

\* Genesis transactions have created the validators and bonded them.
Init ==
    /\ height = 0 /\ phase = "begin" /\ panic = FALSE
    /\ c = [v \in Validators |-> [Unknown EXCEPT !.found = TRUE, !.status = "Bonded", !.pubkey = TRUE,
                                                 !.info = NewValidatorSigningInfo(0)]]
    /\ valsets = <<Validators, Validators, Validators>>

Next ==
    \/ \E absent, accused \in SUBSET Validators, at \in 0..height : BeginBlocker(absent, accused, at)
    \/ \E v \in Validators :
           MsgUnjail(v) \/ CreateValidator(v) \/ UndelegateAll(v) \/ JailByOperator(v)
    \/ \E B \in SUBSET Validators : EndBlock(B)
    \/ Restart

Spec == Init /\ [][Next]_vars

-----------------------------------------------------------------------------
\* The votes of seen that were missed, among the last SignedBlocksWindow.
InWindow(seen) == {i \in DOMAIN seen : i > Len(seen) - SignedBlocksWindow /\ seen[i]}

\* The counter of missed blocks, kept step by step beside an array that is
\* overwritten in a circle, is the number of misses among the last
\* SignedBlocksWindow votes since the last reset.
MissedIsWindow ==
    \A v \in Validators : c[v].info.missed = Cardinality(InWindow(c[v].seen))

\* A vote of the last commit always finds the key and the signing info of its
\* validator: removals, restarts and new validators never leave BeginBlocker
\* without them.
VotesFound == ~panic

\* A consensus key is slashed for double signing at most once, however much
\* evidence arrives and whatever its validator does in between, though it is
\* removed and created anew.
DoubleSignSlashedOnce == \A v \in Validators : c[v].doubles =< 1

=============================================================================
