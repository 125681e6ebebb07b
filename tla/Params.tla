------------------------------- MODULE Params -------------------------------
(***************************************************************************)
(* Parameters (x/params): subspaces that the keeper hands out, key tables  *)
(* that modules register in them, values with and without subkeys, flags   *)
(* of the changes of a block, and proposals that change several parameters *)
(* at once.  A value is a structure; its text may name some of its fields. *)
(***************************************************************************)
EXTENDS Integers, Sequences, FiniteSets, SequencesExt

CONSTANTS
    Spaces, Keys, Subkeys,
    Fields, Data,       \* fields of a structure, and their values
    Ranged, InRange,    \* parameters for which a range is registered, and the range
    MaxPending          \* bound on the number of proposals

NoSubkey == ""
Values == [Fields -> Data]
\* Fields named by the text of a value; a text that does not decode is Undecodable.
Undecodable == [f \in {"?"} |-> 0]

VARIABLES
    phase,              \* "start" of the program, then "run"
    spaces,             \* subspaces that the keeper knows
    table, kept,        \* keys registered in the subspace of a module, and in the keeper's copy of it
    store, tstore,      \* stored values, and places written in this block
    before,             \* stored values at the begin of the block
    pending             \* proposals that wait for their vote

vars == <<phase, spaces, table, kept, store, tstore, before, pending>>

\* A subspace is made without keys, and a table that modules build has alphanumeric keys, each once.
NewSubspace == {}
KeyTables == (SUBSET Keys) \ {{}}

Init ==
    /\ phase = "start" /\ spaces = {} /\ pending = {} /\ tstore = {}
    /\ table = [s \in Spaces |-> NewSubspace] /\ kept = [s \in Spaces |-> NewSubspace]
    /\ store = << >> /\ before = << >>

-----------------------------------------------------------------------------
(***************************************************************************)
(* Start of the program                                                    *)
(***************************************************************************)
Subspace(s) ==
    /\ phase = "start" /\ s \notin spaces
    /\ spaces' = spaces \cup {s}
    /\ UNCHANGED <<phase, table, kept, store, tstore, before, pending>>

GetSubspace(s) == s \in spaces

\* The subspace is copied, the map in it is not.
ShareTable(s, keys) == kept' = [kept EXCEPT ![s] = keys]

WithKeyTable(s, keys) ==
    /\ phase = "start" /\ s \in spaces /\ table[s] = NewSubspace /\ keys \in KeyTables
    /\ table' = [table EXCEPT ![s] = keys]
    /\ ShareTable(s, keys)
    /\ UNCHANGED <<phase, spaces, store, tstore, before, pending>>

Place(s, k, sub) == <<s, k, sub>>

\* Set and SetWithSubkey: the key has to be registered, with or without a subkey.
CheckType(registered, s, k) == k \in registered[s]

Put(st, p, v) == [q \in DOMAIN st \cup {p} |-> IF q = p THEN v ELSE st[q]]

Mark(ts, p) == ts \cup {p}

\* The whole state in which parameters live.
Here == [store |-> store, tstore |-> tstore]

Set(w, p, v) == [store |-> Put(w.store, p, v), tstore |-> Mark(w.tstore, p)]

SetParamSetWithSubkey(w, s, sub, v) == FoldSet(LAMBDA k, x : Set(x, Place(s, k, sub), v), w, table[s])

SetParamSet(w, s, v) == SetParamSetWithSubkey(w, s, NoSubkey, v)

\* Genesis: modules store their parameters, one of them for several subkeys.
InitGenesis(v, SubkeysOf) ==
    /\ phase = "start" /\ \A s \in Spaces : table[s] # {}
    /\ phase' = "run"
    /\ LET Plain(w) == FoldSet(LAMBDA s, x : SetParamSet(x, s, v), w, {s \in Spaces : SubkeysOf[s] = {}})
           Pairs == {<<s, sub>> \in Spaces \X Subkeys : sub \in SubkeysOf[s]}
           w == FoldSet(LAMBDA q, x : SetParamSetWithSubkey(x, q[1], q[2], v), Plain(Here), Pairs) IN
       store' = w.store /\ tstore' = w.tstore
    /\ UNCHANGED <<spaces, table, kept, before, pending>>

-----------------------------------------------------------------------------
(***************************************************************************)
(* Proposals                                                               *)
(***************************************************************************)
Decodes(c) == c.value # Undecodable

NewParamChange(s, k, sub, text) == [space |-> s, key |-> k, subkey |-> sub, value |-> text]

\* What a text is decoded onto.
Current(w, p) == IF p \in DOMAIN w.store THEN w.store[p] ELSE [f \in Fields |-> 0]

Decode(w, p, text) == [f \in Fields |-> IF f \in DOMAIN text THEN text[f] ELSE Current(w, p)[f]]

Result(code, w) == [code |-> code, store |-> w.store, tstore |-> w.tstore]

Update(w, s, k, text) ==
    IF ~CheckType(kept, s, k) THEN Result("panic", w)
    ELSE IF text = Undecodable THEN Result("error", w)
    ELSE Result("ok", Set(w, Place(s, k, NoSubkey), Decode(w, Place(s, k, NoSubkey), text)))

\* The table is asked for the key and the subkey with a stroke between them, and keys are alphanumeric.
ConcatRegistered(s, k, sub) == <<k, "/", sub>> \in {<<x>> : x \in kept[s]}

UpdateWithSubkey(w, s, k, sub, text) ==
    IF ~ConcatRegistered(s, k, sub) THEN Result("error", w)
    ELSE IF text = Undecodable THEN Result("error", w)
    ELSE IF ~CheckType(kept, s, k) THEN Result("panic", w)
    ELSE Result("ok", Set(w, Place(s, k, sub), Decode(w, Place(s, k, sub), text)))

Change(w, c) ==
    IF ~GetSubspace(c.space) THEN Result("error", w)
    ELSE IF c.subkey = NoSubkey THEN Update(w, c.space, c.key, c.value)
    ELSE UpdateWithSubkey(w, c.space, c.key, c.subkey, c.value)

handleParameterChangeProposal(changes) ==
    FoldLeft(LAMBDA w, c : IF w.code = "ok" THEN Change(w, c) ELSE w, Result("ok", Here), changes)

\* ParameterChangeValidator of x/distribution.
Validate(c) ==
    <<c.space, c.key>> \in Ranged => Decodes(c) /\ \A f \in DOMAIN c.value : c.value[f] \in InRange

ValidateChanges(changes) == changes # << >> /\ \A i \in DOMAIN changes : Validate(changes[i])

\* Of the content of a proposal; its title and description are left out.
ValidateBasic(changes) == ValidateChanges(changes)

\* A slip in DryRun: the handler is not run before the vote.
DryRunNever(changes) == TRUE

\* A panic fails the transaction that submits the proposal.
DryRun(changes) == handleParameterChangeProposal(changes).code = "ok"

SubmitProposal(changes) ==
    /\ phase = "run" /\ Cardinality(pending) < MaxPending
    /\ ValidateBasic(changes) /\ DryRun(changes)
    /\ pending' = pending \cup {changes}
    /\ UNCHANGED <<phase, spaces, table, kept, store, tstore, before>>

\* The proposal passes or is rejected.
ExecuteProposal(changes) ==
    /\ changes \in pending
    /\ pending' = pending \ {changes}
    /\ LET r == handleParameterChangeProposal(changes) IN
       IF r.code = "ok" THEN store' = r.store /\ tstore' = r.tstore ELSE UNCHANGED <<store, tstore>>
    /\ UNCHANGED <<phase, spaces, table, kept, before>>

RejectProposal(changes) ==
    /\ changes \in pending
    /\ pending' = pending \ {changes}
    /\ UNCHANGED <<phase, spaces, table, kept, store, tstore, before>>

Commit ==
    /\ phase = "run" /\ tstore # {}
    /\ tstore' = {} /\ before' = store
    /\ UNCHANGED <<phase, spaces, table, kept, store, pending>>

Has(p) == p \in DOMAIN store
Modified(p) == p \in tstore

-----------------------------------------------------------------------------
(***************************************************************************)
(* Properties                                                              *)
(***************************************************************************)
\* What differs from the begin of the block is flagged as modified.
ChangesMarked ==
    \A p \in DOMAIN store : (p \notin DOMAIN before \/ before[p] # store[p]) => Modified(p)

\* A proposal that was accepted runs without error or panic when its vote ends, whatever other proposals
\* changed meanwhile.
AcceptedExecutes == \A changes \in pending : handleParameterChangeProposal(changes).code = "ok"

\* Parameters with a range stay in it.
RangesKept ==
    \A p \in DOMAIN store, f \in Fields : <<p[1], p[2]>> \in Ranged => store[p][f] \in InRange

=============================================================================
