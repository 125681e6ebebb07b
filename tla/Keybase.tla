------------------------------ MODULE Keybase -------------------------------
(***************************************************************************)
(* The key store (crypto/keys): information on keys by name, and an index  *)
(* by address.  Every call opens the database, which locks it, writes one  *)
(* record at a time and closes it; the program may die between two writes. *)
(***************************************************************************)
EXTENDS Integers, Sequences, FiniteSets

CONSTANTS
    Procs,              \* running commands
    Names, PrivKeys,    \* a key stands for its public key and its address as well
    Passwords,
    MaxCalls            \* bound on the number of calls

NoPass == ""

VARIABLES
    info, addr,         \* the database: name -> Info, address -> name
    opened,             \* processes that have the database open
    job,                \* of each process: its writes to come
    what,               \* kind of its call, "open" before it decides, or "fails"
    armors,             \* exported texts
    replaced,           \* history: keys whose name was given to another key
    calls

vars == <<info, addr, opened, job, what, armors, replaced, calls>>

Init ==
    /\ info = << >> /\ addr = << >>
    /\ opened = {} /\ job = [p \in Procs |-> << >>] /\ what = [p \in Procs |-> ""]
    /\ armors = {} /\ replaced = {} /\ calls = 0

-----------------------------------------------------------------------------
(***************************************************************************)
(* Info: its type, key, and armour of the private key                      *)
(***************************************************************************)
EncryptArmorPrivKey(k, pass) == [kind |-> "priv", key |-> k, pass |-> pass]
CanUnarmor(armor, pass) == armor.kind = "priv" /\ armor.pass = pass
NoArmor == [kind |-> "none", key |-> "", pass |-> NoPass]

newLocalInfo(k, armor) == [type |-> "local", key |-> k, armor |-> armor]
newLedgerInfo(k) == [type |-> "ledger", key |-> k, armor |-> NoArmor]
newOfflineInfo(k) == [type |-> "offline", key |-> k, armor |-> NoArmor]
NewMultiInfo(k) == [type |-> "multi", key |-> k, armor |-> NoArmor]

\* Records to write: information or index, under a key; nothing to delete it.
SetInfo(n, i) == [to |-> "info", at |-> n, value |-> <<i>>]
SetAddr(k, n) == [to |-> "addr", at |-> k, value |-> <<n>>]
DelInfo(n) == [to |-> "info", at |-> n, value |-> << >>]
DelAddr(k) == [to |-> "addr", at |-> k, value |-> << >>]

writeInfo(n, i) == <<SetInfo(n, i), SetAddr(i.key, n)>>
writeLocalKey(n, k, pass) == writeInfo(n, newLocalInfo(k, EncryptArmorPrivKey(k, pass)))
writeLedgerKey(n, k) == writeInfo(n, newLedgerInfo(k))
writeOfflineKey(n, k) == writeInfo(n, newOfflineInfo(k))
writeMultisigKey(n, k) == writeInfo(n, NewMultiInfo(k))

-----------------------------------------------------------------------------
(***************************************************************************)
(* Opening and closing the database                                        *)
(***************************************************************************)
Locked == opened # {}

\* A call on a locked database returns an error and changes nothing.
Open(p) ==
    /\ ~Locked /\ p \notin opened /\ calls < MaxCalls
    /\ opened' = opened \cup {p} /\ calls' = calls + 1
    /\ what' = [what EXCEPT ![p] = "open"]
    /\ UNCHANGED <<info, addr, job, armors, replaced>>

Decides(p) == p \in opened /\ what[p] = "open"

Do(p, call, writes) ==
    /\ job' = [job EXCEPT ![p] = writes] /\ what' = [what EXCEPT ![p] = call]
    /\ UNCHANGED <<info, addr, opened, armors, replaced, calls>>

Fail(p) == Decides(p) /\ Do(p, "fails", << >>)

Put(db, at, value) ==
    [x \in (DOMAIN db \ {at}) \cup {y \in {at} : value # << >>} |-> IF x = at THEN value[1] ELSE db[x]]

\* One synchronous write.
Write(p) ==
    /\ p \in opened /\ job[p] # << >>
    /\ LET w == Head(job[p]) IN
       /\ IF w.to = "info" THEN info' = Put(info, w.at, w.value) /\ UNCHANGED addr
          ELSE addr' = Put(addr, w.at, w.value) /\ UNCHANGED info
       /\ replaced' = replaced \cup {info[n].key : n \in {x \in DOMAIN info \cap DOMAIN info' : info'[x].key # info[x].key}}
    /\ job' = [job EXCEPT ![p] = Tail(@)]
    /\ UNCHANGED <<opened, what, armors, calls>>

\* Closing is deferred.
MayClose(p) == p \in opened /\ what[p] # "open" /\ job[p] = << >>

Close(p) ==
    /\ MayClose(p)
    /\ opened' = opened \ {p} /\ what' = [what EXCEPT ![p] = ""]
    /\ UNCHANGED <<info, addr, job, armors, replaced, calls>>

\* The process dies.
Crash(p) ==
    /\ p \in opened
    /\ opened' = opened \ {p} /\ job' = [job EXCEPT ![p] = << >>] /\ what' = [what EXCEPT ![p] = ""]
    /\ UNCHANGED <<info, addr, armors, replaced, calls>>

-----------------------------------------------------------------------------
(***************************************************************************)
(* Calls                                                                   *)
(***************************************************************************)
persistDerivedKey(n, k, pass) == IF pass # NoPass THEN writeLocalKey(n, k, pass) ELSE writeOfflineKey(n, k)

\* Of a new mnemonic, or one that the user gives.
CreateMnemonic(p, n, k, pass) == Decides(p) /\ Do(p, "create", persistDerivedKey(n, k, pass))

CreateLedger(p, n, k) == Decides(p) /\ Do(p, "create", writeLedgerKey(n, k))
CreateOffline(p, n, k) == Decides(p) /\ Do(p, "create", writeOfflineKey(n, k))
CreateMulti(p, n, k) == Decides(p) /\ Do(p, "create", writeMultisigKey(n, k))

Has(n) == n \in DOMAIN info

\* Get(n); List returns the information under every name.
Get(n) == info[n]

\* Keys as which a name can sign with a password.
Sign(n, pass) ==
    {i.key : i \in {x \in {Get(m) : m \in {n} \cap DOMAIN info} :
        (x.type = "local" /\ CanUnarmor(x.armor, pass)) \/ x.type = "ledger"}}

ExportPrivateKeyObject(n, pass) == Has(n) /\ Get(n).type = "local" /\ CanUnarmor(Get(n).armor, pass)

ExportText(p, text) ==
    /\ armors' = armors \cup {text}
    /\ job' = [job EXCEPT ![p] = << >>] /\ what' = [what EXCEPT ![p] = "export"]
    /\ UNCHANGED <<info, addr, opened, replaced, calls>>

Export(p, n) == Decides(p) /\ Has(n) /\ ExportText(p, [kind |-> "info", info |-> Get(n)])

ExportPubKey(p, n) == Decides(p) /\ Has(n) /\ ExportText(p, [kind |-> "pub", key |-> Get(n).key])

ExportPrivKey(p, n, pass, newpass) ==
    /\ Decides(p) /\ ExportPrivateKeyObject(n, pass)
    /\ ExportText(p, EncryptArmorPrivKey(Get(n).key, newpass))

Free(n) == ~Has(n)

ImportPrivKey(p, n, text, pass) ==
    /\ Decides(p) /\ Free(n) /\ CanUnarmor(text, pass)
    /\ Do(p, "import", writeLocalKey(n, text.key, pass))

\* The index is not written.
Import(p, n, text) ==
    /\ Decides(p) /\ Free(n) /\ text.kind = "info"
    /\ Do(p, "import", <<SetInfo(n, text.info)>>)

ImportPubKey(p, n, text) ==
    /\ Decides(p) /\ Free(n) /\ text.kind = "pub"
    /\ Do(p, "import", writeOfflineKey(n, text.key))

\* A slip in Deletions: the information goes first.
DeletionsInfoFirst(n) == <<DelInfo(n), DelAddr(info[n].key)>>

Deletions(n) == <<DelAddr(info[n].key), DelInfo(n)>>

Delete(p, n, pass, skipPass) ==
    /\ Decides(p) /\ Has(n)
    /\ (Get(n).type = "local" /\ ~skipPass) => CanUnarmor(Get(n).armor, pass)
    /\ Do(p, "delete", Deletions(n))

Reencrypted(n, newpass) == writeLocalKey(n, info[n].armor.key, newpass)

Update(p, n, oldpass, newpass) ==
    /\ Decides(p) /\ Has(n) /\ Get(n).type = "local" /\ CanUnarmor(Get(n).armor, oldpass)
    /\ Do(p, "update", Reencrypted(n, newpass))

-----------------------------------------------------------------------------
(***************************************************************************)
(* Properties                                                              *)
(***************************************************************************)
\* Whatever the calls, and wherever a process dies, the index leads to the key of the address, unless the
\* name of that key was given to another key.
IndexSound ==
    \A k \in DOMAIN addr : k \notin replaced => Has(addr[k]) /\ info[addr[k]].key = k

\* While a password is changed the name has its key at all times, so that it is there if the process dies.
UpdateKeeps ==
    \A p \in Procs, n \in DOMAIN info :
       what[p] = "update" /\ p \in opened => n \in DOMAIN info' /\ info'[n].key = info[n].key

\* Imports of several processes leave what is stored.
ImportsKeep ==
    \A p \in Procs :
       what[p] = "import" /\ job'[p] # job[p] => \A n \in DOMAIN info : n \in DOMAIN info' /\ info'[n] = info[n]

\* The database does not stay open.
DatabaseFreed == Locked ~> ~Locked

=============================================================================
