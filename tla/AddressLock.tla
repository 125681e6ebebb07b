---------------------------- MODULE AddressLock ----------------------------
(***************************************************************************)
(* What the custody promises about the addresses of a nonce-based chain,   *)
(* without orders, assets and votes: an address issues one transaction at  *)
(* a time, each with the next nonce, and issues the next one when the one  *)
(* before is settled.  A system transfer reserves its address before there *)
(* is a transaction.  A transaction is anything with fields from and       *)
(* nonce.                                                                  *)
(***************************************************************************)
EXTENDS Integers

CONSTANT Address

VARIABLES
    nonce, sendTx,    \* next nonce of each address, and whether it may send
    issued, settled,  \* transactions that were issued, and settled
    reserved          \* addresses reserved for a transaction to come

addressVars == <<nonce, sendTx, issued, settled, reserved>>

Init ==
    /\ nonce = [a \in Address |-> 0]
    /\ sendTx = [a \in Address |-> TRUE]
    /\ issued = {} /\ settled = {} /\ reserved = {}

\* One more transaction, with the next nonce of address a.
Issued(a) ==
    \E t \in issued' : t.from = a /\ t.nonce = nonce[a] /\ issued' = issued \cup {t}

Issue(a) ==
    /\ sendTx[a]
    /\ Issued(a)
    /\ sendTx' = [sendTx EXCEPT ![a] = FALSE]
    /\ UNCHANGED <<nonce, settled, reserved>>

Reserve(a) ==
    /\ sendTx[a]
    /\ reserved' = reserved \cup {a}
    /\ sendTx' = [sendTx EXCEPT ![a] = FALSE]
    /\ UNCHANGED <<nonce, issued, settled>>

IssueReserved(a) ==
    /\ a \in reserved
    /\ Issued(a)
    /\ reserved' = reserved \ {a}
    /\ UNCHANGED <<nonce, sendTx, settled>>

Settle(t) ==
    /\ t \notin settled
    /\ settled' = settled \cup {t}
    /\ nonce' = [nonce EXCEPT ![t.from] = @ + 1]
    /\ sendTx' = [sendTx EXCEPT ![t.from] = TRUE]
    /\ UNCHANGED <<issued, reserved>>

Next ==
    \/ \E a \in Address : Issue(a) \/ Reserve(a) \/ IssueReserved(a)
    \/ \E t \in issued : Settle(t)

Spec == Init /\ [][Next]_addressVars

-----------------------------------------------------------------------------
TypeOK ==
    /\ nonce \in [Address -> Nat]
    /\ sendTx \in [Address -> BOOLEAN]
    /\ \A t \in issued : t.from \in Address /\ t.nonce \in Nat
    /\ reserved \subseteq Address

\* No two transactions of an address have the same nonce.
OnePerNonce ==
    \A t, u \in issued : t.from = u.from /\ t.nonce = u.nonce => t = u

\* A transaction that is not settled has the address's nonce, and while the
\* nonce is in use or reserved the address is locked, for one of the two.
LockedWhileInUse ==
    /\ \A t \in issued :
        /\ t.nonce =< nonce[t.from]
        /\ t \notin settled => t.nonce = nonce[t.from]
        /\ t.nonce = nonce[t.from] => ~sendTx[t.from] /\ t.from \notin reserved
    /\ \A a \in reserved : ~sendTx[a]

AddressInv == TypeOK /\ OnePerNonce /\ LockedWhileInUse

=============================================================================
