----------------------------- MODULE MCKeyNodes -----------------------------
(***************************************************************************)
(* Instances of what key nodes decide by voting or sign together: votes    *)
(* and their count, the behaviour window, retries of orders, and key       *)
(* generation.  A behaviour runs one of them, the one named by part; the   *)
(* others stay as they were at the start.  All work on the same epochs.    *)
(***************************************************************************)
EXTENDS Evidence

CONSTANTS Parts,                    \* what is run
          MaxHeight, MaxEpochs,     \* bounds on blocks and epochs
          MaxLog,                   \* bound on the records of a behaviour window
          Batch, Accusation, MaxRound,
          OrderID, NoOrder, NoKey, MaxWaitAssignKeyOrders

VARIABLES part,
          signing, round, boxes, handled, marks, since,
          korder, process, waitAssign, ast, opSymbol, coins, held, feePool, beat

voteVars == <<box, confirmedVote, behaviour, missed, counted>>
roundVars == <<signing, round, boxes, handled, marks, since>>
keyVars == <<korder, process, waitAssign, ast, opSymbol, coins, held, feePool, beat>>
allVars == <<part, height, epochs, voteVars, roundVars, keyVars>>

Retry == INSTANCE OrderRetry

\* Two key nodes, one of which is the user who asks for a key, and one operation CU.
Keys == INSTANCE KeyGen WITH
    KeyNode <- GenesisKeyNodes, MaxKeyNodes <- 2, User <- {"k1"}, OpCU <- {"op1"}, Chain <- "eth", Token <- {"tok"},
    NoCU <- "NoCU", NoSymbol <- "NoSymbol", OpenFee <- 1, SysOpenFee <- 1,
    InitialCoins <- 1, GenesisOpCU <- {}, MaxOpCUNumber <- 1, MaxPreKeyGenOrders <- 1, MaxKeyNodeHeartbeat <- 1

\* The constants are such as the proofs about KeyGen take them to be.
ASSUME KeyConstants == Keys!KeyGenConstants

KeyNodesInit == part \in Parts /\ Init /\ Retry!RetryInit /\ Keys!KeyGenInit

\* HandleBehaviour is called for votes and for evidence of retries, in any order.
RecordBehaviour ==
    /\ \E v \in GenesisKeyNodes, normal \in BOOLEAN : Len(behaviour[v].log) < MaxLog /\ HandleBehaviour(v, normal)
    /\ \A v \in KeyNode : behaviour'[v].slashes <= 2
    /\ UNCHANGED <<height, epochs, box, confirmedVote, missed, counted>>

KeyNodesNext ==
    /\ \/ part = "votes" /\ Next /\ UNCHANGED <<part, roundVars, keyVars>>
       \/ part = "behaviour" /\ RecordBehaviour /\ UNCHANGED <<part, roundVars, keyVars>>
       \/ part = "retries" /\ Retry!RetryNext /\ UNCHANGED <<part, voteVars, keyVars>>
       \/ part = "keys" /\ Keys!KeyGenNext /\ UNCHANGED <<part, voteVars, roundVars>>
    /\ height' =< (IF part = "keys" THEN 2 ELSE MaxHeight) /\ Len(epochs') =< MaxEpochs

KeyNodesSpec == KeyNodesInit /\ [][KeyNodesNext]_allVars

-----------------------------------------------------------------------------
(***************************************************************************)
(* A key node is slashed only when it missed more than                     *)
(* MaxMisbehaviourCount confirmed votes of its epochs, and the ring of     *)
(* HandleBehaviour counts the misses among the last BehaviourWindow        *)
(* records, however records and slashes follow each other.                 *)
(***************************************************************************)
MissesCounted ==
    /\ part = "votes" => SlashedOnlyForMissedVotes
    /\ RingIsSlidingWindow

(***************************************************************************)
(* A retry round is settled once, and at the latest when all key nodes it  *)
(* was begun with have voted, though its evidence is looked at again with  *)
(* every later vote (handleOrderRetryEvidences).                           *)
(***************************************************************************)
RoundsSettledOnce == part = "retries" => Retry!RoundsSettledOnce

(***************************************************************************)
(* The key of an address was made by the key nodes of the epoch of the     *)
(* address, by all of them or all but one, and by some node if there are   *)
(* two; it belongs to one CU and was paid for once, whatever happened to   *)
(* its order meanwhile: a new epoch between WaitSign and Finish, a retry,  *)
(* a key prepared before the key nodes changed.                            *)
(***************************************************************************)
KeysSound ==
    part = "keys" => Keys!KeysSound /\ Keys!OpeningFees

=============================================================================
