---------------------------- MODULE LimitOrders ----------------------------
(***************************************************************************)
(* Limit orders of x/openswap on one trading pair, on several nodes.       *)
(*                                                                         *)
(* Every node executes the same messages and blocks.  Its store has the    *)
(* orders; its order book is only in memory, is changed at the end of a    *)
(* block from two waiting lists, and is rebuilt from the store when the    *)
(* node starts.  An order in the book is an object of its own: a           *)
(* cancellation changes the one in the store, matching and expiry change   *)
(* the one in the book and save it.                                        *)
(***************************************************************************)
EXTENDS Decimal

CONSTANTS
    Nodes, Users,
    OrderIds,           \* numbers, compared as the ids are
    Infos,              \* [side, price, amount, expire] of messages
    Genesis,            \* balance of every user in each token
    InitPair,           \* reserves of the pair
    FeeRate,
    Referer,            \* gets the referer part of a fee: the owner of the exchange that is used
    RepurchaseToken,    \* what the repurchase part of a fee is changed to and burned
    RepurchaseDuration, \* blocks from one repurchase to the next
    PoolSwaps           \* [inIsA, amount] of swaps by others

Tokens == {"a", "b"}    \* the base and the quote token

VARIABLES
    node,               \* state of each node; history: the pair as matching left it (matched), and
                        \* the orders that released their coins again (again)
    now,                \* block time
    open                \* the block has messages that are not committed yet

vars == <<node, now, open>>

With(f, k, v) == [x \in DOMAIN f \cup {k} |-> IF x = k THEN v ELSE f[x]]
Without(f, k) == [x \in DOMAIN f \ {k} |-> f[x]]

Init ==
    /\ node = [n \in Nodes |->
                 [pair |-> InitPair, funds |-> [t \in Tokens |-> 0],
                  bal |-> [u \in Users |-> [t \in Tokens |-> Genesis]],
                  hold |-> [u \in Users |-> [t \in Tokens |-> 0]],
                  orders |-> << >>, unfinished |-> {}, waitIn |-> << >>, waitOut |-> << >>, book |-> << >>,
                  matched |-> InitPair, again |-> {}]]
    /\ now = 1
    /\ open = FALSE

IsFinished(o) == o.status \in {"filled", "canceled", "expired"}
TokenIn(o) == IF o.side = "buy" THEN "b" ELSE "a"
TokenOut(o) == IF o.side = "buy" THEN "a" ELSE "b"

\* Lower price first; of equal prices the older, then the one with the smaller id.
LessThan(o, p) ==
    \/ o.price < p.price
    \/ o.price = p.price /\ o.created < p.created
    \/ o.price = p.price /\ o.created = p.created /\ o.id < p.id
IdsByPrice(book, side) ==
    SetToSortSeq({i \in DOMAIN book : book[i].side = side}, LAMBDA i, j : LessThan(book[i], book[j]))

\* The market of the pair in memory.
AddOrder(s, o) == [s EXCEPT !.book = With(@, o.id, o)]
DelOrder(s, i) == [s EXCEPT !.book = Without(@, i)]

\* The repurchase part of a fee can be used when the pair has the repurchase token.
canRepurchase == RepurchaseToken \in Tokens

-----------------------------------------------------------------------------
(***************************************************************************)
(* The life of an order, in the store s of a node                          *)
(***************************************************************************)
saveOrder(s, o) == [s EXCEPT !.orders = With(@, o.id, o)]

\* The amount before fees that is swapped where `amount` may be swapped after fees.
RealMaxAmountIn(o, amount) == Min({TruncateInt(Quo(ToDec(amount), RealInCoeff(FeeRate))), o.locked})

\* Order o of which `in` coins were swapped with result r, and what that does to the node.
Filled(o, in, r) ==
    [o EXCEPT !.locked = @ - in, !.status = IF o.locked = in THEN "filled" ELSE "partial",
              !.finished = IF o.locked = in THEN now ELSE @,
              !.fills = IF in = 0 THEN @ ELSE Append(@, [real |-> r.real, out |-> r.out])]

\* An error of SubCoinHold is ignored.
Swapped(s, o, in, r) ==
    [s EXCEPT !.pair = r.pair,
              !.hold[o.from][TokenIn(o)] = IF @ >= in THEN @ - in ELSE @,
              !.bal = [@ EXCEPT ![o.from][TokenOut(o)] = @ + r.out, ![Referer][TokenIn(o)] = @ + r.bonus],
              !.funds[TokenIn(o)] = @ + r.fund]

Executed(s, o, in, r) ==
    [s |-> saveOrder(Swapped(s, o, in, r), Filled(o, in, r)), o |-> Filled(o, in, r), in |-> in, suitable |-> TRUE]

SwapWithin(s, o, in) == Executed(s, o, in, swap(FeeRate, s.pair, o.side = "sell", in, canRepurchase, FALSE))

\* Swaps as much of the order as its price allows.
limitSwap(s, o) ==
    LET c == calLimitSwapAmount(o.side, o.price, s.pair)
    IN  IF c.amount = 0 THEN [s |-> s, o |-> o, in |-> 0, suitable |-> c.suitable]
        ELSE SwapWithin(s, o, RealMaxAmountIn(o, c.amount))

\* Gives the locked coins back; an error of UnlockCoin is ignored.
UnlockCoin(s, user, t, n) ==
    IF s.hold[user][t] < n THEN s ELSE [s EXCEPT !.hold[user][t] = @ - n, !.bal[user][t] = @ + n]

finishOrderWithStatus(s, o, status) ==
    LET o2 == [o EXCEPT !.status = status, !.finished = now, !.locked = 0]
        s2 == UnlockCoin(s, o.from, TokenIn(o), o.locked)
    IN  [saveOrder(s2, o2) EXCEPT !.unfinished = @ \ {o.id}]

-----------------------------------------------------------------------------
(***************************************************************************)
(* Messages.  CanX says whether a message succeeds on a node, DoX is what  *)
(* it does there.                                                          *)
(***************************************************************************)
CanLimitSwap(s, user, id, info) ==
    LET real == TruncateDec(Mul(ToDec(info.amount), RealInCoeff(FeeRate)))
        out  == TruncateInt(IF info.side = "buy" THEN Quo(real, info.price) ELSE Mul(real, info.price))
    IN  /\ ~(info.expire > 0 /\ now >= info.expire)
        /\ id \notin DOMAIN s.orders
        /\ out > 0
        /\ s.pair.a > 0 /\ s.pair.b > 0
        /\ s.bal[user][TokenIn(info)] >= info.amount

addUnfinishedOrder(s, id) == [s EXCEPT !.unfinished = @ \cup {id}, !.waitIn = Append(@, id)]

NewOrder(user, id, info) ==
    [id |-> id, from |-> user, side |-> info.side, price |-> info.price, expire |-> info.expire,
     created |-> now, finished |-> 0, status |-> "new", locked |-> info.amount, fills |-> << >>]

Waiting(r, id) == IF r.o.status = "filled" THEN r.s ELSE addUnfinishedOrder(r.s, id)

DoLimitSwap(s, user, id, info) ==
    LET o  == NewOrder(user, id, info)
        s2 == [s EXCEPT !.bal[user][TokenIn(o)] = @ - info.amount, !.hold[user][TokenIn(o)] = @ + info.amount]
    IN  Waiting(limitSwap(saveOrder(s2, o), o), id)

CanCancel(s, user, ids) ==
    /\ \A i \in Range(ids) : i \in DOMAIN s.orders /\ ~IsFinished(s.orders[i]) /\ s.orders[i].from = user
    /\ IsInjective(ids)        \* of an id given twice the second one is finished

FinishCancelled(s, ids) == FoldLeft(LAMBDA x, i : finishOrderWithStatus(x, x.orders[i], "canceled"), s, ids)

CancelOrders(s, ids) == [FinishCancelled(s, ids) EXCEPT !.waitOut = @ \o ids]

DoPoolSwap(s, user, w) ==
    LET in  == IF w.inIsA THEN "a" ELSE "b"
        out == IF w.inIsA THEN "b" ELSE "a"
        r   == swap(FeeRate, s.pair, w.inIsA, w.amount, canRepurchase, FALSE)
    IN  [s EXCEPT !.pair = r.pair, !.funds[in] = @ + r.fund,
                  !.bal[user] = [@ EXCEPT ![in] = @ - w.amount + r.bonus, ![out] = @ + r.out]]

handleMsgLimitSwap(user, id, info) ==
    /\ \E n \in Nodes : CanLimitSwap(node[n], user, id, info)
    /\ node' = [n \in Nodes |-> IF CanLimitSwap(node[n], user, id, info)
                                THEN DoLimitSwap(node[n], user, id, info) ELSE node[n]]
    /\ open' = TRUE
    /\ UNCHANGED now

handleMsgCancelLimitSwap(user, ids) ==
    /\ \E n \in Nodes : CanCancel(node[n], user, ids)
    /\ node' = [n \in Nodes |-> IF CanCancel(node[n], user, ids) THEN CancelOrders(node[n], ids) ELSE node[n]]
    /\ open' = TRUE
    /\ UNCHANGED now

PoolSwap(user, w) ==
    /\ \A n \in Nodes : node[n].bal[user][IF w.inIsA THEN "a" ELSE "b"] >= w.amount
    /\ node' = [n \in Nodes |-> DoPoolSwap(node[n], user, w)]
    /\ open' = TRUE
    /\ UNCHANGED now

-----------------------------------------------------------------------------
(***************************************************************************)
(* The end of a block                                                      *)
(***************************************************************************)
\* Orders with an expiry time, 0 included.  An expired order stays in the book, and expires again at the
\* end of every block until the node is restarted; one that was cancelled in this block is still in the
\* book as it was before, and gives its coins back once more.
GetExpiredOrders(s) == {i \in DOMAIN s.book : s.book[i].expire >= 0 /\ s.book[i].expire <= now}
Again(s) == {i \in GetExpiredOrders(s) : IsFinished(s.orders[i]) /\ s.book[i].locked > 0}
clearExpiredOrders(s) ==
    FoldSet(LAMBDA i, x : LET y == finishOrderWithStatus(x, x.book[i], "expired")
                          IN  [y EXCEPT !.book[i] = y.orders[i]],
            [s EXCEPT !.again = @ \cup Again(s)], GetExpiredOrders(s))

insertOrderToMatching(s) ==
    [FoldLeft(LAMBDA x, i : IF IsFinished(x.orders[i]) THEN x ELSE AddOrder(x, x.orders[i]),
              s, s.waitIn) EXCEPT !.waitIn = << >>]

removeOrderFromMatching(s) ==
    [FoldLeft(DelOrder, s, s.waitOut) EXCEPT !.waitOut = << >>]

UpdateOrdersInMatching(s) == removeOrderFromMatching(insertOrderToMatching(clearExpiredOrders(s)))

\* One order of a pass: w has the node, the orders that swapped, and whether the walk has ended.
Visited(w, i, r) ==
    IF w.stop \/ ~r.suitable THEN [w EXCEPT !.stop = TRUE]
    ELSE [w EXCEPT !.s = [r.s EXCEPT !.book[i] = r.o], !.matched = IF r.in > 0 THEN @ \cup {i} ELSE @]

Visit(w, i) == Visited(w, i, limitSwap(w.s, w.s.book[i]))

\* Orders that are filled leave the book after the pass.
EndPass(w) ==
    LET done == {i \in w.matched : w.s.book[i].status = "filled"}
    IN  [s |-> [w.s EXCEPT !.unfinished = @ \ done, !.book = [i \in DOMAIN @ \ done |-> @[i]]],
         matched |-> w.matched # {}]

\* Sell orders from the lowest price, then buy orders from the highest.
Pass(s) ==
    LET sold == FoldLeft(Visit, [s |-> s, matched |-> {}, stop |-> FALSE], IdsByPrice(s.book, "sell"))
    IN  EndPass(FoldLeft(Visit, [sold EXCEPT !.stop = FALSE], Reverse(IdsByPrice(s.book, "buy"))))

\* A slip in MatchingOrders: one pass over the book.
MatchingOnce(s) == Pass(s).s

RECURSIVE MatchingOrders(_)
MatchingOrders(s) == LET p == Pass(s) IN IF p.matched THEN MatchingOrders(p.s) ELSE p.s

\* The funds in the other token are swapped through the pair, without a fee; all of it is burned.
Repurchased(s) ==
    [s EXCEPT !.funds = [t \in Tokens |-> 0],
              !.pair = IF canRepurchase
                       THEN LET t == IF RepurchaseToken = "a" THEN "b" ELSE "a"
                            IN  IF s.funds[t] = 0 THEN @ ELSE swap(FeeRate, @, t = "a", s.funds[t], FALSE, TRUE).pair
                       ELSE @]
RepurchaseAndBurn(s) == IF now % RepurchaseDuration # 0 THEN s ELSE Repurchased(s)

Matched(s) == [s EXCEPT !.matched = s.pair]

EndBlock ==
    /\ node' = [n \in Nodes |-> RepurchaseAndBurn(Matched(MatchingOrders(UpdateOrdersInMatching(node[n]))))]
    /\ now' = now + 1
    /\ open' = FALSE

\* What the first BeginBlock of a process reads into the empty book.
InitMatchingManager(s) == [i \in s.unfinished |-> s.orders[i]]

Restart(n) ==
    /\ ~open
    /\ node' = [node EXCEPT ![n].book = InitMatchingManager(node[n])]
    /\ UNCHANGED <<now, open>>

IdLists == BoundedSeq(OrderIds, 2) \ {<< >>}

Message ==
    \/ \E u \in Users, id \in OrderIds, info \in Infos : handleMsgLimitSwap(u, id, info)
    \/ \E u \in Users, ids \in IdLists : handleMsgCancelLimitSwap(u, ids)
    \/ \E u \in Users, w \in PoolSwaps : PoolSwap(u, w)

Next == Message \/ EndBlock \/ \E n \in Nodes : Restart(n)

\* Blocks go on: consensus produces them whether or not there are messages.  EndBlock can always be
\* taken and is the only step that moves the time.
BlocksGoOn == WF_now(now' = now + 1)

Spec == Init /\ [][Next]_vars /\ BlocksGoOn

-----------------------------------------------------------------------------
(***************************************************************************)
(* Properties                                                              *)
(***************************************************************************)
\* Nodes that executed the same blocks have the same store, whichever of them was restarted, but for the
\* status and the finish time of orders that expired: a node that was not restarted goes on writing them.
Settled(o) == IF o.expire \in 0 .. now /\ IsFinished(o) THEN [o EXCEPT !.status = "expired", !.finished = 0] ELSE o
Store(n) == [[f \in DOMAIN node[n] \ {"book"} |-> node[n][f]] EXCEPT !.orders = [i \in DOMAIN @ |-> Settled(@[i])]]
ReplicasAgree == \A m, n \in Nodes : Store(m) = Store(n)

\* What is held of a user is exactly what the unfinished orders of the user still lock, as long as no
\* order was cancelled in the block in which it expired: such an order unlocks its coins twice.
HoldCoversOrders ==
    \A n \in Nodes, u \in Users, t \in Tokens :
        LET s == node[n]
        IN  s.again = {} =>
            s.hold[u][t] = MapThenSumSet(LAMBDA i : s.orders[i].locked,
                               {i \in s.unfinished : s.orders[i].from = u /\ TokenIn(s.orders[i]) = t})

\* Between blocks the book has every unfinished order, as the store has it, and no finished order
\* that still has coins to swap.
BookFollowsStore ==
    ~open => \A n \in Nodes :
        LET s == node[n]
        IN  /\ \A i \in s.unfinished : i \in DOMAIN s.book /\ s.book[i] = s.orders[i]
            /\ \A i \in DOMAIN s.book \ s.unfinished : s.book[i].locked = 0

\* Matching leaves nothing behind: after a block no order could swap anything at its price through the
\* pair as matching left it.  The repurchase that follows may move the price; then the pair is not as
\* matching left it, and what it makes match waits for the next block.
NothingLeftToMatch ==
    (~open /\ now > 1) => \A n \in Nodes :
        LET s == node[n]
        IN  /\ \A i \in s.unfinished : calLimitSwapAmount(s.orders[i].side, s.orders[i].price, s.matched).amount = 0
            /\ s.pair # s.matched => (now - 1) % RepurchaseDuration = 0

\* No swap of an order is worse than its limit price, but for the coin that the rounding of the output
\* loses and one more for the roundings of the three fees.
LimitHonoured ==
    \A n \in Nodes : \A i \in DOMAIN node[n].orders :
        LET o == node[n].orders[i]
        IN  \A k \in DOMAIN o.fills :
                IF o.side = "sell" THEN ToDec(o.fills[k].out + 2) > o.fills[k].real * o.price
                ELSE (o.fills[k].out + 2) * o.price > ToDec(o.fills[k].real)

=============================================================================
