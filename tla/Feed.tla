-------------------------------- MODULE Feed --------------------------------
(***************************************************************************)
(* event.Feed of services/p2p: values are sent to every subscribed         *)
(* channel.  Subscribers come and go, and receive slowly, while a Send is  *)
(* under way.  Threads are the callers of Send, one per sender, and the    *)
(* owner of each channel, who subscribes, receives and unsubscribes.       *)
(***************************************************************************)
EXTENDS Integers, Sequences, SequencesExt, FiniteSets, FiniteSetsExt

CONSTANTS
    Senders, Subs,
    Cap,                \* buffer of the channel of each subscriber
    MaxSends,           \* bound on calls of Send
    MaxWrong            \* bound on those with a value of another type

VARIABLES
    lock,               \* the sendLock token is there
    mu,                 \* f.mu is held for ever
    sendCases, inbox,
    active,             \* length of `cases`, the prefix of sendCases still to be served
    pc, pos, val, nsent, \* of each sender
    st,                 \* of each subscription
    chan, waiting,      \* buffered values; whether the owner is blocked in a receive
    sent,               \* values that the feed has put into each channel
    calls, wrong

vars == <<lock, mu, sendCases, inbox, active, pc, pos, val, nsent, st, chan, waiting, sent, calls, wrong>>
sender == <<pc, pos, val, nsent>>

Init ==
    /\ lock = TRUE /\ mu = FALSE
    /\ sendCases = << >> /\ inbox = << >> /\ active = 0
    /\ pc = [p \in Senders |-> "idle"]
    /\ pos = [p \in Senders |-> 1]
    /\ val = [p \in Senders |-> 0]
    /\ nsent = [p \in Senders |-> 0]
    /\ st = [s \in Subs |-> "new"]
    /\ chan = [s \in Subs |-> << >>]
    /\ waiting = [s \in Subs |-> FALSE]
    /\ sent = [s \in Subs |-> << >>]
    /\ calls = 0 /\ wrong = 0

\* find and delete of a caseList; 0 stands for "not found", with which delete would panic.
find(cases, s) == IF s \in Range(cases) THEN CHOOSE i \in DOMAIN cases : cases[i] = s ELSE 0
delete(cases, i) == RemoveAt(cases, i)

\* The served case changes places with the last active one.
deactivate(cases, i, last) == [cases EXCEPT ![i] = cases[last], ![last] = cases[i]]

-----------------------------------------------------------------------------
(***************************************************************************)
(* Owners of channels                                                      *)
(***************************************************************************)
CallSubscribe(s) ==
    /\ st[s] = "new"
    /\ st' = [st EXCEPT ![s] = "calling"]
    /\ UNCHANGED <<lock, mu, sendCases, inbox, active, sender, chan, waiting, sent, calls, wrong>>

Subscribe(s) ==
    /\ st[s] = "calling" /\ ~mu
    /\ inbox' = Append(inbox, s)
    /\ st' = [st EXCEPT ![s] = "on"]
    /\ UNCHANGED <<lock, mu, sendCases, active, sender, chan, waiting, sent, calls, wrong>>

\* The owner of an unbuffered channel blocks until a value is handed over.
Receive(s) ==
    /\ st[s] = "on"
    /\ \/ Cap[s] = 0 /\ ~waiting[s] /\ waiting' = [waiting EXCEPT ![s] = TRUE] /\ UNCHANGED chan
       \/ chan[s] # << >> /\ chan' = [chan EXCEPT ![s] = Tail(@)] /\ UNCHANGED waiting
    /\ UNCHANGED <<lock, mu, sendCases, inbox, active, sender, st, sent, calls, wrong>>

\* Unsubscribe up to the select in remove.  The owner does not receive any more.
Unsubscribe(s) ==
    /\ st[s] = "on" /\ ~mu
    /\ waiting' = [waiting EXCEPT ![s] = FALSE]
    /\ LET i == find(inbox, s)
       IN  IF i # 0 THEN inbox' = delete(inbox, i) /\ st' = [st EXCEPT ![s] = "off"]
                    ELSE st' = [st EXCEPT ![s] = "removing"] /\ UNCHANGED inbox
    /\ UNCHANGED <<lock, mu, sendCases, active, sender, chan, sent, calls, wrong>>

\* The case of that select that takes the send lock.
RemoveLocked(s) ==
    /\ st[s] = "removing" /\ lock
    /\ sendCases' = delete(sendCases, find(sendCases, s))
    /\ st' = [st EXCEPT ![s] = "off"]
    /\ UNCHANGED <<lock, mu, inbox, active, sender, chan, waiting, sent, calls, wrong>>

-----------------------------------------------------------------------------
(***************************************************************************)
(* Send                                                                    *)
(***************************************************************************)
Send(p) ==
    /\ pc[p] = "idle" /\ lock /\ calls < MaxSends
    /\ calls' = calls + 1
    /\ lock' = FALSE
    /\ pc' = [pc EXCEPT ![p] = "merge"]
    /\ val' = [val EXCEPT ![p] = calls + 1]
    /\ nsent' = [nsent EXCEPT ![p] = 0]
    /\ UNCHANGED <<mu, sendCases, inbox, active, pos, st, chan, waiting, sent, wrong>>

Merged(cases, new) == cases \o new

EmptyInbox == inbox' = << >>

MergeInbox(p) ==
    /\ pc[p] = "merge" /\ ~mu
    /\ sendCases' = Merged(sendCases, inbox)
    /\ EmptyInbox
    /\ active' = Len(sendCases')
    /\ pc' = [pc EXCEPT ![p] = "try"]
    /\ pos' = [pos EXCEPT ![p] = 1]
    /\ UNCHANGED <<lock, mu, val, nsent, st, chan, waiting, sent, calls, wrong>>

\* A value of another type: the channels are merged, the lock is given back, and Send panics
\* while it holds mu.
SendWrongType(p) ==
    /\ pc[p] = "idle" /\ lock /\ ~mu /\ wrong < MaxWrong
    /\ calls > 0 \/ \E s \in Subs : st[s] \notin {"new", "calling"}
    /\ wrong' = wrong + 1
    /\ sendCases' = Merged(sendCases, inbox)
    /\ EmptyInbox
    /\ mu' = TRUE
    /\ UNCHANGED <<lock, active, sender, st, chan, waiting, sent, calls>>

CanPut(s) == IF Cap[s] = 0 THEN waiting[s] ELSE Len(chan[s]) < Cap[s]

\* A value goes to the active case i.
Serve(p, i) ==
    LET s == sendCases[i] IN
    /\ CanPut(s)
    /\ IF Cap[s] = 0 THEN waiting' = [waiting EXCEPT ![s] = FALSE] /\ UNCHANGED chan
                     ELSE chan' = [chan EXCEPT ![s] = Append(@, val[p])] /\ UNCHANGED waiting
    /\ sent' = [sent EXCEPT ![s] = Append(@, val[p])]
    /\ nsent' = [nsent EXCEPT ![p] = @ + 1]
    /\ sendCases' = deactivate(sendCases, i, active)
    /\ active' = active - 1

TrySend(p) ==
    /\ pc[p] = "try" /\ pos[p] <= active
    /\ \/ Serve(p, pos[p]) /\ UNCHANGED pos
       \/ /\ ~CanPut(sendCases[pos[p]])
          /\ pos' = [pos EXCEPT ![p] = @ + 1]
          /\ UNCHANGED <<nsent, sendCases, active, chan, waiting, sent>>
    /\ UNCHANGED <<lock, mu, inbox, pc, val, st, calls, wrong>>

\* After the last case: either all are served, and Send returns, or it selects.
EndOfTry(p) ==
    /\ pc[p] = "try" /\ pos[p] > active
    /\ pc' = [pc EXCEPT ![p] = IF active = 0 THEN "idle" ELSE "select"]
    /\ lock' = (active = 0)
    /\ UNCHANGED <<mu, sendCases, inbox, active, pos, val, nsent, st, chan, waiting, sent, calls, wrong>>

SelectSend(p) ==
    /\ pc[p] = "select"
    /\ \E i \in 1..active : Serve(p, i)
    /\ pc' = [pc EXCEPT ![p] = "try"]
    /\ pos' = [pos EXCEPT ![p] = 1]
    /\ UNCHANGED <<lock, mu, inbox, val, st, calls, wrong>>

\* A slip in Shrunk: `cases` shrinks whether or not the removed case was still active.
ShrunkAlways(i) == active - 1

Shrunk(i) == IF i <= active THEN active - 1 ELSE active

\* A slip in Interrupts: a Send that waits for slow channels cannot be interrupted.
NeverInterrupts(p, s) == FALSE

\* The select of Send meets the select of remove.
Interrupts(p, s) == pc[p] = "select" /\ st[s] = "removing"

SelectRemove(p, s) ==
    /\ Interrupts(p, s)
    /\ LET i == find(sendCases, s)
       IN  sendCases' = delete(sendCases, i) /\ active' = Shrunk(i)
    /\ st' = [st EXCEPT ![s] = "off"]
    /\ pc' = [pc EXCEPT ![p] = "try"]
    /\ pos' = [pos EXCEPT ![p] = 1]
    /\ UNCHANGED <<lock, mu, inbox, val, nsent, chan, waiting, sent, calls, wrong>>

-----------------------------------------------------------------------------
SendStep(p) == MergeInbox(p) \/ TrySend(p) \/ EndOfTry(p) \/ SelectSend(p) \/ \E s \in Subs : SelectRemove(p, s)
OwnerStep(s) == Subscribe(s) \/ Receive(s) \/ RemoveLocked(s)

Next ==
    \/ \E p \in Senders : Send(p) \/ SendWrongType(p) \/ SendStep(p)
    \/ \E s \in Subs : CallSubscribe(s) \/ Unsubscribe(s) \/ OwnerStep(s)

\* Go schedules every thread that can run.  An owner receives until it unsubscribes.
Spec ==
    /\ Init /\ [][Next]_vars
    /\ \A p \in Senders : WF_vars(SendStep(p))
    /\ \A s \in Subs : WF_vars(OwnerStep(s))

-----------------------------------------------------------------------------
(***************************************************************************)
(* Properties                                                              *)
(***************************************************************************)
\* A channel whose owner waits in remove is among the cases, so that whichever side removes it finds
\* it: delete with an index of -1 panics.
RemoveFindsCase == \A s \in Subs : st[s] = "removing" => s \in Range(sendCases)

\* A channel gets each value at most once, and all channels get the values in the order of the Sends,
\* though several threads send and channels are served in any order.
SentInOrder == \A s \in Subs : \A i, j \in DOMAIN sent[s] : i < j => sent[s][i] < sent[s][j]

\* When Send returns, every channel that is still subscribed to has the value, and the number returned is
\* that of the channels that got it.
SendServesAll ==
    \A p \in Senders :
       (pc[p] # "idle" /\ pc'[p] = "idle") =>
           /\ \A s \in Range(sendCases) : val[p] \in Range(sent[s])
           /\ nsent[p] = Cardinality({s \in Subs : val[p] \in Range(sent[s])})

\* Send and Unsubscribe return, even when the value is held up by the channel whose owner has stopped to
\* receive and is unsubscribing; as long as nobody sends a value of another type, on which Send panics
\* with the lock held (each feed of the reactor has values of one type).
CallsReturn ==
    /\ \A p \in Senders : pc[p] # "idle" ~> pc[p] = "idle"
    /\ \A s \in Subs : st[s] = "removing" ~> st[s] = "off"

=============================================================================
