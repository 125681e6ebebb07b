------------------------------ MODULE Upgrade ------------------------------
(***************************************************************************)
(* Software upgrades (x/upgrade): plans that proposals schedule, cancel or *)
(* overwrite, and nodes that execute the same blocks with the binaries     *)
(* their operators have installed.  A binary is the set of names for which *)
(* it has a handler.  A node that panics has not committed the block; its  *)
(* operator starts it again, with another binary or the same.              *)
(***************************************************************************)
EXTENDS Integers, Sequences, FiniteSets

CONSTANTS
    Nodes, Names,
    skipUpgradeHeights, \* given to every node alike
    MaxHeight           \* bound on the length of the chain

NoPlan == [name |-> "", time |-> 0, height |-> 0]

VARIABLES
    chain,              \* blocks: time, and the proposal that passes in it
    height, plan, done, \* committed state of each node: height, plan, and height at which a name was done
    applied,            \* plan with which a name was done
    binary,             \* handlers of the running binary
    status,             \* "up", "needs" an upgrade, "early"
    info                \* upgrade-info.json: name that was needed, or ""

vars == <<chain, height, plan, done, applied, binary, status, info>>

Init ==
    /\ chain = << >>
    /\ height = [n \in Nodes |-> 0]
    /\ plan = [n \in Nodes |-> NoPlan]
    /\ done = [n \in Nodes |-> [m \in Names |-> 0]]
    /\ applied = [n \in Nodes |-> [m \in Names |-> NoPlan]]
    /\ binary = [n \in Nodes |-> {}]
    /\ status = [n \in Nodes |-> "up"]
    /\ info = [n \in Nodes |-> ""]

-----------------------------------------------------------------------------
ValidateBasic(p) ==
    /\ p.name # "" /\ p.height >= 0
    /\ p.time # 0 \/ p.height # 0
    /\ p.time = 0 \/ p.height = 0

ShouldExecute(p, h, t) == IF p.time # 0 THEN t >= p.time ELSE p.height > 0 /\ p.height <= h

\* The proposal passes at the end of a block that may have executed an upgrade.
NotDone(n, name) == done'[n][name] = 0

\* ScheduleUpgrade takes a plan whose time is to come and whose name was not used; a plan that it does
\* not take fails the proposal and changes nothing.
CanSchedule(n, p, h, t) ==
    /\ ValidateBasic(p)
    /\ IF p.time # 0 THEN p.time > t ELSE p.height > h
    /\ NotDone(n, p.name)

\* What the proposal of a block may ask for.
SoftwareUpgradeProposal(t, p) == [time |-> t, op |-> "schedule", plan |-> p]
CancelSoftwareUpgradeProposal(t) == [time |-> t, op |-> "cancel", plan |-> NoPlan]

ClearUpgradePlan == NoPlan

\* The plan after the proposal of a block; pending is the plan after BeginBlock.
AfterProposal(n, pending, b, h) ==
    CASE b.op = "schedule" /\ CanSchedule(n, b.plan, h, b.time) -> b.plan
      [] b.op = "cancel" -> ClearUpgradePlan
      [] OTHER -> pending

-----------------------------------------------------------------------------
NewBlock(b) ==
    /\ Len(chain) < MaxHeight
    /\ \A h \in DOMAIN chain : b.time >= chain[h].time
    /\ chain' = Append(chain, b)
    /\ UNCHANGED <<height, plan, done, applied, binary, status, info>>

\* The next block of node n.
H(n) == height[n] + 1
B(n) == chain[H(n)]
CanRun(n) == status[n] = "up" /\ height[n] < Len(chain)
GetUpgradePlan(n) == plan[n] # NoPlan
Due(n) == GetUpgradePlan(n) /\ ShouldExecute(plan[n], H(n), B(n).time)

IsSkipHeight(n) == H(n) \in skipUpgradeHeights
HasHandler(n) == plan[n].name \in binary[n]

Commit(n, pending) ==
    /\ height' = [height EXCEPT ![n] = H(n)]
    /\ plan' = [plan EXCEPT ![n] = AfterProposal(n, pending, B(n), H(n))]
    /\ UNCHANGED <<chain, binary, status, info>>

TooEarly(n) == GetUpgradePlan(n) /\ ~Due(n) /\ HasHandler(n)

\* BeginBlocker finds nothing to do.
PlainBlock(n) ==
    /\ CanRun(n) /\ ~Due(n) /\ ~TooEarly(n)
    /\ UNCHANGED <<done, applied>>
    /\ Commit(n, plan[n])

\* The plan is cleared at a height to be skipped.
SkipUpgrade(n) ==
    /\ CanRun(n) /\ Due(n) /\ IsSkipHeight(n)
    /\ UNCHANGED <<done, applied>>
    /\ Commit(n, ClearUpgradePlan)

setDone(n) == done' = [done EXCEPT ![n][plan[n].name] = H(n)]

ApplyUpgrade(n) == setDone(n) /\ applied' = [applied EXCEPT ![n][plan[n].name] = plan[n]]

\* The handler runs, and the plan is cleared.
ExecuteUpgrade(n) ==
    /\ CanRun(n) /\ Due(n) /\ ~IsSkipHeight(n) /\ HasHandler(n)
    /\ ApplyUpgrade(n)
    /\ Commit(n, ClearUpgradePlan)

DumpUpgradeInfoToDisk(n) == info' = [info EXCEPT ![n] = plan[n].name]

\* The panics of BeginBlocker.
UpgradeNeeded(n) ==
    /\ CanRun(n) /\ Due(n) /\ ~IsSkipHeight(n) /\ ~HasHandler(n)
    /\ status' = [status EXCEPT ![n] = "needs"]
    /\ DumpUpgradeInfoToDisk(n)
    /\ UNCHANGED <<chain, height, plan, done, applied, binary>>

Downgrade(n) ==
    /\ CanRun(n) /\ TooEarly(n)
    /\ status' = [status EXCEPT ![n] = "early"]
    /\ UNCHANGED <<chain, height, plan, done, applied, binary, info>>

-----------------------------------------------------------------------------
\* An operator follows what the node said when it stopped.
Install(n) ==
    /\ \/ /\ status[n] = "needs" /\ info[n] # ""
          /\ binary' = [binary EXCEPT ![n] = @ \cup {info[n]}]
       \/ /\ status[n] = "early"
          /\ binary' = [binary EXCEPT ![n] = @ \ {plan[n].name}]
    /\ status' = [status EXCEPT ![n] = "up"]
    /\ UNCHANGED <<chain, height, plan, done, applied, info>>

\* An operator installs a binary unasked.
Swap(n, names) ==
    /\ names # binary[n]
    /\ binary' = [binary EXCEPT ![n] = names]
    /\ status' = [status EXCEPT ![n] = "up"]
    /\ UNCHANGED <<chain, height, plan, done, applied, info>>

BeginBlocker(n) == PlainBlock(n) \/ SkipUpgrade(n) \/ ExecuteUpgrade(n) \/ UpgradeNeeded(n) \/ Downgrade(n)

-----------------------------------------------------------------------------
(***************************************************************************)
(* Properties                                                              *)
(***************************************************************************)
\* Nodes that have executed the same blocks have the same state, whatever binaries they ran and whenever
\* they were replaced.
ReplicasAgree ==
    \A n, m \in Nodes : height[n] = height[m] => plan[n] = plan[m] /\ done[n] = done[m] /\ applied[n] = applied[m]

\* An upgrade is executed in the very block that its plan asks for.
UpgradesOnTime ==
    \A n \in Nodes, m \in Names :
        done[n][m] # 0 =>
            LET p == applied[n][m] h == done[n][m] IN
            IF p.time # 0 THEN chain[h].time >= p.time /\ (h > 1 => chain[h - 1].time < p.time) ELSE h = p.height

\* When operators do what their nodes ask for, every node executes every block.
NodesCatchUp == \A n \in Nodes : height[n] < Len(chain) ~> height[n] = Len(chain)
=============================================================================
