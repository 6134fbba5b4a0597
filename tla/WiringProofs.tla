---------------------------- MODULE WiringProofs ----------------------------
(***************************************************************************)
(* Theorems of Wiring and ConfigReport, for any chains and pathways, any   *)
(* number of versions, and every mix of tasks and reports.                 *)
(***************************************************************************)
EXTENDS Wiring, TLAPS

\* The report: what a task that has ended has read is what it has entered, and a
\* phase begins when the groups before it have ended.
Half == Versions \cup {None}

ReportTypes ==
    /\ onchain \in [Connections -> Versions]
    /\ report \in {None} \cup [mode : Modes, phase : {"evm", "solana", "done"}]
    /\ got \in [Connections -> [receive : Half, send : Half]]
    /\ ended \subseteq Connections
    /\ configs \in [Chains -> [Chains -> {None} \cup [receive : Half, send : Half]]]

EntriesKept == \A c \in ended : got[c].send # None /\ configs[c.from][c.to] = got[c]

PhasesInOrder ==
    report # None =>
        /\ report.phase \in {"solana", "done"} => Group("evm") \subseteq ended
        /\ report.phase = "done" => Connections \subseteq ended

ReportInv == ReportTypes /\ EntriesKept /\ PhasesInOrder

\* The tasks: what is no longer in the queue of a wire task is wired.
TaskTypes ==
    /\ admin \in {"wallet", "squads"}
    /\ initialised \subseteq Connections
    /\ wanted \in Versions
    /\ task \in {None} \cup Task
    /\ proposals \subseteq Proposal

QueueInv ==
    task # None /\ task.stage = "send" /\ task.kind = "wire" /\ admin = "wallet"
            /\ ~task.args.multisigKey =>
        \A c \in Connections \ task.queue : onchain[c] = task.version

WiringInv == ReportInv /\ TaskTypes /\ QueueInv
----------------------------------------------------------------------------
\* Nothing runs at the start.
LEMMA WiringStarts == Init => WiringInv
<1> SUFFICES ASSUME Init PROVE WiringInv
    OBVIOUS
<1> USE WiringAssumption, ReportAssumption
<1>1. ReportInv
    BY DEF Init, ReportInit, ReportInv, ReportTypes, EntriesKept, PhasesInOrder, Half,
           Versions, Nothing
<1>2. TaskTypes /\ QueueInv
    BY DEF Init, TaskTypes, QueueInv, Versions
<1>3. QED
    BY <1>1, <1>2 DEF WiringInv

\* Every step of a report keeps ReportInv, and the chains as they are.
LEMMA StartReportKeeps ==
    ASSUME ReportInv, NEW mode \in Modes, StartReport(mode)
    PROVE  ReportInv' /\ UNCHANGED onchain
BY DEF StartReport, ReportInv, ReportTypes, EntriesKept, PhasesInOrder

\* Reading touches only what the task itself has read.
LEMMA ReadKeeps ==
    ASSUME ReportInv, NEW c \in Connections, Read(c)
    PROVE  ReportInv' /\ UNCHANGED onchain
<1> USE DEF ReportInv
<1> DEFINE Entry == [receive : Half, send : Half]
<1>1. onchain[c] \in Half /\ got[c] \in Entry
    BY DEF ReportTypes, Half
<1>2. \A h \in Half : [got[c] EXCEPT !.receive = h] \in Entry
                      /\ [got[c] EXCEPT !.send = h] \in Entry
    BY <1>1
<1>3. got' \in [Connections -> Entry]
    BY <1>1, <1>2 DEF Read, ReportTypes
<1>4. ReportTypes'
    BY <1>3 DEF Read, ReportTypes
<1>5. c \notin ended
    BY DEF Read, EntriesKept, Nothing
<1>6. \A d \in ended : got'[d] = got[d]
    BY <1>5 DEF Read, ReportTypes
<1>7. EntriesKept'
    BY <1>6 DEF Read, EntriesKept
<1>8. PhasesInOrder' /\ UNCHANGED onchain
    BY DEF Read, PhasesInOrder, Group
<1>9. QED
    BY <1>4, <1>7, <1>8

\* A task writes its entry and keeps those of the others.
LEMMA WriteKeeps ==
    ASSUME ReportInv, NEW c \in Connections, Write(c)
    PROVE  ReportInv' /\ UNCHANGED onchain
<1> USE DEF ReportInv
<1>1. Connections \subseteq [from : Chains, to : Chains]
    BY ReportAssumption
<1>2. c.from \in Chains /\ c.to \in Chains
    BY <1>1
<1>3. configs'[c.from][c.to] = got[c]
    BY <1>2 DEF Write, Entered, ReportTypes
<1>4. ASSUME NEW d \in ended PROVE configs'[d.from][d.to] = configs[d.from][d.to]
    <2>1. d \in Connections /\ d # c
        BY DEF Write, ReportTypes
    <2>2. d.from # c.from \/ d.to # c.to
        BY <1>1, <2>1
    <2>3. d.from \in Chains /\ d.to \in Chains
        BY <1>1, <2>1
    <2>4. QED
        BY <1>2, <2>2, <2>3 DEF Write, Entered, ReportTypes
<1>5. ReportTypes'
    BY <1>2 DEF Write, Entered, ReportTypes
<1>6. EntriesKept'
    BY <1>3, <1>4 DEF Write, EntriesKept
<1>7. PhasesInOrder' /\ UNCHANGED onchain
    BY DEF Write, PhasesInOrder, Group
<1>8. QED
    BY <1>5, <1>6, <1>7

\* The next phase begins when all tasks of the last have ended.
LEMMA NextGroupKeeps ==
    ASSUME ReportInv, NextGroup
    PROVE  ReportInv' /\ UNCHANGED onchain
<1> USE DEF ReportInv
<1>1. ReportTypes'
    BY DEF NextGroup, Reporting, ReportTypes
<1>2. EntriesKept' /\ UNCHANGED onchain
    BY DEF NextGroup, EntriesKept
<1>3. Connections \subseteq Group("evm") \cup Group("solana")
    BY DEF Group
<1>4. PhasesInOrder'
    BY <1>3 DEF NextGroup, Reporting, PhasesInOrder, ReportTypes, Group
<1>5. QED
    BY <1>1, <1>2, <1>4

\* A report that ends leaves nothing to keep.
LEMMA EndReportKeeps ==
    ASSUME ReportInv, EndReport
    PROVE  ReportInv' /\ UNCHANGED onchain
BY DEF EndReport, Forget, Nothing, Half, ReportInv, ReportTypes, EntriesKept, PhasesInOrder

\* Whatever leaves the variables of the report alone and writes versions.
LEMMA OthersKeepReport ==
    ASSUME ReportInv, UNCHANGED reportVars, onchain' \in [Connections -> Versions]
    PROVE  ReportInv'
BY DEF ReportInv, ReportTypes, EntriesKept, PhasesInOrder, reportVars, Group, isSolana

\* The report as a whole.
LEMMA ReportKeeps ==
    ASSUME WiringInv, Report
    PROVE  WiringInv' /\ UNCHANGED onchain
<1>1. ReportInv' /\ UNCHANGED onchain
    BY StartReportKeeps, ReadKeeps, WriteKeeps, NextGroupKeeps, EndReportKeeps
    DEF Report, ReportStep, WiringInv
<1>2. TaskTypes' /\ QueueInv'
    BY <1>1 DEF Report, WiringInv, TaskTypes, QueueInv, wiringVars
<1>3. QED
    BY <1>1, <1>2 DEF WiringInv
----------------------------------------------------------------------------
\* What a transaction does keeps the types of the chain.
LEMMA EffectTypes ==
    ASSUME WiringInv, NEW kind \in Kinds, NEW c \in Connections, NEW v \in Versions,
           Effect(kind, c, v)
    PROVE  onchain' \in [Connections -> Versions] /\ initialised' \subseteq Connections
BY DEF WiringInv, ReportInv, ReportTypes, TaskTypes, Effect

\* A task starts with nothing in its queue, before it compares.
LEMMA StartKeeps ==
    ASSUME WiringInv, NEW kind \in Kinds, NEW args \in Args, Start(kind, args)
    PROVE  WiringInv'
<1> USE DEF WiringInv
<1>1. ReportInv'
    BY OthersKeepReport DEF Start, ReportInv, ReportTypes
<1>2. TaskTypes' /\ QueueInv'
    BY DEF Start, TaskTypes, QueueInv, Task
<1>3. QED
    BY <1>1, <1>2

\* The queue of a task has every pathway that differs.
LEMMA ConfigureKeeps ==
    ASSUME WiringInv, Configure
    PROVE  WiringInv'
<1> USE DEF WiringInv
<1>1. ReportInv'
    BY OthersKeepReport DEF Configure, ReportInv, ReportTypes
<1>2. Differences \subseteq Connections
    BY DEF Differences
<1>3. TaskTypes'
    BY <1>2 DEF Configure, TaskTypes, Task
<1>4. QueueInv'
    BY DEF Configure, TaskTypes, QueueInv, Task, Differences
<1>5. QED
    BY <1>1, <1>3, <1>4

\* A transaction leaves the queue when it has had its effect, or is put to the vote.
LEMMA SignKeeps ==
    ASSUME WiringInv, NEW c \in Connections, Sign(c)
    PROVE  WiringInv'
<1> USE DEF WiringInv
<1>1. task \in Task
    BY DEF Sign, TaskTypes
<1>2. task.kind \in Kinds /\ task.version \in Versions /\ task.queue \subseteq Connections
    BY <1>1 DEF Task
<1>3. onchain' \in [Connections -> Versions] /\ initialised' \subseteq Connections
    BY <1>2, EffectTypes DEF Sign, ReportInv, ReportTypes, TaskTypes
<1>4. ReportInv'
    BY <1>3, OthersKeepReport DEF Sign
<1>5. TaskTypes'
    BY <1>1, <1>2, <1>3 DEF Sign, TaskTypes, Task, Proposal
<1>6. QueueInv'
    <2> SUFFICES ASSUME task'.stage = "send", task'.kind = "wire", admin' = "wallet",
                        ~task'.args.multisigKey, NEW d \in Connections \ task'.queue
                 PROVE  onchain'[d] = task'.version
        BY DEF QueueInv
    <2>1. task' = [task EXCEPT !.queue = @ \ {c}] /\ admin' = admin
        BY DEF Sign
    <2>2. /\ task.stage = "send" /\ task.kind = "wire" /\ admin = "wallet"
          /\ ~task.args.multisigKey /\ task'.version = task.version
          /\ task'.queue = task.queue \ {c}
        BY <1>1, <2>1 DEF Task
    <2>3. Signer(c) # "proposer"
        BY <2>2 DEF Signer
    <2>4. onchain' = [onchain EXCEPT ![c] = task.version]
        BY <2>2, <2>3 DEF Sign, Effect
    <2>5. \A e \in Connections \ task.queue : onchain[e] = task.version
        BY <2>2 DEF QueueInv, Sign
    <2>6. QED
        BY <2>2, <2>4, <2>5 DEF ReportInv, ReportTypes
<1>7. QED
    BY <1>4, <1>5, <1>6

\* A task that ends owes nothing.
LEMMA EndKeeps ==
    ASSUME WiringInv, Refused \/ Finish
    PROVE  WiringInv'
<1> USE DEF WiringInv
<1>1. ReportInv'
    BY OthersKeepReport DEF Refused, Finish, ReportInv, ReportTypes
<1>2. TaskTypes' /\ QueueInv'
    BY DEF Refused, Finish, TaskTypes, QueueInv
<1>3. QED
    BY <1>1, <1>2

\* A proposal may be executed at any time later.
LEMMA ExecuteProposalKeeps ==
    ASSUME WiringInv, NEW p \in proposals, ExecuteProposal(p)
    PROVE  WiringInv'
<1> USE DEF WiringInv
<1>1. p.kind \in Kinds /\ p.connection \in Connections /\ p.version \in Versions
    BY DEF TaskTypes, Proposal
<1>2. onchain' \in [Connections -> Versions] /\ initialised' \subseteq Connections
    BY <1>1, EffectTypes DEF ExecuteProposal, ReportInv, ReportTypes, TaskTypes
<1>3. ReportInv'
    BY <1>2, OthersKeepReport DEF ExecuteProposal
<1>4. TaskTypes'
    BY <1>2 DEF ExecuteProposal, TaskTypes
<1>5. QueueInv'
    BY DEF ExecuteProposal, QueueInv
<1>6. QED
    BY <1>3, <1>4, <1>5

\* Editing the file leaves chain, task and report as they are.
LEMMA EditKeeps ==
    ASSUME WiringInv, Edit
    PROVE  WiringInv'
<1> USE DEF WiringInv
<1>1. ReportInv'
    BY OthersKeepReport DEF Edit, ReportInv, ReportTypes
<1>2. TaskTypes' /\ QueueInv'
    BY ReportAssumption DEF Edit, TaskTypes, QueueInv, Versions
<1>3. QED
    BY <1>1, <1>2

\* Every step keeps the invariant.
LEMMA WiringKeeps ==
    ASSUME WiringInv, [Next]_vars
    PROVE  WiringInv'
<1>1. CASE UNCHANGED vars
    <2>1. ReportInv'
        BY <1>1, OthersKeepReport DEF vars, WiringInv, ReportInv, ReportTypes
    <2>2. TaskTypes' /\ QueueInv'
        BY <1>1 DEF vars, wiringVars, WiringInv, TaskTypes, QueueInv
    <2>3. QED
        BY <2>1, <2>2 DEF WiringInv
<1>2. CASE Next
    BY <1>2, StartKeeps, ConfigureKeeps, SignKeeps, EndKeeps, ExecuteProposalKeeps,
       EditKeeps, ReportKeeps
    DEF Next, TaskStep
<1>3. QED
    BY <1>1, <1>2
----------------------------------------------------------------------------
\* So it holds for ever.
LEMMA WiringInvariant == Spec => []WiringInv
<1>1. WiringInv /\ [Next]_vars => WiringInv'
    BY WiringKeeps
<1>2. QED
    BY WiringStarts, <1>1, PTL DEF Spec

\* A finished report of getConfig.ts has the entry of every pathway, as it was read:
\* the tasks that share its object lose nothing to each other.
THEOREM ReportAlwaysComplete == Spec => []ReportComplete
<1>1. WiringInv => ReportComplete
    BY DEF WiringInv, ReportInv, EntriesKept, PhasesInOrder, ReportComplete
<1>2. QED
    BY WiringInvariant, <1>1, PTL

\* A wire task that runs to its end has left none of its pathways as it was.
THEOREM WireFinishesWired == Spec => FinishedIsWired
<1> DEFINE Wires == Finish /\ task.kind = "wire" /\ admin = "wallet" /\ ~task.args.multisigKey
                    => \A c \in Connections : onchain[c] = task.version
<1>1. WiringInv => Wires
    BY DEF WiringInv, QueueInv, Finish
<1>2. WiringInv /\ [Next]_vars => [Wires]_vars
    BY <1>1
<1>3. Spec => [][Wires]_vars
    BY WiringInvariant, <1>2, PTL DEF Spec
<1>4. QED
    BY <1>3 DEF FinishedIsWired
----------------------------------------------------------------------------
\* What WiredInTheEnd rests on besides fairness and the operator.

\* Proposals of an older version of the file.
Leftovers == {p \in proposals : p.version # wanted}

\* The task that runs, if any, has the file as it is.
TaskIsCurrent == task # None => task.version = wanted

\* While the file is not edited a current task is followed by current ones, no
\* leftover comes to those there are, and only they undo what is wired.
Settling ==
    wanted' = wanted /\ TaskIsCurrent =>
        /\ TaskIsCurrent' /\ Leftovers' \subseteq Leftovers
        /\ \A c \in Connections : onchain[c] = wanted =>
              \/ onchain'[c] = wanted
              \/ \E p \in Leftovers : ExecuteProposal(p) /\ p.connection = c

\* A transaction of a task or of a proposal on one pathway.
LEMMA EffectOnPathway ==
    ASSUME WiringInv, NEW kind, NEW d \in Connections, NEW version, Effect(kind, d, version),
           NEW c \in Connections
    PROVE  onchain'[c] = onchain[c] \/ (c = d /\ onchain'[c] = version)
BY DEF Effect, WiringInv, ReportInv, ReportTypes

\* Every step settles.
LEMMA SettlingStep ==
    ASSUME WiringInv, [Next]_vars
    PROVE  Settling
<1> SUFFICES ASSUME wanted' = wanted, TaskIsCurrent
             PROVE  /\ TaskIsCurrent' /\ Leftovers' \subseteq Leftovers
                    /\ \A c \in Connections : onchain[c] = wanted =>
                          \/ onchain'[c] = wanted
                          \/ \E p \in Leftovers : ExecuteProposal(p) /\ p.connection = c
    BY DEF Settling
<1> DEFINE Kept == \A c \in Connections : onchain[c] = wanted => onchain'[c] = wanted
<1>1. TaskTypes /\ ReportInv
    BY DEF WiringInv
<1>2. ASSUME UNCHANGED <<onchain, proposals>> PROVE Kept /\ Leftovers' \subseteq Leftovers
    BY <1>2 DEF Leftovers
<1>3. CASE UNCHANGED vars
    BY <1>2, <1>3 DEF vars, wiringVars, TaskIsCurrent
<1>4. ASSUME NEW kind \in Kinds, NEW args \in Args, Start(kind, args)
      PROVE  TaskIsCurrent' /\ UNCHANGED <<onchain, proposals>>
    BY <1>4 DEF Start, TaskIsCurrent
<1>5. CASE Configure \/ Refused \/ Finish
    <2>1. UNCHANGED <<onchain, proposals>>
        BY <1>5 DEF Configure, Refused, Finish
    <2>2. task' = None \/ (task # None /\ task'.version = task.version)
        <3>1. ASSUME task # None,
                     task' = [task EXCEPT !.stage = "send", !.queue = Differences]
              PROVE  task'.version = task.version
            BY <1>1, <3>1 DEF TaskTypes, Task
        <3>2. QED
            BY <1>5, <3>1 DEF Configure, Refused, Finish
    <2>3. QED
        BY <1>2, <2>1, <2>2 DEF TaskIsCurrent
<1>6. ASSUME NEW d \in Connections, Sign(d)
      PROVE  TaskIsCurrent' /\ Leftovers' \subseteq Leftovers /\ Kept
    <2>1. /\ task # None /\ task.version = wanted
          /\ task' = [task EXCEPT !.queue = @ \ {d}]
        BY <1>6 DEF Sign, TaskIsCurrent
    <2>2. task'.version = task.version
        BY <1>1, <2>1 DEF TaskTypes, Task
    <2>3. CASE Effect(task.kind, d, task.version) /\ UNCHANGED proposals
        <3>1. Kept
            BY <2>1, <2>3, EffectOnPathway
        <3>2. QED
            BY <2>1, <2>2, <2>3, <3>1 DEF Leftovers, TaskIsCurrent
    <2>4. CASE /\ proposals' = proposals \cup
                    {[kind |-> task.kind, connection |-> d, version |-> task.version]}
               /\ UNCHANGED onchain
        <3>1. PICK new : new = [kind |-> task.kind, connection |-> d, version |-> task.version]
            OBVIOUS
        <3>2. proposals' = proposals \cup {new} /\ new.version = wanted
            BY <2>1, <2>4, <3>1
        <3>3. Leftovers' \subseteq Leftovers
            BY <3>2 DEF Leftovers
        <3>4. QED
            BY <2>1, <2>2, <2>4, <3>3 DEF TaskIsCurrent
    <2>5. QED
        BY <1>6, <2>3, <2>4 DEF Sign
<1>7. ASSUME NEW p \in proposals, ExecuteProposal(p)
      PROVE  /\ TaskIsCurrent' /\ Leftovers' \subseteq Leftovers
             /\ \A c \in Connections : onchain[c] = wanted =>
                   \/ onchain'[c] = wanted
                   \/ p \in Leftovers /\ p.connection = c
    <2>1. task' = task /\ proposals' = proposals \ {p}
        BY <1>7 DEF ExecuteProposal
    <2>2. p.connection \in Connections
        BY <1>1 DEF TaskTypes, Proposal
    <2>3. \A c \in Connections : onchain[c] = wanted =>
              onchain'[c] = wanted \/ (p.connection = c /\ p.version # wanted)
        BY <1>7, <2>2, EffectOnPathway DEF ExecuteProposal
    <2>4. QED
        BY <2>1, <2>3 DEF Leftovers, TaskIsCurrent
<1>8. CASE Report
    <2>1. UNCHANGED <<onchain, proposals, task>>
        BY <1>8, ReportKeeps DEF Report, wiringVars
    <2>2. QED
        BY <1>2, <2>1 DEF TaskIsCurrent
<1>9. ~Edit
    BY <1>1, ReportAssumption, SMT DEF Edit, TaskTypes, Versions
<1>10. QED
    BY <1>2, <1>3, <1>4, <1>5, <1>6, <1>7, <1>8, <1>9 DEF Next, TaskStep

\* What is wired stays wired: until the file is edited again, only proposals that
\* were made for an older file and not yet executed can undo it, and nobody makes
\* more of them once no task of the older file runs.  They are all that can come
\* between the operator and WiredInTheEnd.
THEOREM OnlyLeftoversUnwire == Spec => [][Settling]_vars
<1>1. WiringInv /\ [Next]_vars => [Settling]_vars
    BY SettlingStep
<1>2. QED
    BY WiringInvariant, <1>1, PTL DEF Spec
=============================================================================
