------------------------------- MODULE Wiring -------------------------------
(***************************************************************************)
(* tasks/common/wire.ts over layerzero.config.ts: the tasks that bring the *)
(* pathways on chain to what the file says, init, wire and the transfer of *)
(* ownership, all of them one task with another configurator.  It loads    *)
(* the file, compares it with the chains, and signs and sends what differs, *)
(* one transaction after the other.  On Solana a transaction is signed by  *)
(* the wallet of --solana-secret-key, a random one without it, or becomes  *)
(* a proposal that the members of a Squads multisig execute when they      *)
(* like.  The operator may run the task again, and ConfigReport, which     *)
(* shows the result.                                                       *)
(*                                                                         *)
(* The task it overrides is a library's: Configure, Sign, Refused and      *)
(* Finish are modelled from the arguments wire.ts gives to it.             *)
(***************************************************************************)
EXTENDS ConfigReport

CONSTANTS
    Kinds               \* tasks the operator runs: "init", "wire", "own"

ASSUME WiringAssumption == Kinds \subseteq {"init", "wire", "own"} /\ MaxVersion >= 1

VARIABLES
    admin,              \* of the OFT store: "wallet" or "squads"
    initialised,        \* Solana's pathways whose endpoint accounts exist
    wanted,             \* the version of layerzero.config.ts
    task,               \* the task that runs, or None
    proposals           \* Squads proposals that are not executed yet

wiringVars == <<admin, initialised, wanted, task, proposals>>
vars == <<onchain, reportVars, wiringVars>>

SolanaConnections == {c \in Connections : isSolana(c.from)}

\* The three optional arguments.
Args == [programId : BOOLEAN, secretKey : BOOLEAN, multisigKey : BOOLEAN]

Task ==
    [kind : Kinds, args : Args, version : Versions, stage : {"configure", "send"},
     queue : SUBSET Connections]
Proposal == [kind : Kinds, connection : Connections, version : Versions]

Init ==
    /\ ReportInit
    /\ admin \in {"wallet", "squads"}
    /\ initialised = {}
    /\ wanted = 1
    /\ task = None
    /\ proposals = {}
----------------------------------------------------------------------------
\* Without a program id the action returns at once, and without an error.
Start(kind, args) ==
    /\ task = None /\ report = None
    /\ args.programId
    /\ task' = [kind |-> kind, args |-> args, version |-> wanted, stage |-> "configure",
                queue |-> {}]
    /\ UNCHANGED <<onchain, reportVars, admin, initialised, wanted, proposals>>

\* Mutant of Differences: the pathways that start on Solana are left out.
EvmDifferences ==
    {c \in Connections :
        \/ task.kind = "wire" /\ ~isSolana(c.from) /\ onchain[c] # task.version
        \/ task.kind = "init" /\ isSolana(c.from) /\ c \notin initialised}

\* The configurators: what init, wire and configureOwnable have to do.  The
\* contracts of layerzero.config.ts have no owner, so that the last has nothing.
Differences ==
    {c \in Connections :
        \/ task.kind = "wire" /\ onchain[c] # task.version
        \/ task.kind = "init" /\ isSolana(c.from) /\ c \notin initialised}

\* Wiring reads accounts on Solana that init makes, and fails without them.
Configure ==
    /\ task # None /\ task.stage = "configure"
    /\ task' = IF task.kind = "wire" /\ ~(SolanaConnections \subseteq initialised) THEN None
               ELSE [task EXCEPT !.stage = "send", !.queue = Differences]
    /\ UNCHANGED <<onchain, reportVars, admin, initialised, wanted, proposals>>

Effect(kind, c, version) ==
    IF kind = "init" THEN initialised' = initialised \cup {c} /\ UNCHANGED onchain
                     ELSE onchain' = [onchain EXCEPT ![c] = version] /\ UNCHANGED initialised

\* Mutant of Signer: --multisig-key is ignored.
SignerWithoutMultisig(c) ==
    IF ~isSolana(c.from) THEN "deployer"
    ELSE IF task.args.secretKey THEN "wallet" ELSE "random"

\* firstFactory(solanaSignerFactory, createSigner): who signs for a pathway.
Signer(c) ==
    IF ~isSolana(c.from) THEN "deployer"
    ELSE IF task.args.multisigKey THEN "proposer"
    ELSE IF task.args.secretKey THEN "wallet" ELSE "random"

\* A transaction of the queue is executed, or put to the vote: the wallet of the
\* proposer must be a member of the multisig.
Sign(c) ==
    /\ task # None /\ task.stage = "send" /\ c \in task.queue
    /\ \/ /\ Signer(c) \in {"deployer", admin}
          /\ Effect(task.kind, c, task.version)
          /\ UNCHANGED proposals
       \/ /\ Signer(c) = "proposer" /\ task.args.secretKey
          /\ proposals' = proposals \cup
                {[kind |-> task.kind, connection |-> c, version |-> task.version]}
          /\ UNCHANGED <<onchain, initialised>>
    /\ task' = [task EXCEPT !.queue = @ \ {c}]
    /\ UNCHANGED <<reportVars, admin, wanted>>

\* A transaction is refused or lost, or the task is interrupted: it ends.  Before
\* its first transaction that is as if it had not been started.
Refused ==
    /\ task # None /\ task.stage = "send"
    /\ task' = None
    /\ UNCHANGED <<onchain, reportVars, admin, initialised, wanted, proposals>>

Finish ==
    /\ task # None /\ task.stage = "send" /\ task.queue = {}
    /\ task' = None
    /\ UNCHANGED <<onchain, reportVars, admin, initialised, wanted, proposals>>

\* Members approve and execute a proposal, in any order; the vault must be the
\* admin for it to have an effect.
ExecuteProposal(p) ==
    /\ p \in proposals
    /\ proposals' = proposals \ {p}
    /\ IF admin = "squads" THEN Effect(p.kind, p.connection, p.version)
                           ELSE UNCHANGED <<onchain, initialised>>
    /\ UNCHANGED <<reportVars, admin, wanted, task>>

\* layerzero.config.ts is edited.
Edit ==
    /\ wanted < MaxVersion
    /\ wanted' = wanted + 1
    /\ UNCHANGED <<onchain, reportVars, admin, initialised, task, proposals>>

Report ==
    /\ task = None
    /\ ReportStep \/ \E mode \in Modes : StartReport(mode)
    /\ UNCHANGED wiringVars

TaskStep == Configure \/ Finish \/ Refused \/ \E c \in Connections : Sign(c)

Next ==
    \/ \E kind \in Kinds, args \in Args : Start(kind, args)
    \/ TaskStep
    \/ \E p \in proposals : ExecuteProposal(p)
    \/ Edit
    \/ Report

\* The arguments that suit the admin.
Proper(args) ==
    args.programId /\ args.secretKey /\ (args.multisigKey <=> admin = "squads")

\* A task and a report go on; a transaction that is tried again and again with
\* proper arguments passes; the members execute every proposal.
Spec ==
    /\ Init /\ [][Next]_vars
    /\ WF_vars(TaskStep) /\ WF_vars(Report)
    /\ \A c \in Connections : SF_vars(Sign(c) /\ Proper(task.args))
    /\ \A p \in Proposal : WF_vars(ExecuteProposal(p))
----------------------------------------------------------------------------
\* The task that the operator should run next: init once, then wire.
Fitting(kind, args) ==
    /\ kind = IF SolanaConnections \subseteq initialised THEN "wire" ELSE "init"
    /\ Proper(args)

Wired == \A c \in Connections : onchain[c] = wanted

\* A wire task that finishes has wired all pathways, in both directions, if the
\* wallet is the admin: not one of them is left to the next run.  (If the
\* multisig is, proposals of earlier runs may still undo it.)
FinishedIsWired ==
    [][Finish /\ task.kind = "wire" /\ admin = "wallet" /\ ~task.args.multisigKey =>
          \A c \in Connections : onchain[c] = task.version]_vars

\* The pathways end up as the file says if the operator goes on running the task
\* that fits, whatever runs with wrong arguments, failed in the middle or left
\* proposals of older versions behind.
WiredInTheEnd ==
    []<><<\E kind \in Kinds, args \in Args : Fitting(kind, args) /\ Start(kind, args)>>_vars
        => <>[]Wired
=============================================================================
