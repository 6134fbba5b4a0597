---------------------------- MODULE ConfigReport ----------------------------
(***************************************************************************)
(* tasks/common/getConfig.ts: a report of how the pathways are configured. *)
(* One asynchronous task per pathway asks the chain it starts from, and    *)
(* then enters the answer into an object that all tasks share; tasks that  *)
(* start from an EVM chain come first, those from Solana afterwards, and   *)
(* each group runs in parallel or in series.                               *)
(*                                                                         *)
(* The configuration of a pathway (peer, options, libraries, DVNs) is one  *)
(* number, the version of layerzero.config.ts that it is from; 0 is the    *)
(* endpoint's default.                                                     *)
(***************************************************************************)
EXTENDS Naturals, FiniteSets

CONSTANTS
    None,
    Chains,
    SolanaChains,       \* those among them that are Solana
    Connections,        \* pathways of layerzero.config.ts
    MaxVersion          \* bound on the versions of that file

Versions == 0..MaxVersion
Modes == {"parallel", "series"}

ASSUME ReportAssumption ==
    /\ SolanaChains \subseteq Chains
    /\ Connections \subseteq [from : Chains, to : Chains]
    /\ MaxVersion \in Nat /\ None \notin Versions

VARIABLES
    onchain,            \* pathway -> version it is configured with
    report,             \* the report that runs or has just ended, or None
    got,                \* pathway -> what its task has read so far
    ended,              \* pathways whose tasks have ended
    configs             \* chain -> chain -> entry of the object, or None

reportVars == <<report, got, ended, configs>>
----------------------------------------------------------------------------
isSolana(chain) == chain \in SolanaChains

\* The pathways whose tasks run in a phase.
Group(phase) ==
    IF phase = "evm" THEN {c \in Connections : ~isSolana(c.from)}
    ELSE IF phase = "solana" THEN {c \in Connections : isSolana(c.from)}
    ELSE {}

\* The two halves of an entry: receive library and config, send library and config.
Nothing == [receive |-> None, send |-> None]

Reporting == report # None /\ report.phase \in {"evm", "solana"}

ReportInit ==
    /\ onchain = [c \in Connections |-> 0]
    /\ report = None
    /\ got = [c \in Connections |-> Nothing]
    /\ ended = {}
    /\ configs = [l \in Chains |-> [r \in Chains |-> None]]

\* What the tasks of a report have read and entered is gone with its process.
Forget ==
    /\ got' = [c \in Connections |-> Nothing]
    /\ ended' = {}
    /\ configs' = [l \in Chains |-> [r \in Chains |-> None]]

StartReport(mode) ==
    /\ report = None
    /\ report' = [mode |-> mode, phase |-> "evm"]
    /\ UNCHANGED <<onchain, got, ended, configs>>

\* The awaits of a task: getReceiveConfig, then getSendConfig.  In series, one task
\* is done before the next begins.
Begins(c) ==
    report.mode = "series" => \A d \in Connections : got[d] # Nothing => d \in ended

Read(c) ==
    /\ Reporting /\ c \in Group(report.phase)
    /\ \/ /\ got[c] = Nothing /\ Begins(c)
          /\ got' = [got EXCEPT ![c].receive = onchain[c]]
       \/ /\ got[c].receive # None /\ got[c].send = None
          /\ got' = [got EXCEPT ![c].send = onchain[c]]
    /\ UNCHANGED <<onchain, report, ended, configs>>

\* Mutant of Entered: the other entries of the chain are not kept.
EnteredAlone(c) ==
    [configs EXCEPT ![c.from] = [r \in Chains |-> IF r = c.to THEN got[c] ELSE None]]

\* The object is read and written in one go, after the last await.
Entered(c) == [configs EXCEPT ![c.from] = [@ EXCEPT ![c.to] = got[c]]]

Write(c) ==
    /\ Reporting /\ got[c].send # None /\ c \notin ended
    /\ configs' = Entered(c)
    /\ ended' = ended \cup {c}
    /\ UNCHANGED <<onchain, report, got>>

\* All tasks of the group have ended.
NextGroup ==
    /\ Reporting /\ Group(report.phase) \subseteq ended
    /\ report' = [report EXCEPT !.phase = IF @ = "evm" THEN "solana" ELSE "done"]
    /\ UNCHANGED <<onchain, got, ended, configs>>

\* The action has returned its object, or a task throws and the action with it.
EndReport ==
    /\ report # None
    /\ report' = None
    /\ Forget
    /\ UNCHANGED onchain

ReportStep ==
    NextGroup \/ EndReport \/ \E c \in Connections : Read(c) \/ Write(c)
----------------------------------------------------------------------------
\* A report that ends has an entry for every pathway, each as its task read it:
\* no task's entry is lost to another's, in parallel or in series.
ReportComplete ==
    report # None /\ report.phase = "done" =>
        \A c \in Connections : got[c].send # None /\ configs[c.from][c.to] = got[c]
=============================================================================
