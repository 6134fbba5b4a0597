---------------------------- MODULE Provisioning ----------------------------
(***************************************************************************)
(* The deployment on Solana, utils/solana/oft/createOFT.ts with            *)
(* multisig.ts and helpers.ts: up to four transactions in a row            *)
(*     CreateMultisig  CreateToken  InitOft  SetAuthority                  *)
(* and a file.  A run of the script can break off anywhere, with its last  *)
(* transaction lost, refused or still on its way, and be started again.    *)
(*                                                                         *)
(* Every run makes new keys for its multisig, its mint and its escrow, from *)
(* which the address of the OFT store is derived: accounts are named by    *)
(* the run that makes them.  Mint 0 existed before; with --mint            *)
(* (Mint-And-Burn-Adapter) a run takes that one or one of an earlier run.  *)
(*                                                                         *)
(* The file has a second writer, utils/solana/squads/createSquadsMultisig.ts. *)
(***************************************************************************)
EXTENDS Integers, FiniteSets

CONSTANTS
    None,
    MaxRuns,            \* bound on the runs of the script
    AdditionalMinters,  \* values of --additional-minters, None for no such list
    NumOfAttempts       \* of assertAccountInitialized, 10 in the code

Runs == 1..MaxRuns
MintIds == 0..MaxRuns

\* Holders of an authority.  Deployer is the wallet that runs the script,
\* Someone another wallet or vault.
Deployer == [kind |-> "deployer", run |-> 0]
Someone == [kind |-> "other", run |-> 0]
Store(r) == [kind |-> "store", run |-> r]
Multisig(r) == [kind |-> "multisig", run |-> r]
Authority ==
    {Deployer, Someone} \cup {Store(r) : r \in Runs} \cup {Multisig(r) : r \in Runs}

VARIABLES
    \* the script
    run,            \* number of the last run, 0 before the first
    args,           \* its arguments
    step,           \* the transaction it is at, or Output
    phase,          \* what it does about it
    outcome,        \* what became of the transaction it waits for
    attempts,       \* failed attempts of the poll it is in
    \* Solana
    inflight,       \* transactions submitted and neither executed nor expired
    refused,        \* history: those executed with an error, which changed nothing
    multisig,       \* run -> signers and quorum, or None
    mint,           \* id -> authorities, or None
    store,          \* run -> the mint of its OFT store, or None
    \* the file system
    file,           \* OFT.json, None before the first run that got there
    saved_by,       \* history: the arguments of the run that wrote it
    overwritten     \* history: whether its mintAuthority is from create-squads

scriptVars == <<run, args, step, phase, outcome, attempts>>
accountVars == <<multisig, mint, store>>
fileVars == <<file, saved_by, overwritten>>
chainVars == <<inflight, refused>>
vars == <<scriptVars, chainVars, accountVars, fileVars>>
----------------------------------------------------------------------------
Transactions == {"CreateMultisig", "CreateToken", "InitOft", "SetAuthority"}
Phases == {"submit", "await", "poll", "check", "ended"}

Args == [mint : MintIds \cup {None}, minters : AdditionalMinters, onlyOftStore : BOOLEAN]
Transaction == [step : Transactions, run : Runs, args : Args]

\* isMABA: the mint is given.
IsMABA(a) == a.mint # None

MintId(r, a) == IF IsMABA(a) THEN a.mint ELSE r
MintAuthority(r, a) == IF a.minters = None THEN Store(r) ELSE Multisig(r)

Signers(r, a) == {Store(r)} \cup a.minters

MultisigAccount == [signers : SUBSET Authority, quorum : {1}]
MintAccount == [mint_authority : Authority, freeze_authority : Authority \cup {None}]
OFTJson == [mint : MintIds, mintAuthority : Authority, oftStore : {Store(r) : r \in Runs}]

ASSUME ProvisioningAssumption ==
    /\ MaxRuns \in Nat /\ NumOfAttempts \in Nat \ {0}
    /\ \A minters \in AdditionalMinters : minters # None => minters \subseteq {Someone}
    /\ None \notin MintIds \cup Args
    /\ None \notin {"ok", "error", "expired"}
    /\ None \notin MultisigAccount \cup MintAccount \cup OFTJson

Init ==
    /\ run = 0 /\ args = None /\ step = "Output" /\ phase = "ended"
    /\ outcome = None /\ attempts = 0
    /\ inflight = {} /\ refused = {}
    /\ multisig = [r \in Runs |-> None]
    /\ mint = [m \in MintIds |-> IF m = 0 THEN [mint_authority |-> Someone,
                                             freeze_authority |-> Someone] ELSE None]
    /\ store = [r \in Runs |-> None]
    /\ file = None /\ saved_by = None /\ overwritten = FALSE
----------------------------------------------------------------------------
\* The script.

FirstStep(a) ==
    IF a.minters # None THEN "CreateMultisig"
    ELSE IF IsMABA(a) THEN "InitOft" ELSE "CreateToken"

\* Mutant of NextStep: the mint is handed over before its OFT store exists.
HandOverFirst(s) ==
    CASE s = "CreateMultisig" -> IF IsMABA(args) THEN "InitOft" ELSE "CreateToken"
      [] s = "CreateToken" -> "SetAuthority"
      [] s = "SetAuthority" -> "InitOft"
      [] OTHER -> "Output"

\* Mutant of NextStep: the file is written without the hand-over.
SaveEarly(s) ==
    CASE s = "CreateMultisig" -> IF IsMABA(args) THEN "InitOft" ELSE "CreateToken"
      [] s = "CreateToken" -> "InitOft"
      [] OTHER -> "Output"

NextStep(s) ==
    CASE s = "CreateMultisig" -> IF IsMABA(args) THEN "InitOft" ELSE "CreateToken"
      [] s = "CreateToken" -> "InitOft"
      [] s = "InitOft" -> IF IsMABA(args) THEN "Output" ELSE "SetAuthority"
      [] OTHER -> "Output"

Running == phase # "ended"
CurrentTx == [step |-> step, run |-> run, args |-> args]

\* createOFT is called.  Arguments that it refuses, and a declined prompt, leave
\* nothing behind; so does a violation of its checks of decimals, amount and
\* token program, which are not modelled.
Start(a) ==
    /\ ~Running
    /\ run < MaxRuns
    /\ a.minters = None => a.onlyOftStore
    /\ IsMABA(a) => a.mint <= run
    /\ run' = run + 1
    /\ args' = a
    /\ step' = FirstStep(a)
    /\ phase' = "submit"
    /\ UNCHANGED <<outcome, attempts, chainVars, accountVars, fileVars>>

Submit ==
    /\ phase = "submit" /\ step \in Transactions
    /\ inflight' = inflight \cup {CurrentTx}
    /\ phase' = "await"
    /\ outcome' = None
    /\ UNCHANGED <<run, args, step, attempts, refused, accountVars, fileVars>>

\* The next step, once the account of this one is known to exist.
Advance ==
    /\ step' = NextStep(step)
    /\ phase' = "submit"
    /\ attempts' = 0

\* sendAndConfirm returns, from a transaction that was executed with an error too:
\* it reports the error in a result that the script never looks at.  New multisigs
\* and mints are looked up before the script goes on, the other accounts are not.
Confirm ==
    /\ phase = "await" /\ outcome \in {"ok", "error"}
    /\ IF step \in {"CreateMultisig", "CreateToken"}
       THEN phase' = "poll" /\ attempts' = 0 /\ UNCHANGED step
       ELSE Advance
    /\ UNCHANGED <<run, args, outcome, chainVars, accountVars, fileVars>>

End ==
    /\ phase' = "ended"
    /\ UNCHANGED <<run, args, step, outcome, attempts, chainVars, accountVars, fileVars>>

\* sendAndConfirm throws: the blockhash has expired.
Reject ==
    /\ phase = "await" /\ outcome = "expired"
    /\ End

Exists == IF step = "CreateMultisig" THEN multisig[run] # None ELSE mint[run] # None

\* The quorum is 1 and the expected signers are among the signers.
SignersFit ==
    /\ multisig[run].quorum = 1
    /\ Signers(run, args) \subseteq multisig[run].signers

\* assertAccountInitialized finds the account, in createMultisig and once more
\* in checkMultisigSigners, which throws if quorum or signers are wrong; or it
\* finds the mint.
Found ==
    /\ phase \in {"poll", "check"} /\ Exists
    /\ IF step = "CreateMultisig" /\ phase = "poll"
       THEN phase' = "check" /\ attempts' = 0 /\ UNCHANGED step
       ELSE IF phase = "check" => SignersFit THEN Advance
       ELSE phase' = "ended" /\ UNCHANGED <<step, attempts>>
    /\ UNCHANGED <<run, args, outcome, chainVars, accountVars, fileVars>>

\* Mutants of Missed: attempts are not counted, or one too many is made.
MissedForever ==
    /\ phase \in {"poll", "check"}
    /\ UNCHANGED vars

MissedOnceMore ==
    /\ phase \in {"poll", "check"}
    /\ IF attempts = NumOfAttempts THEN phase' = "ended" /\ UNCHANGED attempts
                                   ELSE attempts' = attempts + 1 /\ UNCHANGED phase
    /\ UNCHANGED <<run, args, step, outcome, chainVars, accountVars, fileVars>>

\* It does not: the account does not exist, or the node asked is behind.
Missed ==
    /\ phase \in {"poll", "check"}
    /\ IF attempts + 1 = NumOfAttempts THEN phase' = "ended" /\ UNCHANGED attempts
                                       ELSE attempts' = attempts + 1 /\ UNCHANGED phase
    /\ UNCHANGED <<run, args, step, outcome, chainVars, accountVars, fileVars>>

Output ==
    /\ phase = "submit" /\ step = "Output"
    /\ file' = [mint |-> MintId(run, args), mintAuthority |-> MintAuthority(run, args),
                oftStore |-> Store(run)]
    /\ saved_by' = args /\ overwritten' = FALSE
    /\ phase' = "ended"
    /\ UNCHANGED <<run, args, step, outcome, attempts, chainVars, accountVars>>

\* The run breaks off: an interrupt, an RPC that fails, a simulation of the
\* transaction that fails and an operator who declines the estimate.
Break == Running /\ End

\* The create-squads task: it sends its transaction without preflight, and once it
\* is confirmed, with or without an error, it reads the file and enters the wallet
\* that has paid as mintAuthority.  The vault it makes is Someone.
CreateSquads(wallet) ==
    /\ file # None
    /\ file' = [file EXCEPT !.mintAuthority = wallet]
    /\ overwritten' = TRUE
    /\ UNCHANGED <<saved_by, scriptVars, chainVars, accountVars>>

Script == Submit \/ Confirm \/ Reject \/ Found \/ Missed \/ Output
----------------------------------------------------------------------------
\* Solana.

Settle(tx, result) ==
    /\ inflight' = inflight \ {tx}
    /\ outcome' = IF Running /\ tx = CurrentTx THEN result ELSE outcome
    /\ UNCHANGED <<run, args, step, phase, attempts, fileVars>>

CreateMultisig(tx) ==
    /\ tx.step = "CreateMultisig" /\ multisig[tx.run] = None
    /\ multisig' = [multisig EXCEPT ![tx.run] =
                        [signers |-> Signers(tx.run, tx.args), quorum |-> 1]]
    /\ UNCHANGED <<mint, store>>

CreateToken(tx) ==
    /\ tx.step = "CreateToken" /\ mint[tx.run] = None
    /\ mint' = [mint EXCEPT ![tx.run] =
                    [mint_authority |-> Deployer, freeze_authority |-> Deployer]]
    /\ UNCHANGED <<multisig, store>>

InitOft(tx) ==
    /\ tx.step = "InitOft" /\ store[tx.run] = None
    /\ mint[MintId(tx.run, tx.args)] # None
    /\ store' = [store EXCEPT ![tx.run] = MintId(tx.run, tx.args)]
    /\ UNCHANGED <<multisig, mint>>

\* Both authorities in one transaction.
SetAuthority(tx) ==
    /\ tx.step = "SetAuthority" /\ mint[tx.run] # None
    /\ mint[tx.run].mint_authority = Deployer /\ mint[tx.run].freeze_authority = Deployer
    /\ mint' = [mint EXCEPT ![tx.run] =
                    [mint_authority |-> MintAuthority(tx.run, tx.args),
                     freeze_authority |-> IF tx.args.onlyOftStore THEN None
                                          ELSE MintAuthority(tx.run, tx.args)]]
    /\ UNCHANGED <<multisig, store>>

Execute(tx) ==
    /\ CreateMultisig(tx) \/ CreateToken(tx) \/ InitOft(tx) \/ SetAuthority(tx)
    /\ Settle(tx, "ok")
    /\ UNCHANGED refused

\* It is executed with an error, for what it finds or for lack of compute units, or
\* not before its blockhash expires.
Fail(tx) ==
    /\ \/ Settle(tx, "error") /\ refused' = refused \cup {tx}
       \/ Settle(tx, "expired") /\ UNCHANGED refused
    /\ UNCHANGED accountVars
----------------------------------------------------------------------------
Next ==
    \/ \E a \in Args : Start(a)
    \/ Script
    \/ Break
    \/ \E wallet \in {Deployer, Someone} : CreateSquads(wallet)
    \/ \E tx \in inflight : Execute(tx) \/ Fail(tx)

\* The script goes on unless it breaks off, and every transaction is executed or
\* expires.  Nobody has to start a run.
Spec ==
    /\ Init /\ [][Next]_vars
    /\ WF_vars(Script)
    /\ WF_vars(\E tx \in inflight : Execute(tx) \/ Fail(tx))
----------------------------------------------------------------------------
TypeOK ==
    /\ run \in 0..MaxRuns /\ args \in Args \cup {None}
    /\ step \in Transactions \cup {"Output"} /\ phase \in Phases
    /\ outcome \in {None, "ok", "error", "expired"}
    /\ attempts \in 0..(NumOfAttempts - 1)
    /\ inflight \subseteq Transaction /\ refused \subseteq Transaction
    /\ multisig \in [Runs -> MultisigAccount \cup {None}]
    /\ mint \in [MintIds -> MintAccount \cup {None}]
    /\ store \in [Runs -> MintIds \cup {None}]
    /\ file \in OFTJson \cup {None}
    /\ saved_by \in Args \cup {None} /\ overwritten \in BOOLEAN

\* Who can mint with this authority, one signature being enough.
Minters(authority) ==
    IF authority.kind # "multisig" THEN {authority}
    ELSE IF multisig[authority.run] = None THEN {} ELSE multisig[authority.run].signers

\* The transaction of this kind of this run was executed with an error.
Refused(s, r) == \E tx \in refused : tx.step = s /\ tx.run = r

\* A mint that has left the deployer's hands has an OFT store of its own that can
\* mint it, whatever breaks off, expires or arrives late, with one exception, the
\* error nobody looks at: it is a token that nobody can mint, or that no message
\* can be paid in, exactly if initOft was executed with an error in the run that
\* made it.
MintableUnlessRefused ==
    \A m \in MintIds :
        mint[m] # None /\ mint[m].mint_authority \notin {Deployer, Someone} =>
            (~Refused("InitOft", m) <=>
                \E r \in Runs : store[r] = m /\ Store(r) \in Minters(mint[m].mint_authority))

\* Only ignored errors make OFT.json differ from the accounts, whatever earlier and
\* later runs did.  Its OFT store is a store of its mint, or does not exist if
\* that initOft failed.  A mint that the run has made has the freeze authority the
\* arguments ask for and the mint authority the file names, until the create-squads
\* task enters its own wallet there; if setAuthority failed it is all the deployer's,
\* for ever.
FileAccounted ==
    file # None =>
        LET r == file.oftStore.run
            account == mint[file.mint]
        IN /\ store[r] = IF Refused("InitOft", r) THEN None ELSE file.mint
           /\ ~IsMABA(saved_by) =>
                  IF Refused("SetAuthority", r)
                  THEN account = [mint_authority |-> Deployer, freeze_authority |-> Deployer]
                  ELSE /\ account # None
                       /\ ~overwritten => account.mint_authority = file.mintAuthority
                       /\ account.freeze_authority =
                              IF saved_by.onlyOftStore THEN None ELSE account.mint_authority

\* What the prompt of --only-oft-store says: after such a run, with no transaction
\* refused, only the OFT store can mint.
OnlyStoreMints ==
    file # None /\ saved_by.onlyOftStore /\ ~IsMABA(saved_by) /\ refused = {} =>
        Minters(mint[file.mint].mint_authority) = {file.oftStore}

\* A run comes to an end, with or without success: none of its polls and
\* confirmations lasts for ever.
RunsEnd == Running ~> ~Running
=============================================================================
