------------------------- MODULE ProvisioningProofs -------------------------
(***************************************************************************)
(* Theorems about the deployment, for any number of runs: which accounts   *)
(* and which file a run leaves behind is decided by the errors on chain it *)
(* does not look at, and by nothing else that goes wrong.                  *)
(***************************************************************************)
EXTENDS Provisioning, TLAPS

NewMint == [mint_authority |-> Deployer, freeze_authority |-> Deployer]

MultisigReady(r, a) ==
    a.minters # None => multisig[r] # None /\ Store(r) \in multisig[r].signers

HandedOver(r, a) ==
    /\ mint[r] # None
    /\ mint[r].mint_authority = MintAuthority(r, a)
    /\ mint[r].freeze_authority = IF a.onlyOftStore THEN None ELSE MintAuthority(r, a)

\* What initOft and setAuthority of a run have come to, error or not.
StoreSettled(r, a) == store[r] = IF Refused("InitOft", r) THEN None ELSE MintId(r, a)

HandOverSettled(r, a) ==
    IF Refused("SetAuthority", r) THEN mint[r] = NewMint ELSE HandedOver(r, a)

\* The two transactions whose accounts nobody looks up: each run submits each of them
\* once at most, and until it is executed there is nothing of what it makes.
Blind == {"InitOft", "SetAuthority"}

Pending(s, r) == \E tx \in inflight : tx.step = s /\ tx.run = r

Before(s) ==
    IF s = "InitOft" THEN {"CreateMultisig", "CreateToken"}
    ELSE {"CreateMultisig", "CreateToken", "InitOft"}

Ahead(s, r) ==
    \/ r > run
    \/ r = run /\ Running /\ (step \in Before(s) \/ (step = s /\ phase = "submit"))

Untouched(s, r) == IF s = "InitOft" THEN store[r] = None ELSE mint[r] \in {None, NewMint}

OnceInv ==
    \A s \in Blind, r \in Runs :
        /\ Ahead(s, r) => ~Pending(s, r)
        /\ Ahead(s, r) \/ Pending(s, r) => ~Refused(s, r)
        /\ Ahead(s, r) \/ Pending(s, r) \/ Refused(s, r) => Untouched(s, r)
        /\ \A t, u \in inflight :
               t.step = s /\ u.step = s /\ t.run = r /\ u.run = r => t = u

SignersInv ==
    \A r \in Runs : multisig[r] # None =>
        Store(r) \in multisig[r].signers /\ multisig[r].signers \subseteq {Store(r), Someone}

\* A mint that has left the deployer's hands was handed over by the run that made it.
MintInv ==
    \A m \in MintIds :
        mint[m] # None /\ mint[m].mint_authority \notin {Deployer, Someone} =>
            /\ m \in Runs
            /\ \E a \in Args : /\ ~IsMABA(a) /\ mint[m].mint_authority = MintAuthority(m, a)
                               /\ StoreSettled(m, a) /\ MultisigReady(m, a)

\* What a run has achieved before the step it is at.
ScriptInv ==
    Running =>
        /\ run \in Runs /\ args \in Args
        /\ phase = "await" => step \in Transactions
        /\ phase \in {"poll", "check"} => step \in {"CreateMultisig", "CreateToken"}
        /\ step = "CreateMultisig" => args.minters # None
        /\ step # "CreateMultisig" => MultisigReady(run, args)
        /\ step \in Blind /\ ~IsMABA(args) => mint[run] # None
        /\ step = "SetAuthority" => ~IsMABA(args) /\ StoreSettled(run, args)
        /\ step = "Output" =>
              StoreSettled(run, args) /\ (~IsMABA(args) => HandOverSettled(run, args))

OutcomeInv ==
    phase = "await" /\ outcome \in {"ok", "error"} =>
        /\ step = "InitOft" => StoreSettled(run, args)
        /\ step = "SetAuthority" => HandOverSettled(run, args)

\* A hand-over on its way finds what it needs, however late it arrives.  Only
\* with a list of minters is there a multisig to make.
InflightInv ==
    \A tx \in inflight :
        /\ tx.step = "CreateMultisig" => tx.args.minters # None
        /\ tx.step = "SetAuthority" =>
              /\ ~IsMABA(tx.args)
              /\ mint[tx.run] # None
              /\ StoreSettled(tx.run, tx.args)
              /\ MultisigReady(tx.run, tx.args)

FileInv ==
    file # None =>
        /\ saved_by \in Args
        /\ file.mint = MintId(file.oftStore.run, saved_by)
        /\ ~overwritten => file.mintAuthority = MintAuthority(file.oftStore.run, saved_by)
        /\ StoreSettled(file.oftStore.run, saved_by)
        /\ ~IsMABA(saved_by) => HandOverSettled(file.oftStore.run, saved_by)

IInv ==
    /\ TypeOK /\ OnceInv /\ SignersInv /\ MintInv /\ ScriptInv /\ OutcomeInv
    /\ InflightInv /\ FileInv
----------------------------------------------------------------------------
\* The accounts a run makes and the authorities it hands out are of their types.
LEMMA RunTypes ==
    ASSUME NEW r \in Runs, NEW a \in Args
    PROVE  /\ MintId(r, a) \in MintIds
           /\ MintAuthority(r, a) \in Authority
           /\ MintAuthority(r, a) # Deployer
           /\ a.minters # None => Signers(r, a) \in SUBSET Authority
           /\ a.minters # None => Signers(r, a) \subseteq {Store(r), Someone}
           /\ Store(r) \in Signers(r, a)
  <1>1. r \in 1..MaxRuns /\ r \in MintIds /\ (a.mint # None => a.mint \in MintIds)
    BY ProvisioningAssumption, SMT DEF Runs, MintIds, Args
  <1>2. Store(r) \in Authority /\ Multisig(r) \in Authority /\ Someone \in Authority
    BY DEF Authority
  <1>3. Store(r) # Deployer /\ Multisig(r) # Deployer
    BY SMT DEF Store, Multisig, Deployer
  <1>4. a.minters \in AdditionalMinters
    BY DEF Args
  <1>5. a.minters # None => a.minters \subseteq {Someone}
    BY <1>4, ProvisioningAssumption
  <1> QED
    BY <1>1, <1>2, <1>3, <1>5 DEF MintId, MintAuthority, IsMABA, Signers

\* A new mint is a mint, and None is none.
LEMMA NewMintType ==
    /\ NewMint \in MintAccount /\ NewMint # None /\ NewMint.mint_authority = Deployer
    /\ \A m \in MintIds : m # None
    /\ \A account \in MintAccount : account # None
  <1>1. NewMint \in MintAccount
    BY DEF NewMint, MintAccount, Authority
  <1> QED
    BY <1>1, ProvisioningAssumption DEF NewMint

\* The invariant holds before the first run.
LEMMA InitInvariant == Init => IInv
  <1> SUFFICES ASSUME Init PROVE IInv
    OBVIOUS
  <1>1. Someone \in Authority
    BY DEF Authority
  <1>2. [mint_authority |-> Someone, freeze_authority |-> Someone] \in MintAccount
    BY <1>1 DEF MintAccount
  <1>3. TypeOK
    <2>1. overwritten \in BOOLEAN /\ saved_by \in Args \cup {None}
      BY Zenon DEF Init
    <2>2. run \in 0..MaxRuns /\ attempts \in 0..(NumOfAttempts - 1)
      BY ProvisioningAssumption DEF Init
    <2> QED
      BY <1>2, <2>1, <2>2, Zenon DEF Init, TypeOK, Phases, MintIds
  <1>4. MintInv
    BY <1>2 DEF Init, MintInv, MintAccount
  <1>5. OnceInv
    <2>1. \A r \in Runs : store[r] = None /\ mint[r] = None
      BY ProvisioningAssumption, SMT DEF Init, Runs, MintIds
    <2> QED
      BY <2>1 DEF Init, OnceInv, Pending, Refused, Untouched
  <1> QED
    BY <1>3, <1>4, <1>5 DEF Init, IInv, SignersInv, ScriptInv, Running, OutcomeInv,
                           InflightInv, FileInv

\* While the accounts and the transactions stay as they are, what is said of them
\* does.
LEMMA Quiet ==
    ASSUME IInv, UNCHANGED accountVars, UNCHANGED refused
    PROVE  /\ SignersInv' /\ MintInv'
           /\ UNCHANGED fileVars => FileInv'
           /\ UNCHANGED inflight => InflightInv'
           /\ \A r, a : /\ MultisigReady(r, a)' = MultisigReady(r, a)
                        /\ StoreSettled(r, a)' = StoreSettled(r, a)
                        /\ HandOverSettled(r, a)' = HandOverSettled(r, a)
           /\ \A s, r : Refused(s, r)' = Refused(s, r) /\ Untouched(s, r)' = Untouched(s, r)
  <1>0. UNCHANGED <<multisig, mint, store>>
    BY DEF accountVars
  <1>1. \A s, r : Refused(s, r)' = Refused(s, r) /\ Untouched(s, r)' = Untouched(s, r)
    BY <1>0 DEF Refused, Untouched
  <1>2. \A r, a : /\ MultisigReady(r, a)' = MultisigReady(r, a)
                  /\ StoreSettled(r, a)' = StoreSettled(r, a)
                  /\ HandOverSettled(r, a)' = HandOverSettled(r, a)
    <2>1. TAKE r, a
    <2>2. Refused("InitOft", r)' = Refused("InitOft", r)
          /\ Refused("SetAuthority", r)' = Refused("SetAuthority", r)
      BY <1>1
    <2>3. MultisigReady(r, a)' = MultisigReady(r, a)
      BY <1>0 DEF MultisigReady
    <2>4. StoreSettled(r, a)' = StoreSettled(r, a)
      BY <1>0, <2>2 DEF StoreSettled
    <2>5. HandOverSettled(r, a)' = HandOverSettled(r, a)
      BY <1>0, <2>2 DEF HandOverSettled, HandedOver
    <2> QED
      BY <2>3, <2>4, <2>5
  <1>3. SignersInv'
    BY <1>0 DEF IInv, SignersInv
  <1>4. MintInv'
    BY <1>0, <1>2 DEF IInv, MintInv
  <1>5. UNCHANGED fileVars => FileInv'
    BY <1>2 DEF IInv, FileInv, fileVars
  <1>6. UNCHANGED inflight => InflightInv'
    BY <1>0, <1>2 DEF IInv, InflightInv
  <1> QED
    BY <1>1, <1>2, <1>3, <1>4, <1>5, <1>6

\* And as long as the script only gets on, no transaction is ahead of it again.
LEMMA QuietOnce ==
    ASSUME IInv, UNCHANGED accountVars, UNCHANGED chainVars,
           \A s \in Blind, r \in Runs : Ahead(s, r)' => Ahead(s, r)
    PROVE  OnceInv'
  <1>1. inflight' = inflight /\ refused' = refused
    BY DEF chainVars
  <1>2. \A s, r : /\ Refused(s, r)' = Refused(s, r) /\ Untouched(s, r)' = Untouched(s, r)
                  /\ Pending(s, r)' = Pending(s, r)
    BY <1>1, Quiet DEF Pending
  <1> SUFFICES ASSUME NEW s \in Blind, NEW r \in Runs
               PROVE  (/\ Ahead(s, r) => ~Pending(s, r)
                       /\ Ahead(s, r) \/ Pending(s, r) => ~Refused(s, r)
                       /\ Ahead(s, r) \/ Pending(s, r) \/ Refused(s, r) => Untouched(s, r)
                       /\ \A t, u \in inflight :
                              t.step = s /\ u.step = s /\ t.run = r /\ u.run = r => t = u)'
    BY DEF OnceInv
  <1>3. /\ Ahead(s, r) => ~Pending(s, r)
        /\ Ahead(s, r) \/ Pending(s, r) => ~Refused(s, r)
        /\ Ahead(s, r) \/ Pending(s, r) \/ Refused(s, r) => Untouched(s, r)
        /\ \A t, u \in inflight :
               t.step = s /\ u.step = s /\ t.run = r /\ u.run = r => t = u
    BY DEF IInv, OnceInv
  <1> QED
    BY <1>1, <1>2, <1>3

\* A run that has ended is ahead of nothing.
LEMMA EndedOnce ==
    ASSUME IInv, UNCHANGED <<accountVars, chainVars, run>>, ~Running'
    PROVE  OnceInv'
  <1>1. \A s \in Blind, r \in Runs : Ahead(s, r)' => Ahead(s, r)
    BY DEF Ahead
  <1> QED
    BY <1>1, QuietOnce
----------------------------------------------------------------------------
\* Calling createOFT keeps the invariant,
LEMMA StartStep == ASSUME IInv, NEW a \in Args, Start(a) PROVE IInv'
  <1>1. run' \in Runs /\ run' \in 0..MaxRuns
    BY ProvisioningAssumption, SMT DEF IInv, TypeOK, Start, Runs
  <1>2. UNCHANGED <<accountVars, chainVars, fileVars>> /\ UNCHANGED <<inflight, refused>>
    BY DEF Start, chainVars
  <1>3. TypeOK'
    BY <1>1, <1>2 DEF IInv, TypeOK, Start, FirstStep, Transactions, Phases, accountVars, fileVars
  <1>4. ScriptInv'
    <2>1. args' = a /\ phase' = "submit" /\ step' = FirstStep(a)
      BY DEF Start
    <2>2. step' \in {"CreateMultisig", "InitOft", "CreateToken"}
          /\ (step' = "InitOft" => IsMABA(a))
          /\ (step' # "CreateMultisig" => a.minters = None)
          /\ (step' = "CreateMultisig" => a.minters # None)
      BY <2>1 DEF FirstStep
    <2> QED
      BY <1>1, <2>1, <2>2 DEF ScriptInv, MultisigReady, Blind
  <1>5. OutcomeInv'
    BY DEF Start, OutcomeInv
  <1>6. \A s \in Blind, r \in Runs : Ahead(s, r)' => Ahead(s, r)
    <2>1. run' = run + 1 /\ run \in Int
      BY ProvisioningAssumption, SMT DEF Start, IInv, TypeOK
    <2>2. \A r \in Runs : r \in Int /\ (r >= run' => r > run)
      BY <2>1, ProvisioningAssumption, SMT DEF Runs
    <2>3. \A r \in Runs : r > run' \/ r = run' => r >= run'
      BY <2>1, <2>2, SMT
    <2> QED
      BY <2>2, <2>3 DEF Ahead
  <1> QED
    BY <1>2, <1>3, <1>4, <1>5, <1>6, Quiet, QuietOnce DEF IInv

\* submitting a transaction does,
LEMMA SubmitStep == ASSUME IInv, Submit PROVE IInv'
  <1>1. /\ Running /\ run \in Runs /\ args \in Args /\ step \in Transactions
        /\ phase = "submit" /\ phase' = "await" /\ outcome' = None
        /\ UNCHANGED <<run, args, step, attempts, refused, accountVars, fileVars>>
        /\ inflight' = inflight \cup {CurrentTx}
    BY DEF IInv, ScriptInv, Submit, Running
  <1>2. CurrentTx.step = step /\ CurrentTx.run = run /\ CurrentTx.args = args
    BY DEF CurrentTx
  <1>3. TypeOK'
    BY <1>1 DEF IInv, TypeOK, CurrentTx, Transaction, Phases, accountVars, fileVars
  <1>4. ScriptInv'
    BY <1>1, Quiet DEF IInv, ScriptInv, Running, accountVars
  <1>5. OutcomeInv'
    BY <1>1, ProvisioningAssumption DEF OutcomeInv
  <1>6. InflightInv'
    <2> SUFFICES ASSUME NEW tx \in inflight'
                 PROVE  (/\ tx.step = "CreateMultisig" => tx.args.minters # None
                         /\ tx.step = "SetAuthority" =>
                               /\ ~IsMABA(tx.args)
                               /\ mint[tx.run] # None
                               /\ StoreSettled(tx.run, tx.args)
                               /\ MultisigReady(tx.run, tx.args))'
      BY DEF InflightInv
    <2>0. mint' = mint
      BY <1>1 DEF accountVars
    <2>1. CASE tx \in inflight
      BY <1>1, <2>0, <2>1, Quiet DEF IInv, InflightInv
    <2>2. CASE tx = CurrentTx
      BY <1>1, <1>2, <2>0, <2>2, Quiet DEF IInv, ScriptInv, Blind
    <2> QED
      BY <1>1, <2>1, <2>2
  <1>7. OnceInv'
    <2> SUFFICES ASSUME NEW s \in Blind, NEW r \in Runs
                 PROVE  (/\ Ahead(s, r) => ~Pending(s, r)
                         /\ Ahead(s, r) \/ Pending(s, r) => ~Refused(s, r)
                         /\ Ahead(s, r) \/ Pending(s, r) \/ Refused(s, r) => Untouched(s, r)
                         /\ \A t, u \in inflight :
                                t.step = s /\ u.step = s /\ t.run = r /\ u.run = r => t = u)'
      BY DEF OnceInv
    <2>1. /\ Ahead(s, r) => ~Pending(s, r)
          /\ Ahead(s, r) \/ Pending(s, r) => ~Refused(s, r)
          /\ Ahead(s, r) \/ Pending(s, r) \/ Refused(s, r) => Untouched(s, r)
          /\ \A t, u \in inflight :
                 t.step = s /\ u.step = s /\ t.run = r /\ u.run = r => t = u
      BY DEF IInv, OnceInv
    <2>2. Ahead(s, r)' => Ahead(s, r)
      BY <1>1 DEF Ahead, Running
    <2>3. Refused(s, r)' = Refused(s, r) /\ Untouched(s, r)' = Untouched(s, r)
      BY <1>1, Quiet
    <2>4. CASE s = step /\ r = run
      <3>1. Ahead(s, r) /\ ~Ahead(s, r)'
        <4>1. ~(r > run) /\ s \notin Before(s)
          BY <2>4, ProvisioningAssumption, SMT DEF Runs, Before, Blind
        <4> QED
          BY <1>1, <2>4, <4>1 DEF Ahead
      <3>2. ~\E t \in inflight : t.step = s /\ t.run = r
        BY <2>1, <3>1 DEF Pending
      <3> QED
        BY <1>1, <2>1, <2>3, <3>1, <3>2
    <2>5. CASE ~(s = step /\ r = run)
      <3>1. \A t \in inflight' : t.step = s /\ t.run = r => t \in inflight
        BY <1>1, <1>2, <2>5
      <3>2. Pending(s, r)' = Pending(s, r)
        BY <1>1, <3>1 DEF Pending
      <3> QED
        BY <2>1, <2>2, <2>3, <3>1, <3>2
    <2> QED
      BY <2>4, <2>5
  <1> QED
    BY <1>1, <1>3, <1>4, <1>5, <1>6, <1>7, Quiet DEF IInv

\* breaking off does, for whatever reason,
LEMMA EndStep == ASSUME IInv, End PROVE IInv'
  <1>0. /\ UNCHANGED <<run, args, step, outcome, attempts, accountVars, chainVars, fileVars>>
        /\ UNCHANGED <<inflight, refused>> /\ phase' = "ended"
    BY DEF End, chainVars
  <1>1. TypeOK'
    BY <1>0 DEF IInv, TypeOK, Phases, accountVars, fileVars
  <1>2. ScriptInv' /\ OutcomeInv'
    BY <1>0 DEF ScriptInv, OutcomeInv, Running
  <1>3. OnceInv'
    BY <1>0, EndedOnce DEF Running
  <1> QED
    BY <1>0, <1>1, <1>2, <1>3, Quiet DEF IInv

\* and so does a poll that misses.
LEMMA MissedStep == ASSUME IInv, Missed PROVE IInv'
  <1>0. /\ UNCHANGED <<run, args, step, outcome, accountVars, chainVars, fileVars>>
        /\ UNCHANGED <<inflight, refused>> /\ phase \in {"poll", "check"}
        /\ phase' \in {phase, "ended"}
    BY DEF Missed, chainVars
  <1>1. attempts' \in 0..(NumOfAttempts - 1)
    BY ProvisioningAssumption, SMT DEF IInv, TypeOK, Missed
  <1>2. TypeOK'
    BY <1>0, <1>1 DEF IInv, TypeOK, Phases, accountVars, fileVars
  <1>3. ScriptInv'
    <2>1. mint' = mint
      BY <1>0 DEF accountVars
    <2> QED
      BY <1>0, <2>1, Quiet DEF IInv, ScriptInv, Running
  <1>4. OutcomeInv'
    BY <1>0 DEF OutcomeInv
  <1>5. OnceInv'
    <2>1. \A s \in Blind, r \in Runs : Ahead(s, r)' => Ahead(s, r)
      BY <1>0 DEF Ahead, Running
    <2> QED
      BY <1>0, <2>1, QuietOnce
  <1> QED
    BY <1>0, <1>2, <1>3, <1>4, <1>5, Quiet DEF IInv

\* Going on to the next step does, with this step's work settled.
LEMMA AdvanceStep ==
    ASSUME IInv, Running, step \in Transactions, Advance,
           UNCHANGED <<run, args, outcome, chainVars, accountVars, fileVars>>,
           MultisigReady(run, args),
           step \in {"CreateToken"} \cup Blind /\ ~IsMABA(args) => mint[run] # None,
           step = "InitOft" => StoreSettled(run, args),
           step = "SetAuthority" => HandOverSettled(run, args)
    PROVE  IInv'
  <1>1. run \in Runs /\ args \in Args
    BY DEF IInv, ScriptInv
  <1>0. UNCHANGED <<inflight, refused>> /\ mint' = mint
    BY DEF chainVars, accountVars
  <1>2. 0 \in 0..(NumOfAttempts - 1)
    BY ProvisioningAssumption, SMT
  <1>3. TypeOK'
    BY <1>0, <1>2 DEF IInv, TypeOK, Advance, NextStep, Transactions, Phases, accountVars, fileVars
  <1>4. phase' = "submit" /\ step' = NextStep(step)
    BY DEF Advance
  <1>5. \A s \in Blind : step' \in Before(s) \/ step' = s => step \in Before(s)
    BY <1>4 DEF Transactions, NextStep, Blind, Before
  <1>6. OnceInv'
    <2>1. \A s \in Blind, r \in Runs : Ahead(s, r)' => Ahead(s, r)
      BY <1>5 DEF Ahead
    <2> QED
      BY <2>1, QuietOnce
  <1>7. ScriptInv'
    <2>0. /\ MultisigReady(run, args)' /\ run' = run /\ args' = args
          /\ StoreSettled(run, args)' = StoreSettled(run, args)
          /\ HandOverSettled(run, args)' = HandOverSettled(run, args)
      BY <1>0, Quiet
    <2>1. step' # "CreateMultisig"
      BY <1>4 DEF Transactions, NextStep
    <2>2. ASSUME step' \in Blind, ~IsMABA(args) PROVE mint'[run] # None
      BY <1>0, <1>4, <2>2 DEF Transactions, NextStep, Blind
    <2>3. ASSUME step' = "SetAuthority" PROVE ~IsMABA(args) /\ StoreSettled(run, args)
      BY <1>4, <2>3 DEF Transactions, NextStep
    <2>4. ASSUME step' = "Output"
          PROVE  StoreSettled(run, args) /\ (~IsMABA(args) => HandOverSettled(run, args))
      <3>1. CASE step = "InitOft"
        BY <1>4, <2>4, <3>1 DEF NextStep
      <3>2. CASE step = "SetAuthority"
        BY <3>2 DEF IInv, ScriptInv
      <3> QED
        BY <1>4, <2>4, <3>1, <3>2 DEF Transactions, NextStep
    <2> QED
      BY <1>1, <1>4, <2>0, <2>1, <2>2, <2>3, <2>4 DEF ScriptInv
  <1>8. OutcomeInv'
    BY <1>4 DEF OutcomeInv
  <1> QED
    BY <1>0, <1>3, <1>6, <1>7, <1>8, Quiet DEF IInv

\* A confirmation keeps the invariant, and it need not be of a success,
LEMMA ConfirmStep == ASSUME IInv, Confirm PROVE IInv'
  <1>1. Running /\ step \in Transactions /\ run \in Runs /\ args \in Args /\ phase = "await"
    BY DEF IInv, ScriptInv, Confirm, Running
  <1>0. /\ UNCHANGED <<run, args, outcome, accountVars, chainVars, fileVars>>
        /\ UNCHANGED <<inflight, refused>> /\ mint' = mint
    BY DEF Confirm, chainVars, accountVars
  <1>2. CASE step \in {"CreateMultisig", "CreateToken"}
    <2>1. phase' = "poll" /\ attempts' = 0 /\ step' = step
      BY <1>2 DEF Confirm
    <2>2. 0 \in 0..(NumOfAttempts - 1)
      BY ProvisioningAssumption, SMT
    <2>3. TypeOK'
      BY <1>0, <2>1, <2>2 DEF IInv, TypeOK, Phases, accountVars, fileVars
    <2>4. OnceInv'
      <3>1. \A s \in Blind, r \in Runs : Ahead(s, r)' => Ahead(s, r)
        BY <1>0, <1>1, <2>1 DEF Ahead, Running
      <3> QED
        BY <1>0, <3>1, QuietOnce
    <2>5. ScriptInv' /\ OutcomeInv'
      BY <1>0, <1>1, <1>2, <2>1, Quiet DEF IInv, ScriptInv, OutcomeInv, Blind
    <2> QED
      BY <1>0, <2>3, <2>4, <2>5, Quiet DEF IInv
  <1>3. CASE step \notin {"CreateMultisig", "CreateToken"}
    <2>1. step \in Blind /\ outcome \in {"ok", "error"} /\ Advance
      BY <1>1, <1>3 DEF Confirm, Transactions, Blind
    <2>2. MultisigReady(run, args) /\ (~IsMABA(args) => mint[run] # None)
      BY <1>1, <1>3, <2>1 DEF IInv, ScriptInv
    <2>3. /\ step = "InitOft" => StoreSettled(run, args)
          /\ step = "SetAuthority" => HandOverSettled(run, args)
      BY <1>1, <2>1 DEF IInv, OutcomeInv
    <2> QED
      BY <1>0, <1>1, <2>1, <2>2, <2>3, AdvanceStep
  <1> QED
    BY <1>2, <1>3

\* and so does an account that was found,
LEMMA FoundStep == ASSUME IInv, Found PROVE IInv'
  <1>1. /\ Running /\ run \in Runs /\ args \in Args /\ phase \in {"poll", "check"}
        /\ step \in {"CreateMultisig", "CreateToken"} /\ step \notin Blind
    BY DEF IInv, ScriptInv, Found, Running, Blind
  <1>0. /\ UNCHANGED <<run, args, outcome, accountVars, chainVars, fileVars>>
        /\ UNCHANGED <<inflight, refused>> /\ mint' = mint
    BY DEF Found, chainVars, accountVars
  <1>2. MultisigReady(run, args) /\ (step = "CreateToken" => mint[run] # None)
    <2>1. CASE step = "CreateMultisig"
      BY <1>1, <2>1 DEF Found, Exists, IInv, SignersInv, MultisigReady
    <2>2. CASE step = "CreateToken"
      BY <1>1, <2>2 DEF IInv, ScriptInv, Found, Exists
    <2> QED
      BY <1>1, <2>1, <2>2
  <1>3. CASE step = "CreateMultisig" /\ phase = "poll"
    <2>1. phase' = "check" /\ attempts' = 0 /\ step' = step
      BY <1>3 DEF Found
    <2>2. 0 \in 0..(NumOfAttempts - 1)
      BY ProvisioningAssumption, SMT
    <2>3. TypeOK'
      BY <1>0, <2>1, <2>2 DEF IInv, TypeOK, Phases, accountVars, fileVars
    <2>4. OnceInv'
      <3>1. \A s \in Blind, r \in Runs : Ahead(s, r)' => Ahead(s, r)
        BY <1>0, <1>1, <2>1 DEF Ahead, Running
      <3> QED
        BY <1>0, <3>1, QuietOnce
    <2>5. ScriptInv' /\ OutcomeInv'
      BY <1>0, <1>1, <1>3, <2>1, Quiet DEF IInv, ScriptInv, OutcomeInv
    <2> QED
      BY <1>0, <2>3, <2>4, <2>5, Quiet DEF IInv
  <1>4. CASE ~(step = "CreateMultisig" /\ phase = "poll")
    <2>1. CASE phase = "check" => SignersFit
      <3>1. Advance /\ step \in Transactions
        BY <1>1, <1>4, <2>1 DEF Found, Transactions
      <3>2. step # "InitOft" /\ step # "SetAuthority"
        BY <1>1
      <3> QED
        BY <1>0, <1>1, <1>2, <3>1, <3>2, AdvanceStep
    <2>2. CASE ~(phase = "check" => SignersFit)
      BY <1>4, <2>2, EndStep DEF Found, End
    <2> QED
      BY <2>1, <2>2
  <1> QED
    BY <1>3, <1>4

\* and the file that is written at the end.
LEMMA OutputStep == ASSUME IInv, Output PROVE IInv'
  <1>0. /\ UNCHANGED <<run, args, step, outcome, attempts, accountVars, chainVars>>
        /\ UNCHANGED <<inflight, refused>> /\ phase' = "ended"
        /\ file' = [mint |-> MintId(run, args), mintAuthority |-> MintAuthority(run, args),
                    oftStore |-> Store(run)]
        /\ saved_by' = args /\ overwritten' = FALSE
    BY DEF Output, chainVars
  <1>1. /\ run \in Runs /\ args \in Args /\ StoreSettled(run, args)
        /\ ~IsMABA(args) => HandOverSettled(run, args)
    BY DEF IInv, ScriptInv, Output, Running
  <1>2. MintId(run, args) \in MintIds /\ MintAuthority(run, args) \in Authority
    BY <1>1, RunTypes
  <1>3. TypeOK'
    BY <1>0, <1>1, <1>2 DEF IInv, TypeOK, OFTJson, Phases, accountVars
  <1>4. ScriptInv' /\ OutcomeInv' /\ OnceInv'
    BY <1>0, EndedOnce DEF ScriptInv, OutcomeInv, Running
  <1>5. FileInv'
    <2>1. Store(run).run = run
      BY DEF Store
    <2>2. /\ file'.mint = MintId(run, args) /\ file'.mintAuthority = MintAuthority(run, args)
          /\ file'.oftStore.run = run
      BY <1>0, <2>1
    <2>3. StoreSettled(run, args)' = StoreSettled(run, args)
          /\ HandOverSettled(run, args)' = HandOverSettled(run, args)
          /\ run' = run /\ args' = args
      BY <1>0, Quiet
    <2> QED
      BY <1>0, <1>1, <2>2, <2>3 DEF FileInv
  <1> QED
    BY <1>0, <1>3, <1>4, <1>5, Quiet DEF IInv

\* The other writer of the file leaves alone what the invariant says of it.
LEMMA SquadsStep ==
    ASSUME IInv, NEW wallet \in {Deployer, Someone}, CreateSquads(wallet) PROVE IInv'
  <1>1. /\ UNCHANGED <<accountVars, scriptVars, chainVars, inflight, refused, run>>
        /\ saved_by' = saved_by /\ overwritten' = TRUE
        /\ file # None /\ file' = [file EXCEPT !.mintAuthority = wallet]
    BY DEF CreateSquads, chainVars, scriptVars
  <1>2. /\ file \in OFTJson /\ file' \in OFTJson
        /\ file'.mint = file.mint /\ file'.oftStore = file.oftStore
    <2>1. file \in OFTJson /\ wallet \in Authority
      BY <1>1 DEF IInv, TypeOK, Authority
    <2> QED
      BY <1>1, <2>1 DEF OFTJson
  <1>3. TypeOK'
    BY <1>1, <1>2 DEF IInv, TypeOK, accountVars, scriptVars
  <1>4. mint' = mint /\ step' = step /\ phase' = phase /\ args' = args /\ outcome' = outcome
    BY <1>1 DEF accountVars, scriptVars
  <1>5. ScriptInv' /\ OutcomeInv'
    BY <1>1, <1>4, Quiet DEF IInv, ScriptInv, OutcomeInv, Running
  <1>6. OnceInv'
    <2>1. \A s \in Blind, r \in Runs : Ahead(s, r)' => Ahead(s, r)
      BY <1>1, <1>4 DEF Ahead, Running
    <2> QED
      BY <1>1, <2>1, QuietOnce
  <1>7. FileInv'
    BY <1>1, <1>2, Quiet DEF IInv, FileInv
  <1> QED
    BY <1>1, <1>3, <1>5, <1>6, <1>7, Quiet DEF IInv
----------------------------------------------------------------------------
\* What no transaction undoes: multisigs, OFT stores, mints, and the authorities
\* of a mint that has left the deployer's hands.
Kept ==
    /\ \A r \in Runs : multisig[r] # None => multisig'[r] = multisig[r]
    /\ \A r \in Runs : store[r] # None => store'[r] = store[r]
    /\ \A m \in MintIds : mint[m] # None =>
          mint'[m] # None /\ (mint[m].mint_authority # Deployer => mint'[m] = mint[m])

\* A transaction under way is of its type, and so is what it would make.
LEMMA TxTypes ==
    ASSUME IInv, NEW tx \in inflight
    PROVE  /\ tx.run \in Runs /\ tx.run \in MintIds /\ tx.args \in Args
           /\ tx \in Transaction
           /\ tx.args.minters # None =>
                 [signers |-> Signers(tx.run, tx.args), quorum |-> 1] \in MultisigAccount
           /\ [mint_authority |-> Deployer, freeze_authority |-> Deployer] \in MintAccount
           /\ [mint_authority |-> MintAuthority(tx.run, tx.args),
               freeze_authority |-> IF tx.args.onlyOftStore THEN None
                                    ELSE MintAuthority(tx.run, tx.args)] \in MintAccount
  <1>1. tx.run \in Runs /\ tx.args \in Args /\ tx \in Transaction
    BY DEF IInv, TypeOK, Transaction
  <1>2. tx.run \in MintIds
    BY <1>1, ProvisioningAssumption, SMT DEF Runs, MintIds
  <1>3. Deployer \in Authority
    BY DEF Authority
  <1> QED
    BY <1>1, <1>2, <1>3, RunTypes DEF MultisigAccount, MintAccount

\* A successful transaction undoes nothing.
LEMMA ExecuteKeeps == ASSUME IInv, NEW tx \in inflight, Execute(tx) PROVE Kept
  <1>1. CASE CreateMultisig(tx)
    BY <1>1 DEF CreateMultisig, Kept, IInv, TypeOK
  <1>2. CASE CreateToken(tx)
    BY <1>2, TxTypes DEF CreateToken, Kept, IInv, TypeOK
  <1>3. CASE InitOft(tx)
    BY <1>3 DEF InitOft, Kept, IInv, TypeOK
  <1>4. CASE SetAuthority(tx)
    <2> DEFINE new == [mint_authority |-> MintAuthority(tx.run, tx.args),
                       freeze_authority |-> IF tx.args.onlyOftStore THEN None
                                            ELSE MintAuthority(tx.run, tx.args)]
    <2>1. /\ mint' = [mint EXCEPT ![tx.run] = new] /\ mint[tx.run].mint_authority = Deployer
          /\ UNCHANGED <<multisig, store>>
      BY <1>4 DEF SetAuthority
    <2>2. new # None
      BY TxTypes, ProvisioningAssumption
    <2>3. mint \in [MintIds -> MintAccount \cup {None}]
      BY DEF IInv, TypeOK
    <2> HIDE DEF new
    <2> QED
      BY <2>1, <2>2, <2>3 DEF Kept
  <1> QED
    BY <1>1, <1>2, <1>3, <1>4 DEF Execute

\* A transaction leaves the list of those under way, and only what it makes is touched.
LEMMA TxMoves ==
    ASSUME IInv, NEW tx \in inflight, Execute(tx) \/ Fail(tx)
    PROVE  /\ UNCHANGED <<run, args, step, phase, attempts, fileVars>>
           /\ inflight' = inflight \ {tx}
           /\ Kept
           /\ \A s \in Blind, r \in Runs : ~(tx.step = s /\ tx.run = r) =>
                  Refused(s, r)' = Refused(s, r) /\ (Untouched(s, r) => Untouched(s, r)')
           /\ \A r \in Runs : mint[r] = NewMint /\ ~(tx.step = "SetAuthority" /\ tx.run = r) =>
                  mint'[r] = NewMint
  <1>1. /\ UNCHANGED <<run, args, step, phase, attempts, fileVars>>
        /\ inflight' = inflight \ {tx}
        /\ refused' \in {refused, refused \cup {tx}}
    BY DEF Execute, Fail, Settle
  <1>2. Kept
    <2>1. CASE Fail(tx)
      BY <2>1 DEF Fail, Kept, accountVars
    <2> QED
      BY <2>1, ExecuteKeeps
  <1>3. \A s \in Blind, r \in Runs :
            ~(tx.step = s /\ tx.run = r) => Refused(s, r)' = Refused(s, r)
    BY <1>1 DEF Refused
  <1>4. /\ mint \in [MintIds -> MintAccount \cup {None}]
        /\ store \in [Runs -> MintIds \cup {None}]
        /\ tx.run \in Runs /\ tx.run \in MintIds
    BY TxTypes DEF IInv, TypeOK
  <1>5. ASSUME NEW r \in Runs, ~(tx.step = "InitOft" /\ tx.run = r) PROVE store'[r] = store[r]
    BY <1>4, <1>5 DEF Execute, Fail, accountVars, CreateMultisig, CreateToken, InitOft, SetAuthority
  <1>6. ASSUME NEW r \in Runs, ~(tx.step = "SetAuthority" /\ tx.run = r)
        PROVE  mint'[r] = mint[r] \/ (mint[r] = None /\ mint'[r] = NewMint)
    <2>1. r \in MintIds
      BY ProvisioningAssumption, SMT DEF Runs, MintIds
    <2>2. CASE CreateToken(tx)
      BY <1>4, <2>1, <2>2 DEF CreateToken, NewMint
    <2>3. CASE SetAuthority(tx)
      BY <1>4, <1>6, <2>1, <2>3 DEF SetAuthority
    <2>4. CASE UNCHANGED mint
      BY <2>4
    <2> QED
      BY <2>2, <2>3, <2>4 DEF Execute, Fail, accountVars, CreateMultisig, InitOft
  <1>7. \A r \in Runs : mint[r] = NewMint /\ ~(tx.step = "SetAuthority" /\ tx.run = r) =>
                  mint'[r] = NewMint
    BY <1>6, NewMintType
  <1>8. \A s \in Blind, r \in Runs :
            ~(tx.step = s /\ tx.run = r) => (Untouched(s, r) => Untouched(s, r)')
    BY <1>5, <1>6 DEF Untouched, Blind
  <1> QED
    BY <1>1, <1>2, <1>3, <1>7, <1>8

\* So each of the blind transactions is made once,
LEMMA TxOnce == ASSUME IInv, NEW tx \in inflight, Execute(tx) \/ Fail(tx) PROVE OnceInv'
  <1> SUFFICES ASSUME NEW s \in Blind, NEW r \in Runs
               PROVE  (/\ Ahead(s, r) => ~Pending(s, r)
                       /\ Ahead(s, r) \/ Pending(s, r) => ~Refused(s, r)
                       /\ Ahead(s, r) \/ Pending(s, r) \/ Refused(s, r) => Untouched(s, r)
                       /\ \A t, u \in inflight :
                              t.step = s /\ u.step = s /\ t.run = r /\ u.run = r => t = u)'
    BY DEF OnceInv
  <1>1. /\ Ahead(s, r) => ~Pending(s, r)
        /\ Ahead(s, r) \/ Pending(s, r) => ~Refused(s, r)
        /\ Ahead(s, r) \/ Pending(s, r) \/ Refused(s, r) => Untouched(s, r)
        /\ \A t, u \in inflight :
               t.step = s /\ u.step = s /\ t.run = r /\ u.run = r => t = u
    BY DEF IInv, OnceInv
  <1>2. /\ Ahead(s, r)' = Ahead(s, r) /\ inflight' = inflight \ {tx}
        /\ Pending(s, r)' => Pending(s, r)
    BY TxMoves DEF Ahead, Running, Pending
  <1>3. CASE tx.step = s /\ tx.run = r
    <2>1. Pending(s, r) /\ ~Ahead(s, r) /\ ~Refused(s, r) /\ Untouched(s, r)
      BY <1>1, <1>3 DEF Pending
    <2>2. ~Pending(s, r)'
      BY <1>1, <1>2, <1>3 DEF Pending
    <2>3. Refused(s, r)' => Untouched(s, r)'
      <3>1. CASE Execute(tx)
        BY <2>1, <3>1 DEF Execute, Refused
      <3>2. CASE Fail(tx)
        BY <2>1, <3>2 DEF Fail, accountVars, Untouched
      <3> QED
        BY <3>1, <3>2
    <2> QED
      BY <1>1, <1>2, <2>1, <2>2, <2>3
  <1>4. CASE ~(tx.step = s /\ tx.run = r)
    <2>1. Refused(s, r)' = Refused(s, r) /\ (Untouched(s, r) => Untouched(s, r)')
      BY <1>4, TxMoves
    <2> QED
      BY <1>1, <1>2, <2>1
  <1> QED
    BY <1>3, <1>4

\* and what is settled stays settled.
LEMMA TxSettled ==
    ASSUME IInv, NEW tx \in inflight, Execute(tx) \/ Fail(tx), NEW r \in Runs, NEW a \in Args
    PROVE  /\ MultisigReady(r, a) => MultisigReady(r, a)'
           /\ StoreSettled(r, a) => StoreSettled(r, a)'
           /\ HandOverSettled(r, a) => HandOverSettled(r, a)'
  <1>1. /\ MintId(r, a) \in MintIds /\ r \in MintIds /\ MintAuthority(r, a) # Deployer
        /\ MintId(r, a) # None
    BY RunTypes, NewMintType, ProvisioningAssumption, SMT DEF Runs, MintIds
  <1>2. Kept
    BY TxMoves
  <1>3. MultisigReady(r, a) => MultisigReady(r, a)'
    BY <1>1, <1>2 DEF Kept, MultisigReady
  <1>4. ASSUME StoreSettled(r, a) PROVE StoreSettled(r, a)'
    <2>1. ~(tx.step = "InitOft" /\ tx.run = r)
      <3> SUFFICES ASSUME tx.step = "InitOft", tx.run = r PROVE FALSE
        OBVIOUS
      <3>1. Pending("InitOft", r) /\ "InitOft" \in Blind
        BY DEF Pending, Blind
      <3>2. ~Refused("InitOft", r) /\ Untouched("InitOft", r)
        BY <3>1 DEF IInv, OnceInv
      <3> QED
        BY <1>1, <1>4, <3>2 DEF StoreSettled, Untouched
    <2>2. Refused("InitOft", r)' = Refused("InitOft", r)
          /\ (Untouched("InitOft", r) => Untouched("InitOft", r)')
      BY <2>1, TxMoves DEF Blind
    <2>3. store[r] = None => store'[r] = None
      BY <2>2 DEF Untouched
    <2> QED
      BY <1>1, <1>2, <1>4, <2>2, <2>3 DEF Kept, StoreSettled
  <1>5. ASSUME HandOverSettled(r, a) PROVE HandOverSettled(r, a)'
    <2>1. ~(tx.step = "SetAuthority" /\ tx.run = r)
      <3> SUFFICES ASSUME tx.step = "SetAuthority", tx.run = r PROVE FALSE
        OBVIOUS
      <3>1. Pending("SetAuthority", r) /\ "SetAuthority" \in Blind
        BY DEF Pending, Blind
      <3>2. ~Refused("SetAuthority", r) /\ Untouched("SetAuthority", r)
        BY <3>1 DEF IInv, OnceInv
      <3>3. mint[r] \in {None, NewMint} /\ HandedOver(r, a)
        BY <1>5, <3>2 DEF HandOverSettled, Untouched
      <3> QED
        BY <1>1, <3>3, NewMintType DEF HandedOver
    <2>2. Refused("SetAuthority", r)' = Refused("SetAuthority", r)
      BY <2>1, TxMoves DEF Blind
    <2>3. mint[r] = NewMint => mint'[r] = NewMint
      BY <2>1, TxMoves
    <2>4. HandedOver(r, a) => HandedOver(r, a)'
      BY <1>1, <1>2 DEF Kept, HandedOver
    <2> QED
      BY <1>5, <2>2, <2>3, <2>4 DEF HandOverSettled
  <1> QED
    BY <1>3, <1>4, <1>5

\* A transaction keeps what the invariant says of script and file,
LEMMA TxScript ==
    ASSUME IInv, NEW tx \in inflight, Execute(tx) \/ Fail(tx)
    PROVE  ScriptInv' /\ InflightInv' /\ FileInv'
  <1>1. /\ UNCHANGED <<run, args, step, phase>> /\ UNCHANGED <<file, saved_by, overwritten>>
        /\ inflight' \subseteq inflight /\ Kept
    BY TxMoves DEF fileVars
  <1>2. \A r \in Runs : r \in MintIds
    BY ProvisioningAssumption, SMT DEF Runs, MintIds
  <1>3. \A r \in Runs : mint[r] # None => mint'[r] # None
    BY <1>1, <1>2 DEF Kept
  <1>4. ScriptInv'
    <2> SUFFICES ASSUME Running
                 PROVE  ScriptInv'
      BY <1>1 DEF ScriptInv, Running
    <2>1. run \in Runs /\ args \in Args
      BY DEF IInv, ScriptInv
    <2>2. /\ MultisigReady(run, args) => MultisigReady(run, args)'
          /\ StoreSettled(run, args) => StoreSettled(run, args)'
          /\ HandOverSettled(run, args) => HandOverSettled(run, args)'
      BY <1>1, <2>1, TxSettled
    <2> QED
      BY <1>1, <1>3, <2>1, <2>2 DEF IInv, ScriptInv
  <1>5. InflightInv'
    <2> SUFFICES ASSUME NEW t \in inflight'
                 PROVE  (/\ t.step = "CreateMultisig" => t.args.minters # None
                         /\ t.step = "SetAuthority" =>
                               /\ ~IsMABA(t.args)
                               /\ mint[t.run] # None
                               /\ StoreSettled(t.run, t.args)
                               /\ MultisigReady(t.run, t.args))'
      BY DEF InflightInv
    <2>1. t \in inflight /\ t.run \in Runs /\ t.args \in Args
      BY <1>1, TxTypes
    <2> QED
      BY <1>3, <2>1, TxSettled DEF IInv, InflightInv
  <1>6. FileInv'
    <2> SUFFICES ASSUME file # None PROVE FileInv'
      BY <1>1 DEF FileInv
    <2>1. file.oftStore.run \in Runs /\ saved_by \in Args
      BY DEF IInv, TypeOK, OFTJson, Store, FileInv
    <2> QED
      BY <1>1, <2>1, TxSettled DEF IInv, FileInv
  <1> QED
    BY <1>4, <1>5, <1>6

\* of types, signers and its own outcome,
LEMMA TxAccounts ==
    ASSUME IInv, NEW tx \in inflight, Execute(tx) \/ Fail(tx)
    PROVE  TypeOK' /\ SignersInv' /\ OutcomeInv'
  <1>1. /\ UNCHANGED fileVars /\ UNCHANGED <<run, args, step, phase, attempts>>
        /\ inflight' \subseteq inflight /\ refused' \subseteq refused \cup {tx}
        /\ Execute(tx) => refused' = refused
        /\ outcome' \in {outcome, "ok", "error", "expired"}
        /\ ~(Running /\ tx = CurrentTx) => outcome' = outcome
    BY DEF Execute, Fail, Settle
  <1>2. outcome' \in {None, "ok", "error", "expired"} /\ refused' \subseteq Transaction
    BY <1>1, TxTypes DEF IInv, TypeOK
  <1>3. multisig' \in [Runs -> MultisigAccount \cup {None}] /\ SignersInv'
    <2>1. CASE CreateMultisig(tx)
      <3> DEFINE new == [signers |-> Signers(tx.run, tx.args), quorum |-> 1]
      <3>1. /\ tx.args.minters # None /\ tx.run \in Runs /\ tx.args \in Args
            /\ multisig' = [multisig EXCEPT ![tx.run] = new]
        BY <2>1, TxTypes DEF CreateMultisig, IInv, InflightInv
      <3>2. /\ new \in MultisigAccount /\ Store(tx.run) \in new.signers
            /\ new.signers \subseteq {Store(tx.run), Someone}
        BY <3>1, TxTypes, RunTypes
      <3>3. multisig \in [Runs -> MultisigAccount \cup {None}] /\ SignersInv
        BY DEF IInv, TypeOK
      <3> HIDE DEF new
      <3> QED
        BY <3>1, <3>2, <3>3 DEF SignersInv
    <2>2. CASE UNCHANGED multisig
      BY <2>2 DEF IInv, TypeOK, SignersInv
    <2> QED
      BY <2>1, <2>2 DEF Execute, Fail, accountVars, CreateToken, InitOft, SetAuthority
  <1>4. mint' \in [MintIds -> MintAccount \cup {None}]
    BY TxTypes DEF Execute, Fail, accountVars, CreateMultisig, CreateToken, InitOft, SetAuthority,
       IInv, TypeOK
  <1>5. store' \in [Runs -> MintIds \cup {None}]
    BY TxTypes, RunTypes DEF Execute, Fail, accountVars, CreateMultisig, CreateToken, InitOft,
       SetAuthority, IInv, TypeOK
  <1>6. TypeOK'
    BY <1>1, <1>2, <1>3, <1>4, <1>5 DEF IInv, TypeOK, fileVars
  <1>7. OutcomeInv'
    <2> SUFFICES ASSUME phase = "await", outcome' \in {"ok", "error"}
                 PROVE  /\ step = "InitOft" => StoreSettled(run, args)'
                        /\ step = "SetAuthority" => HandOverSettled(run, args)'
      BY <1>1 DEF OutcomeInv
    <2>0. run \in Runs /\ args \in Args /\ Running
      BY DEF IInv, ScriptInv, Running
    <2>1. CASE tx = CurrentTx
      <3>1. tx.step = step /\ tx.run = run /\ tx.args = args
        BY <2>1 DEF CurrentTx
      <3>2. CASE Execute(tx)
        <4>1. ASSUME step \in Blind PROVE ~Refused(step, run)'
          <5>1. Pending(step, run)
            BY <3>1 DEF Pending
          <5>2. ~Refused(step, run)
            BY <2>0, <4>1, <5>1 DEF IInv, OnceInv
          <5> QED
            BY <1>1, <3>2, <5>2 DEF Refused
        <4>2. ASSUME step = "InitOft" PROVE StoreSettled(run, args)'
          <5>1. InitOft(tx)
            BY <3>1, <3>2, <4>2 DEF Execute, CreateMultisig, CreateToken, SetAuthority
          <5>2. store'[run] = MintId(run, args)
            BY <3>1, <5>1, TxTypes DEF InitOft, IInv, TypeOK
          <5>3. ~Refused("InitOft", run)'
            BY <4>1, <4>2, <1>1 DEF Blind
          <5> QED
            BY <1>1, <5>2, <5>3 DEF StoreSettled
        <4>3. ASSUME step = "SetAuthority" PROVE HandOverSettled(run, args)'
          <5>1. SetAuthority(tx)
            BY <3>1, <3>2, <4>3 DEF Execute, CreateMultisig, CreateToken, InitOft
          <5>2. mint'[run] = [mint_authority |-> MintAuthority(run, args),
                              freeze_authority |-> IF args.onlyOftStore THEN None
                                                   ELSE MintAuthority(run, args)]
            BY <3>1, <5>1, TxTypes DEF SetAuthority, IInv, TypeOK
          <5>3. mint'[run] # None
            BY <3>1, <5>2, TxTypes, ProvisioningAssumption
          <5>4. ~Refused("SetAuthority", run)'
            BY <4>1, <4>3, <1>1 DEF Blind
          <5>5. HandedOver(run, args)'
            BY <1>1, <5>2, <5>3 DEF HandedOver, MintAuthority
          <5> QED
            BY <1>1, <5>4, <5>5 DEF HandOverSettled
        <4> QED
          BY <4>2, <4>3
      <3>3. CASE Fail(tx)
        <4>1. UNCHANGED <<multisig, mint, store>> /\ tx \in refused'
          <5>1. outcome' # "expired"
            OBVIOUS
          <5> QED
            BY <2>0, <2>1, <3>3, <5>1 DEF Fail, Settle, accountVars
        <4>2. Refused(step, run)'
          BY <1>1, <3>1, <4>1 DEF Refused
        <4>3. ASSUME step \in Blind PROVE Untouched(step, run)
          <5>1. Pending(step, run)
            BY <3>1 DEF Pending
          <5> QED
            BY <2>0, <4>3, <5>1 DEF IInv, OnceInv
        <4>4. ASSUME step = "InitOft" PROVE StoreSettled(run, args)'
          <5>1. store[run] = None /\ Refused("InitOft", run)'
            BY <1>1, <4>2, <4>3, <4>4 DEF Untouched, Blind
          <5> QED
            BY <1>1, <4>1, <5>1 DEF StoreSettled
        <4>5. ASSUME step = "SetAuthority" PROVE HandOverSettled(run, args)'
          <5>1. mint[run] \in {None, NewMint} /\ Refused("SetAuthority", run)'
            BY <1>1, <4>2, <4>3, <4>5 DEF Untouched, Blind
          <5>2. mint[run] # None
            BY <3>1, <4>5 DEF IInv, InflightInv
          <5> QED
            BY <1>1, <4>1, <5>1, <5>2 DEF HandOverSettled
        <4> QED
          BY <4>4, <4>5
      <3> QED
        BY <3>2, <3>3
    <2>2. CASE tx # CurrentTx
      <3>1. outcome \in {"ok", "error"}
        BY <1>1, <2>2
      <3>2. /\ step = "InitOft" => StoreSettled(run, args)
            /\ step = "SetAuthority" => HandOverSettled(run, args)
        BY <3>1 DEF IInv, OutcomeInv
      <3> QED
        BY <1>1, <2>0, <3>2, TxSettled
    <2> QED
      BY <2>1, <2>2
  <1> QED
    BY <1>3, <1>6, <1>7

\* and of the hand-over.
LEMMA TxHandOver == ASSUME IInv, NEW tx \in inflight, Execute(tx) \/ Fail(tx) PROVE MintInv'
  <1> SUFFICES ASSUME NEW m \in MintIds,
                      mint'[m] # None, mint'[m].mint_authority \notin {Deployer, Someone}
               PROVE  /\ m \in Runs
                      /\ \E a \in Args : /\ ~IsMABA(a) /\ mint'[m].mint_authority = MintAuthority(m, a)
                                         /\ StoreSettled(m, a)' /\ MultisigReady(m, a)'
    BY DEF MintInv, MintAuthority, IsMABA
  <1>1. CASE mint'[m] = mint[m]
    <2>1. /\ m \in Runs
          /\ \E a \in Args : /\ ~IsMABA(a) /\ mint[m].mint_authority = MintAuthority(m, a)
                             /\ StoreSettled(m, a) /\ MultisigReady(m, a)
      BY <1>1 DEF IInv, MintInv
    <2> QED
      BY <1>1, <2>1, TxSettled
  <1>2. CASE mint'[m] # mint[m]
    <2>1. mint \in [MintIds -> MintAccount \cup {None}]
      BY DEF IInv, TypeOK
    <2>2. ~CreateToken(tx)
      BY <1>2, <2>1, TxTypes DEF CreateToken
    <2>3. SetAuthority(tx) /\ m = tx.run
      BY <1>2, <2>1, <2>2 DEF Execute, Fail, accountVars, CreateMultisig, InitOft, SetAuthority
    <2>4. mint'[m].mint_authority = MintAuthority(m, tx.args)
      BY <2>1, <2>3, TxTypes DEF SetAuthority
    <2>5. /\ ~IsMABA(tx.args) /\ StoreSettled(m, tx.args) /\ MultisigReady(m, tx.args)
          /\ m \in Runs /\ tx.args \in Args
      BY <2>3, TxTypes DEF SetAuthority, IInv, InflightInv
    <2> QED
      BY <2>4, <2>5, TxSettled
  <1> QED
    BY <1>1, <1>2
----------------------------------------------------------------------------
\* Every step keeps the invariant.
LEMMA NextInvariant == IInv /\ [Next]_vars => IInv'
  <1> SUFFICES ASSUME IInv, [Next]_vars PROVE IInv'
    OBVIOUS
  <1>1. CASE \E a \in Args : Start(a)
    BY <1>1, StartStep
  <1>2. CASE Script
    <2>1. ASSUME Reject PROVE IInv'
      BY <2>1, EndStep DEF Reject
    <2> QED
      BY <1>2, <2>1, SubmitStep, ConfirmStep, FoundStep, MissedStep, OutputStep DEF Script
  <1>3. CASE Break
    BY <1>3, EndStep DEF Break
  <1>4. CASE \E tx \in inflight : Execute(tx) \/ Fail(tx)
    BY <1>4, TxOnce, TxScript, TxAccounts, TxHandOver DEF IInv
  <1>5. CASE \E wallet \in {Deployer, Someone} : CreateSquads(wallet)
    BY <1>5, SquadsStep
  <1>6. CASE UNCHANGED vars
    <2>1. /\ UNCHANGED <<accountVars, fileVars, chainVars, scriptVars>>
          /\ UNCHANGED <<inflight, refused>>
          /\ UNCHANGED <<run, args, step, phase, outcome, attempts>> /\ mint' = mint
      BY <1>6 DEF vars, chainVars, scriptVars, accountVars
    <2>2. TypeOK'
      BY <2>1 DEF IInv, TypeOK, accountVars, fileVars
    <2>3. ScriptInv' /\ OutcomeInv'
      BY <2>1, Quiet DEF IInv, ScriptInv, OutcomeInv, Running
    <2>4. OnceInv'
      <3>1. \A s \in Blind, r \in Runs : Ahead(s, r)' => Ahead(s, r)
        BY <2>1 DEF Ahead, Running
      <3> QED
        BY <2>1, <3>1, QuietOnce
    <2> QED
      BY <2>1, <2>2, <2>3, <2>4, Quiet DEF IInv
  <1> QED
    BY <1>1, <1>2, <1>3, <1>4, <1>5, <1>6 DEF Next

\* The invariant holds throughout.
LEMMA InvariantHolds == Spec => []IInv
  BY InitInvariant, NextInvariant, PTL DEF Spec

\* Script, accounts and file keep their types, whatever fails.
THEOREM ProvisioningTypeCorrect == Spec => []TypeOK
  <1>1. IInv => TypeOK
    BY DEF IInv
  <1> QED
    BY <1>1, InvariantHolds, PTL

\* Who can mint with the authority a run hands its mint over to: the store of that
\* run and perhaps somebody else, but no other store.
LEMMA OwnMinters ==
    ASSUME IInv, NEW m \in Runs, NEW a \in Args, MultisigReady(m, a)
    PROVE  /\ Store(m) \in Minters(MintAuthority(m, a))
           /\ \A r \in Runs : Store(r) \in Minters(MintAuthority(m, a)) => r = m
  <1>1. \A r \in Runs : Store(r) # Someone /\ (Store(r) = Store(m) => r = m)
    BY SMT DEF Store, Someone
  <1>2. CASE a.minters = None
    BY <1>1, <1>2 DEF MintAuthority, Minters, Store
  <1>3. CASE a.minters # None
    <2>1. MintAuthority(m, a) = Multisig(m)
      BY <1>3 DEF MintAuthority
    <2>2. Multisig(m).kind = "multisig" /\ Multisig(m).run = m
      BY DEF Multisig
    <2>3. /\ multisig[m] # None /\ Store(m) \in multisig[m].signers
          /\ multisig[m].signers \subseteq {Store(m), Someone}
      BY <1>3 DEF MultisigReady, IInv, SignersInv
    <2>4. Minters(MintAuthority(m, a)) = multisig[m].signers
      BY <2>1, <2>2, <2>3 DEF Minters
    <2> QED
      BY <1>1, <2>3, <2>4
  <1> QED
    BY <1>2, <1>3

\* A mint that has left the deployer's hands can be minted by an OFT store of its own,
\* through any number of runs, failures and late transactions, exactly if no initOft
\* of its run was executed with an error.
THEOREM MintLostOnlyByError == Spec => []MintableUnlessRefused
  <1>1. IInv => MintableUnlessRefused
    <2> SUFFICES ASSUME IInv, NEW m \in MintIds,
                        mint[m] # None, mint[m].mint_authority \notin {Deployer, Someone}
                 PROVE  ~Refused("InitOft", m) <=>
                            \E r \in Runs : store[r] = m /\ Store(r) \in Minters(mint[m].mint_authority)
      BY DEF MintableUnlessRefused
    <2>1. m \in Runs
      BY DEF IInv, MintInv
    <2>2. PICK a \in Args : /\ ~IsMABA(a) /\ mint[m].mint_authority = MintAuthority(m, a)
                            /\ StoreSettled(m, a) /\ MultisigReady(m, a)
      BY DEF IInv, MintInv
    <2>3. store[m] = IF Refused("InitOft", m) THEN None ELSE m
      BY <2>2 DEF StoreSettled, MintId
    <2>4. m # None
      BY NewMintType
    <2> QED
      BY <2>1, <2>2, <2>3, <2>4, OwnMinters
  <1> QED
    BY <1>1, InvariantHolds, PTL

\* OFT.json is what the accounts are from the moment it is written, but for what an
\* initOft or a setAuthority executed with an error has not done.
THEOREM FileAlwaysAccounted == Spec => []FileAccounted
  <1>1. IInv => FileAccounted
    <2> SUFFICES ASSUME IInv, file # None PROVE FileAccounted
      BY DEF FileAccounted
    <2> DEFINE r == file.oftStore.run
    <2>1. /\ file.mint = MintId(r, saved_by)
          /\ ~overwritten => file.mintAuthority = MintAuthority(r, saved_by)
          /\ StoreSettled(r, saved_by)
          /\ ~IsMABA(saved_by) => HandOverSettled(r, saved_by)
      BY DEF IInv, FileInv
    <2>2. store[r] = IF Refused("InitOft", r) THEN None ELSE file.mint
      BY <2>1 DEF StoreSettled
    <2>3. ASSUME ~IsMABA(saved_by)
          PROVE  IF Refused("SetAuthority", r) THEN mint[file.mint] = NewMint
                 ELSE /\ mint[file.mint] # None
                      /\ ~overwritten => mint[file.mint].mint_authority = file.mintAuthority
                      /\ mint[file.mint].freeze_authority =
                            IF saved_by.onlyOftStore THEN None ELSE mint[file.mint].mint_authority
      <3>1. file.mint = r
        BY <2>1, <2>3 DEF MintId
      <3> HIDE DEF r
      <3> QED
        BY <2>1, <2>3, <3>1 DEF HandOverSettled, HandedOver
    <2> QED
      BY <2>2, <2>3 DEF FileAccounted, NewMint
  <1> QED
    BY <1>1, InvariantHolds, PTL
----------------------------------------------------------------------------
\* What RunsEnd rests on besides fairness: a run cannot get stuck or go round in
\* circles, whichever errors sendAndConfirm keeps to itself.

\* A run that waits is told in the end: it knows its outcome, or its transaction
\* is still under way, which is executed or expires.
Waiting == phase = "await" => outcome # None \/ CurrentTx \in inflight

\* The transactions a run has before it, this one included,
StepsLeft(s) ==
    CASE s = "CreateMultisig" -> 4 [] s = "CreateToken" -> 3 [] s = "InitOft" -> 2
      [] s = "SetAuthority" -> 1 [] OTHER -> 0

\* and what it still has to do about this one.
PhasesLeft(p) == CASE p = "submit" -> 3 [] p = "await" -> 2 [] p = "poll" -> 1 [] OTHER -> 0

\* The run ends, or is at a later transaction, or further on with this one, or has
\* one attempt of a few less to find its account.
Nearer ==
    \/ ~Running'
    \/ /\ UNCHANGED <<run, args>>
       /\ \/ StepsLeft(step') < StepsLeft(step)
          \/ /\ step' = step
             /\ \/ PhasesLeft(phase') < PhasesLeft(phase)
                \/ /\ phase' = phase
                   /\ attempts' = attempts + 1 /\ attempts' < NumOfAttempts

\* Only transactions are waited for, and only new accounts are looked up.
Route ==
    /\ phase = "await" => step \in Transactions
    /\ phase \in {"poll", "check"} => step \in {"CreateMultisig", "CreateToken"}
    /\ attempts \in 0..(NumOfAttempts - 1)

\* The next transaction is a later one.
LEMMA AdvanceMoves ==
    ASSUME step \in Transactions, Advance, UNCHANGED <<run, args>>
    PROVE  Nearer /\ Route' /\ Waiting'
  <1>1. step' = NextStep(step) /\ phase' = "submit" /\ attempts' = 0
    BY DEF Advance
  <1>2. StepsLeft(NextStep(step)) < StepsLeft(step)
    BY DEF Transactions, NextStep, StepsLeft
  <1>3. 0 \in 0..(NumOfAttempts - 1)
    BY ProvisioningAssumption, SMT
  <1>4. Nearer
    BY <1>1, <1>2 DEF Nearer
  <1> QED
    BY <1>1, <1>3, <1>4 DEF Route, Waiting

\* Every step of the script, by its phase.
LEMMA ScriptMoves ==
    ASSUME Route, Script
    PROVE  Nearer /\ Route' /\ Waiting'
  <1>1. ASSUME phase' = "ended", attempts' = attempts PROVE Nearer /\ Route' /\ Waiting'
    BY <1>1 DEF Nearer, Running, Route, Waiting
  <1>2. CASE Submit
    <2>1. phase = "submit" /\ phase' = "await" /\ step \in Transactions
          /\ UNCHANGED <<run, args, step, attempts>>
          /\ inflight' = inflight \cup {CurrentTx}
      BY <1>2 DEF Submit
    <2>2. PhasesLeft(phase') < PhasesLeft(phase)
      BY <2>1 DEF PhasesLeft
    <2>3. Waiting'
      BY <2>1 DEF Waiting, CurrentTx
    <2> QED
      BY <2>1, <2>2, <2>3 DEF Nearer, Route
  <1>3. CASE Confirm
    <2>1. phase = "await" /\ step \in Transactions /\ UNCHANGED <<run, args>>
      BY <1>3 DEF Confirm, Route
    <2>2. CASE step \in {"CreateMultisig", "CreateToken"}
      <3>1. phase' = "poll" /\ attempts' = 0 /\ step' = step
        BY <1>3, <2>2 DEF Confirm
      <3>2. PhasesLeft(phase') < PhasesLeft(phase)
        BY <2>1, <3>1 DEF PhasesLeft
      <3>3. 0 \in 0..(NumOfAttempts - 1)
        BY ProvisioningAssumption, SMT
      <3> QED
        BY <2>1, <2>2, <3>1, <3>2, <3>3 DEF Nearer, Route, Waiting
    <2>3. CASE step \notin {"CreateMultisig", "CreateToken"}
      BY <1>3, <2>1, <2>3, AdvanceMoves DEF Confirm
    <2> QED
      BY <2>2, <2>3
  <1>4. CASE Found
    <2>1. /\ step \in {"CreateMultisig", "CreateToken"} /\ step \in Transactions
          /\ UNCHANGED <<run, args>>
      BY <1>4 DEF Found, Route, Transactions
    <2>2. CASE step = "CreateMultisig" /\ phase = "poll"
      <3>1. phase' = "check" /\ attempts' = 0 /\ step' = step
        BY <1>4, <2>2 DEF Found
      <3>2. PhasesLeft(phase') < PhasesLeft(phase)
        BY <2>2, <3>1 DEF PhasesLeft
      <3>3. 0 \in 0..(NumOfAttempts - 1)
        BY ProvisioningAssumption, SMT
      <3> QED
        BY <2>1, <3>1, <3>2, <3>3 DEF Nearer, Route, Waiting
    <2>3. Advance \/ (phase' = "ended" /\ attempts' = attempts)
          \/ (step = "CreateMultisig" /\ phase = "poll")
      BY <1>4 DEF Found
    <2> QED
      BY <1>1, <2>1, <2>2, <2>3, AdvanceMoves
  <1>5. CASE Missed
    <2>1. phase \in {"poll", "check"} /\ UNCHANGED <<run, args, step>>
      BY <1>5 DEF Missed
    <2>2. CASE attempts + 1 = NumOfAttempts
      BY <1>1, <1>5, <2>2 DEF Missed
    <2>3. CASE attempts + 1 # NumOfAttempts
      <3>1. attempts' = attempts + 1 /\ phase' = phase
        BY <1>5, <2>3 DEF Missed
      <3>2. PICK n : n = attempts + 1
        OBVIOUS
      <3>3. n \in 0..(NumOfAttempts - 1) /\ n < NumOfAttempts
        BY <2>3, <3>2, ProvisioningAssumption, SMT DEF Route
      <3> QED
        BY <2>1, <3>1, <3>2, <3>3 DEF Nearer, Route, Waiting
    <2> QED
      BY <2>2, <2>3
  <1> QED
    BY <1>1, <1>2, <1>3, <1>4, <1>5 DEF Script, Reject, End, Output

\* What anyone else does leaves the run where it is, and its transaction goes only
\* with an outcome.
LEMMA RunMoves ==
    ASSUME Route, Waiting, [Next]_vars
    PROVE  /\ Running => Nearer \/ UNCHANGED <<run, args, step, phase, attempts>>
           /\ Route' /\ Waiting'
  <1>1. CASE Script
    BY <1>1, ScriptMoves
  <1>2. CASE Break
    BY <1>2 DEF Break, End, Nearer, Running, Route, Waiting
  <1>3. CASE \E a \in Args : Start(a)
    BY <1>3 DEF Start, Route, Waiting
  <1>4. ASSUME NEW tx \in inflight, NEW result \in {"ok", "error", "expired"}, Settle(tx, result)
        PROVE  UNCHANGED <<run, args, step, phase, attempts>> /\ Route' /\ Waiting'
    <2>1. UNCHANGED <<run, args, step, phase, attempts>>
      BY <1>4 DEF Settle
    <2>2. CurrentTx' = CurrentTx /\ result # None
      BY <1>4, <2>1, ProvisioningAssumption DEF CurrentTx
    <2>3. Waiting'
      BY <1>4, <2>1, <2>2 DEF Settle, Waiting, Running
    <2> QED
      BY <2>1, <2>3 DEF Route
  <1>5. ASSUME NEW tx \in inflight, Execute(tx) \/ Fail(tx)
        PROVE  \E result \in {"ok", "error", "expired"} : Settle(tx, result)
    BY <1>5 DEF Execute, Fail
  <1>6. CASE (\E wallet \in {Deployer, Someone} : CreateSquads(wallet)) \/ UNCHANGED vars
    BY <1>6 DEF CreateSquads, vars, scriptVars, chainVars, Route, Waiting, CurrentTx
  <1> QED
    BY <1>1, <1>2, <1>3, <1>4, <1>5, <1>6 DEF Next, Start, Running

\* A run cannot loop or wait for nothing: every step of the script brings it nearer
\* to its end, nobody else throws it back, and while it waits its transaction is
\* under way or its outcome known.  With the fairness of Spec this is why RunsEnd
\* holds.
THEOREM RunsGetOn ==
    Spec => /\ []Waiting
            /\ [][Script => Nearer]_vars
            /\ [][Running => Nearer \/ UNCHANGED <<run, args, step, phase, attempts>>]_vars
  <1>1. Init => Route /\ Waiting
    BY ProvisioningAssumption, SMT DEF Init, Route, Waiting
  <1>2. Route /\ Waiting /\ [Next]_vars => (Route /\ Waiting)'
    BY RunMoves
  <1>3. Route /\ Waiting /\ [Next]_vars
          => [/\ Script => Nearer
              /\ Running => Nearer \/ UNCHANGED <<run, args, step, phase, attempts>>]_vars
    BY RunMoves, ScriptMoves
  <1>4. Spec => [](Route /\ Waiting)
    BY <1>1, <1>2, PTL DEF Spec
  <1> QED
    BY <1>3, <1>4, PTL DEF Spec
=============================================================================
