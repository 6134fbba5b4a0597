# TLA+ verification of MORSOL

MORSOL makes the MOR token an omnichain fungible token between Solana and EVM
chains over LayerZero. This directory holds TLA+ modules of its programs, the
TLC configurations that check them on small instances, and TLAPS proofs of what
matters most for every instance.

## The system

| Part | Source | State it keeps | Operations |
| --- | --- | --- | --- |
| `moroft` program (Solana) | `programs/moroft/src` | `OFTStore` (type, rate, `tvl_ld`, admin, fee, pause and its roles), one `PeerConfig` per remote chain (address, options, two rate limiters, fee) | `init_oft`, `set_oft_config`, `set_pause`, `set_peer_config`, `withdraw_fee`, `send`, `lz_receive`; read only: `quote_oft`, `quote_send`, `lz_receive_types` |
| Amount arithmetic | `state/oft.rs`, `instructions/quote_send.rs` | none | shared and local decimals, cross-chain fee, Token-2022 transfer fee and its inverse |
| Rate limiters | `state/peer_config.rs` | capacity, tokens, rate, time of the last refill | `refill`, `try_consume`, `set_rate`, `set_capacity` |
| Message codecs | `msg_codec.rs`, `compose_msg_codec.rs` | none | encode and decode at fixed offsets |
| `MOROFT` (EVM) | `contracts/MOROFT.sol`, `deploy/deploy.ts` | ERC-20 balances and allowances, minters, owner; OApp peer | `mint`, `burn`, `burnFrom`, `updateMinter`; inherited: `approve`, `transferOwnership`, `setPeer`, `send`, `lzReceive` |
| Deployment | `utils/solana/oft/createOFT.ts`, `utils/solana/multisig`, `utils/solana/squads` | the mint's authorities, multisig, OFT store, `OFT.json` | four transactions in a row with polling and retries; `create-squads` writes the same file |
| Clients | `utils/solana/oft/sendOFT.ts`, `utils/evm/sendSepoliaOFT.ts`, `utils/solana/infrastructure` | none; a call knows what it has read | quote, look up, price, simulate, submit, wait |
| Wiring | `tasks/common/wire.ts`, `layerzero.config.ts` | on chain: the configuration of each pathway, pending proposals of a multisig | `init`, `wire`, transfer of ownership, each compare, sign, send |
| Configuration report | `tasks/common/getConfig.ts` | one object shared by all tasks of a report | two reads and one write per pathway |
| Build and key scripts | `tasks/solana/infrastructure`, `hardhat.config.ts` | none | shell commands, text replacement |

Interactions: a client quotes and sends; `send` takes tokens and hands a packet
to the LayerZero endpoint; verifiers commit the packet on the other chain; an
executor asks `lz_receive_types` which accounts to pass and runs `lz_receive`,
which has the endpoint clear the payload, gives tokens to the recipient and may
leave a compose message. Admin, delegate, pauser and unpauser reconfigure at any
time in between. Token program, endpoint and clock are not in the repository;
they are modelled from how the code uses them and marked external in the map.

What is hard about it:

* instructions of many parties interleave with changes of fees, limits, peers,
  roles and the pause, and packets wait in between, executed in any order;
* the mint's transfer fee changes with the epoch, between quote, send, verification
  and execution;
* the fees in the escrow have no counter of their own: they are whatever is
  there beyond `tvl_ld`;
* fees and decimals are rounded three times in a row, in different directions;
* buckets are refilled lazily, with reconfigurations between two refills;
* the deployment is several transactions that can fail one by one;
* a client reads five things in five awaits before it acts on them;
* the two ends of the bridge count in units of their own and never look at
  each other;
* wiring is many transactions by different signers, some of them put to a vote
  and executed after the file they come from has been edited.

What makes each part correct: *arithmetic*: never charge more than asked, put
into the escrow exactly what is promised, lose nothing on the wire, be monotone;
*program*: locked value is backed, books agree, a packet pays once, announced
amounts are credited amounts, a pause stops everything, the sender's minimum
holds; *limiters*: never more through than a leaky bucket lets; *codecs*: what
is encoded is what is decoded; *EVM and bridge*: the tokens on all chains
together are conserved; *deployment*: a finished run leaves the authorities it
announced, a failed one can be rerun; *clients*: a call takes a fair deal or
none, and what it says is what happened; *wiring*: a task that finishes has left
nothing open, and repeating it brings everything to what the file says; *report*:
no pathway is missing.

## Modules

| Module | Models | Checked by |
| --- | --- | --- |
| `OFTMath` | the arithmetic, as operators named after the functions | `OFTQuote`, `OFT` |
| `OFTQuote` | `quote_oft`: fixed terms, then larger and larger amounts | run `quote` |
| `RateLimiter` | the token bucket and its reconfiguration, as operators | `PeerLimits`, `OFT` |
| `LeakyBucket` | abstract: what a rate limit promises, bound to the seconds that pass and to the traffic, without timestamps and lazy refills | refined by `PeerLimits` |
| `PeerLimits` | both limiters of one peer, the clock, and what went out less what came in (history) | `MeteredLimits`; refined by `OFT` for each peer |
| `MeteredLimits` | a meter beside `PeerLimits`: what one limiter lets through in a stretch of time (history) | run `limits` |
| `OFT` | the whole program, one action per instruction or configuration parameter, with token program, endpoint and clock around it | runs `accounting`, `peers` |
| `LzExecutor` | `lz_receive_types` and whoever executes packets with its answers, above `OFT` | run `executor` |
| `ByteFields`, `MsgCodec`, `ComposeMsgCodec` | both message formats, offsets included | `Messages` |
| `Messages` | one message: priced, sent, received, composed | run `messages` |
| `Provisioning` | `createOFT`: the script, its transactions, runs that break off and are repeated; `create-squads` | runs `deployment`, `only_oft_store` |
| `OmnichainLedger` | abstract: one ledger of MOR over all chains | refined by `Bridge` |
| `MOROFT` | the EVM contract, its base contracts as it uses them, and the EVM send script | `Bridge` |
| `Bridge` | `OFT` and `MOROFT` with packets between them | runs `bridge`, `evm_amount_unit` |
| `ComputeUnits` | the price a script offers for its compute units, as operators | `ClientSend` |
| `ClientSend` | the Solana send task, await by await, above `OFT` | run `client` |
| `ConfigReport` | `getConfig.ts`: asynchronous tasks and their shared object | `Wiring` |
| `Wiring` | `wire.ts`: its three tasks, signers, proposals and edits of the file | run `wiring` |
| `OFTMathProofs`, `QuoteAndLimitsProofs`, `OFTProofs`, `MessagesProofs`, `BridgeProofs`, `ProvisioningProofs`, `WiringProofs`, `ClientSendProofs` | theorems and proofs | TLAPS |

`OFT` extends `RateLimiter`, which extends `OFTMath`; `LzExecutor`, `Bridge` and
`ClientSend` extend `OFT`, so that every step of the program may come between
theirs. `Bridge` instantiates `MOROFT`; `Wiring` extends `ConfigReport`.
`Messages` instantiates both codecs, because they use the same names. The `MC`
modules define the values the configurations need. Definitions named
"Mutant of ..." stand beside the definition they spoil: they document which
mistake each property would catch and are used by nothing else.

### State and actions of `OFT`

| Variable | In the code |
| --- | --- |
| `oft_store` | the `OFTStore` account, `None` before `init_oft` |
| `peer[eid]` | the `PeerConfig` account, `None` before the first `set_peer_config` |
| `balance`, `escrow`, `supply`, `mint_authority`, `transfer_fee` | token accounts, the escrow account, the mint and its fee of the epoch |
| `delegate`, `sent`, `inbox` | the endpoint: the OApp's delegate, packets sent, packets verified and not cleared |
| `now` | `Clock::get().unix_timestamp` |
| `received`, `credited`, `out_sd`, `in_sd`, `fees_ld`, `minted_ld` | history, read by properties only |

A Solana transaction is atomic and takes effect only if it succeeds, so each
instruction is one action; `require!`, account constraints, and checked u64
arithmetic (`overflow-checks = true` in `Cargo.toml`) are its guards. The admin
check is `signer = oft_store.admin`; every key may try to sign. `withdraw_fee`
may take any amount the check admits, to any user.

The environment: `Verify` adds a packet from any remote address, peer or not,
with any amount; `NewEpoch` changes the transfer fee; `Donate` transfers tokens
to the escrow; `MintByOther` mints by the deployer or another signer of the
1-of-n multisig; `HandOverMint` is the last step of `createOFT`, or a later change
of the mint's authority, to one of `NewAuthorities` (`None`: given up); `Tick` passes
a second. Left out: other transfers between users (they change no account of the
program), and lamports. An endpoint keeps no nonce for the zero address, so
`send` needs a peer address.

### State and actions of `LzExecutor`

`plan[packet]` is what the executor holds of `lz_receive_types`' answer while its
transaction is under way: the two accounts of the answer that are not fixed by
the packet. `Plan` asks, `Execute` is `lz_receive` with these accounts, `Drop` is a
failed or expired transaction, `Others` is any step of `OFT`, other executors
included. `Accepts` holds the constraints of `lz_receive` on the accounts.

### State and actions of `Messages`

`params` is what the user wants; `priced` the length `quote_send` hands to the
endpoint; `wire`, `packet`, `composed` and `read` are the message and what each
receiver makes of it. A byte is a pair of a value and an index, so that reading
at a wrong offset yields `None` and not some other value by chance.

### State and actions of `Provisioning`

| Variable | In the code |
| --- | --- |
| `run`, `args` | a call of `createOFT` and its arguments |
| `step`, `phase` | the `await` it is at: which transaction; building it, waiting in `sendAndConfirm`, in `assertAccountInitialized` (`poll`), in `checkMultisigSigners` (`check`) |
| `outcome`, `attempts` | what the confirmation will report; failed attempts of the poll |
| `inflight`, `refused` | transactions submitted, which outlive the run; history: those executed with an error |
| `multisig`, `mint`, `store` | the accounts, named by the run that made their keys |
| `file`, `saved_by` | `OFT.json`; history |

`Break` ends a run anywhere; its transaction may still be executed, during the
next run. `Execute` and `Fail` are the chain. A transaction that is executed with an
error changes nothing but the history variable `refused`, and `sendAndConfirm`
returns with the error in its `result`. The script never looks at that
(`createOFT.ts:170,206,240`, `multisig.ts:79`), so `Confirm` goes on as after a success; it
throws only for a transaction that expires (`Reject`). New multisigs and mints are
looked up afterwards, so that an error ends the run in the poll; after an error of `InitOft`
or `SetAuthority` the run goes on. What that leads to is part of the properties:
`MintableUnlessRefused` says that an error of `InitOft` loses the mint, for which no store
can ever mint, and that nothing else does; `FileAccounted` says what is wrong with the
file after an error of either, and that it is right otherwise.
`checkMultisigSigners` is modelled, but its refusal never happens: the quorum and
the signers it compares are those of the transaction it has just seen succeed.

`create-squads` (`CreateSquads`) may run at any time once the file exists: it
enters the wallet that has paid for the multisig as `mintAuthority`, although it
does not touch the mint (`utils/solana/squads/createSquadsMultisig.ts:92`). The
history variable `overwritten` records that; `FileAccounted` then speaks of the other
entries only, and of all of them again when a run of `createOFT` has written the
file anew.

### State and actions of `Bridge`

| Variable | In the code |
| --- | --- |
| all of `OFT` | the Solana side |
| `balanceOf`, `allowance`, `totalSupply`, `isMinter`, `owner`, `peers` | state of the contract and its bases |
| `outbox`, `executed` | packets `MOROFT` has handed to its endpoint; packets its endpoint has cleared |
| `issued_wei` | history: minted by minters less burnt by holders |

`OnSolana` is a step of `OFT` in which a packet may be verified only if `MOROFT`
has sent it (`Genuine`); `OnEvm` a call of the contract; `Deliver` executes a packet
of the program on the EVM chain. Peers may be set, taken away and set to a
wrong address on both sides. `Bridge` implements `OmnichainLedger` (`OneLedger`): the
supply of Solana is what is there less `tvl_ld`, transfers in transit are packets
sent and not executed, and each step of either side is a departure, an arrival,
an issue, or a stutter.
`BridgeAssumption` names what the two sides must agree on, since a message
carries shared units: the number of shared decimals, which `init_oft` takes as
an argument and the contract inherits. Nothing on chain compares the two. Its last
conjunct, that the contract's rate is the program's times a power of ten, follows from the
one before it; it is stated because the prover cannot take powers apart.

### State and actions of `ClientSend`

| Variable | In the code |
| --- | --- |
| `call` | the local variables of a run of the send task and the await it is at |
| `native_fee` | the endpoint's price of a message |
| `inflight`, `outcome` | transactions submitted; what the awaited confirmation will report |
| `answer`, `deals`, `refused` | history: how a call ended; what its transaction took and sent; calls whose transaction was executed with an error |

`Quote`, `Build`, `Price`, `Simulated`/`NotSimulated`, `Prompted`, `Submit` and `Await` are the
awaits of `sendOFT.ts` and `addComputeUnitInstructions` in their order. `Others` is
any step of `OFT` between two of them. `WouldPass` is what both the simulation
and the preflight check find out. A call can break off anywhere (`Break`), after which its
transaction may still be executed. An error on chain is reported in the `result` of
`sendAndConfirm`, which `sendOFT.ts:113` does not look at: the call says that it has sent
(`Confirmed`), and only an expired transaction makes it throw (`Rejected`). `refused` names the
calls with such a transaction, and `AnswerAccounted` says that an answer is wrong
for them and for no others.

### State and actions of `Wiring`

| Variable | In the code |
| --- | --- |
| `onchain`, `wanted` | the version of `layerzero.config.ts` a pathway is configured with; that of the file |
| `admin`, `initialised` | who may configure the store on Solana; Solana pathways with accounts of the endpoint |
| `task` | the task that runs, its arguments, and the transactions it has left |
| `proposals` | transactions put to the vote of the Squads members |
| `report`, `got`, `ended`, `configs` | a report, what its tasks have read, and the object they share |

A task is `Start`, `Configure`, `Sign` per transaction and `Finish`, or ends with
`Refused`. `Signer` is the factory of `wire.ts`: proposer, wallet or a random key.
`ExecuteProposal` may come at any later time, when the file has been edited or the
next task runs. `Read` and `Write` are the two awaits of a report's task and what it
does after them without another. The task that `wire.ts` overrides belongs to a
library and is modelled from the arguments it is given.

## Runs

| Run | Instance | Shows |
| --- | --- | --- |
| `quote` | all amounts to 45, a whole is 10 basis points, rates 1, 2, 5, 10; peer fees absent, 0, 10, 90 %; transfer fees 0, 10, 50, 90, 100 % with caps 0, 1, 4, none | `SentAtMostAsked`, `EscrowGetsQuote`, `SentIsLeast`, `FeeDetailsAddUp`, `NothingLostOnTheWire`, and over neighbouring amounts `MoreAskedMoreDelivered` |
| `limits` | amounts to 5, three seconds, traffic out of balance by 3 at most, all combinations of rate 1, 3 or unchanged and capacity 0, 3 or unchanged, or no limit; a meter that starts at any moment | `WindowKept`: what a limiter lets through in a stretch of time; `OutboundPromise`, `InboundPromise`: each limiter refines `LeakyBucket`, with the clock and the traffic for its seconds and its net amount |
| `accounting` | one user with 6 units, u64 to 8, rate 2, a default or peer fee of 0 or 50 %, transfer fee none or 50 % capped at 2, two packets out and two in | `TypeOK`, `TvlBacked`, `EscrowAccounted`, `TvlIsOutstanding`, `SupplyAccounted`, `PaidOnce`, `AnnouncedIsCredited`, `TermsHonoured` |
| `peers` | two keys trading the role of admin, one of them pauser, a peer wired, unwired and limited, one second; one packet out, one in, of 2 units or beyond u64; decimals that give rate 2 and decimals that are invalid | `PeersKeepLimits`: every step of the program is a step of `PeerLimits` for each peer, with the packets as its traffic; `PauseFreezes` |
| `messages` | two wallets, amounts, nonces and chains; no compose message, an empty one, one of 1 and one of 33 bytes | `DeliveredAsSent`, `ComposerLearnsSender`, `PricedIsSent` |
| `executor` | one user with 4 units, rate 2, two packets in, compose or not, transfer fee none or 50 %, authority handed to the store or given up | `ExecutorTypeOK`, `AnswersFit` (`lz_receive_types` never names accounts that `lz_receive` would refuse at that moment), `PayableIsPaid` (liveness) |
| `deployment` | two runs and any number of `create-squads`, with and without additional minters, `--mint`, `--only-oft-store`; two attempts per poll; any transaction may fail on chain or expire | `TypeOK`, `MintableUnlessRefused`, `FileAccounted`, `RunsEnd` (liveness) |
| `only_oft_store` | as the hardhat task calls it, always with a list of minters | expected violation of `OnlyStoreMints`, see below |
| `bridge` | a user with 4 units, rates 2 and 4, two packets each way, either OFT type, right and wrong peers, a minter | `OneLedger` (refinement of `OmnichainLedger`), `MorConserved` (all MOR there is, on both chains and in the mail, adds up), `ReturnsCovered` (an Adapter can pay all that is on its way back), `AskedArrives` (the EVM script sends what it was asked for) |
| `evm_amount_unit` | the same | expected violation of `AskedIsWei`, see below |
| `client` | two calls, amounts 3 and 4, fees of 0 and 50 %, transfer fees of 0 and 50 %, two prices, two peers | `FairDeal`, `AnswerAccounted`, `PriceIsRecent`, `CallsEnd` (liveness) |
| `wiring` | three pathways, two of them from the same chain, two versions of the file, wallet or multisig as admin, all mixes of arguments | `ReportComplete`, `FinishedIsWired`, `WiredInTheEnd` (liveness) |

The bounds are `MaxU64` (u64::MAX), `MaxSent`, `MaxVerified`, `MaxTime`, `MaxRuns`,
`NumOfAttempts`, `MaxEvmSupply`, `MaxOutbox`, `MaxCalls`, `MaxVersion`, `MaxBack` and `MaxNet`. Scaling down u64::MAX and the ten thousand basis points keeps every branch:
capped and uncapped fees, exact and rounded quotients, the 100 % rate,
saturation and overflow all occur within the ranges. Two packets each way are
enough for a second packet to meet what the first one left and for one of two
to be executed under another fee, in the opposite order, or not at all. What
the bounds leave open for the accounting is closed by the proofs, which have
no bounds. Two runs of the script are the least in which a late transaction of one
meets the next, and `--mint` names a mint of an earlier run; three runs pass too,
in a minute. Ten attempts of a poll, or three of a simulation, differ from two
in length only. On the bridge, two packets of each side suffice for one to
overtake another, and for one to be left behind by a change of peers.
`MaxEvmSupply` lets one issue and all returns happen. Two calls of the send task are
the least in which a late transaction of one meets the next; two versions of the
wiring file the least in which a proposal is out of date.
The program's own sends are switched off in `client` (`MaxSent = 0`): the calls send;
`ProgramHoldsForClients` says that the program's own theorems hold of them too.
`MaxBack` bounds how far below zero the meter of `MeteredLimits` runs, as a limiter that
earns and is not used makes it run; before it would, a new stretch begins. Two below zero
are enough to be wrong afterwards, since a limiter has forgotten by then what it had earned
beyond its capacity; `WindowAlwaysKept` holds for every `MaxBack`. `MaxNet` bounds how far
the traffic is out of balance, since without a limit it could be so without end; 3 is the capacity
of the limits of the run, enough to fill a bucket and to empty it. The theorems about
`PeerLimits` have no such bound.

Deadlock is not checked in any of the runs: each has a bounded number of steps
(amounts, packets or seconds run out), and a program that waits for
instructions may stop at any time.

### Fairness

`OFT`, `MeteredLimits`, `OFTQuote`, `Bridge` and `Messages` have none: the program only answers.

`ExecutorSpec` assumes of each packet that the executor asks again after a failed
attempt (weak fairness of `Plan`), that no attempt lasts for ever, because a
transaction expires with its blockhash (weak fairness of its end), and that of
infinitely many attempts that could pass one does (strong fairness of `Execute`:
between attempts, and under a stale plan, it is disabled). Nothing is assumed
of the admin, the pauser, the clock or other executors. `PayableIsPaid` says that
no verified packet stays payable for ever; a packet that is blocked again and
again is not promised more than that. Its premise is that the transfer fee
settles: an answer contains an amount computed with the fee of its epoch.

`ClientSpec`: a call goes on unless it breaks off, and each transaction is executed,
fails or expires. `Wiring`: a task and a report go on; the members execute each
proposal at last (weak fairness); a transaction that is tried again and again
with the right signer passes at last (strong fairness: the attempts are separate
runs of the task, any of which may be refused). Nobody has to start a task:
`WiredInTheEnd` has the premise that the operator goes on running the one that
fits.

`Provisioning`'s script goes on unless it breaks off, and each transaction is
executed, refused or expires. Nobody has to start a run.

### Findings

`evm_amount_unit`. The EVM send task describes its amount as "Amount to send in
wei" (`tasks/evm/send.ts:9`); the script parses it with nine decimals
(`utils/evm/sendSepoliaOFT.ts:20`), so that one unit of it is ten to the ninth wei, a
unit of the token on Solana. In the counterexample a holder asks for 2 and sends
twice as much, a unit of the script being 2 wei in this instance. What the code
does is consistent by itself: `AskedArrives` says so.

`only_oft_store`. The prompt of `--only-oft-store` says "only the OFT Store will
be able to mint new tokens" (`utils/solana/oft/createOFT.ts:98`). The flag renounces
the freeze authority only; whether the mint goes to the store or to a 1-of-n
multisig depends on the list of additional minters, and the hardhat task always
passes one, with the Squads vault in it. TLC's counterexample is one run to its
end: the mint's authority is a multisig whose signers are the store and the
vault, each of which can mint alone.

## Proofs

TLAPS proves these for all values of the constants that satisfy the named
assumptions: types of the constants, finiteness of users, accounts and chains, and
that `None` is none of the other values; for the bridge also `BridgeAssumption`, see
above. No theorem bounds amounts, packets, seconds, calls or versions.

* `OFTMathProofs`. `PreFeeInverts`: for every rate from 0 to 100 % and every cap,
  `calculate_pre_fee_amount` returns the least amount of which the transfer fee
  leaves the wanted one. It rests on `KeptIff` and `KeptExact`: of an amount a
  at rate b out of M, at least y is left exactly from ceil(yM / (M - b)) on, and
  of that first amount exactly y. Division is reduced to `DivMod`, `DivUnique`
  and `MultipleGap`. `AdapterAmountsCorrect`, `NativeAmountsCorrect` and
  `AmountsCorrect` put the pieces together for `compute_fee_and_adjust_amount`.
  `AmountsMonotone`: more asked is never less sent or delivered. Each rounding is
  shown to be monotone by itself (`DustMonotone`, `PostFeeMonotone`); what a fee
  leaves, because it grows by less than the amount does and, of amounts
  without dust, the difference has none either (`AfterFeeMonotone`).
  Its last part is about sums over finite sets. `MapThenSumSet` is a recursion over
  subsets, and induction cannot be cited; but the subsets of a finite set are well
  founded (`LeastSubset`), so that of a wrong claim about sums there is a least
  counterexample, and taking one element out of it leads to a contradiction. That gives
  `SumsExist` and `SumsUnique`, that the order does not matter (`SumsAnyOrder`), and
  what the other modules use: `SumOfChange`, `SumOfAdd`, `SumOfSplit`, `SumOfPart`, `SumOfScaled`,
  `SumOfConstant`, `SumOfBelow` and, of averages, `MeanIsBetween`.
* `QuoteAndLimitsProofs`, first part. All invariants of the run `quote`, from the invariant that a
  quote belongs to its terms and amount; `QuoteTypeCorrect`, that every component of a quote is a
  u64, so that no u64 operation on the way to it can abort; and `MoreAskedMoreDelivered`.
* `ProvisioningProofs`. Types, `MintableUnlessRefused` and `FileAccounted` for any number of
  runs, whichever transactions fail. The invariant adds what a run has achieved before the step it is at
  (`ScriptInv`), what a confirmation proves (`OutcomeInv`), what a transaction in
  flight will find when it arrives, however late (`InflightInv`), that a multisig
  includes its store (`SignersInv`), and that the file was written by a run whose
  transactions are settled, so that no later one can undo them (`FileInv`).
  `OnceInv` makes an error final: of a run there is one transaction of a kind at most, and it is ahead,
  under way, refused, or done. So `ScriptInv` and `OutcomeInv` may say of a step behind that it is
  settled: refused or done (`StoreSettled`, `HandOverSettled`). `MintInv` says of a mint that has left
  the deployer that its `InitOft` was settled before. `RunsGetOn` is the
  safety half of `RunsEnd`. Every step of the script brings the run nearer to its end, counted in
  transactions, then in what is left to do about one, then in attempts; nobody else throws it back;
  and a run that waits knows its outcome or has its transaction under way (`Waiting`).
* `OFTProofs`. The inductive invariant

      IInv == TypeOK /\ PacketsFinite /\ FreshInv
              /\ EscrowAccounted /\ TvlIsOutstanding /\ SupplyAccounted

  `TvlBacked` is not inductive: that a withdrawal leaves enough follows only if
  the surplus is known to be the fees (`EscrowAccounted`), and the type of
  `fees_ld` follows from the check in `withdraw_fee` only through that equation.
  `FreshInv` says what holds before `init_oft`; `PacketsFinite` makes nonces
  numbers. One lemma per action shows that it keeps `IInv`; `send` and
  `lz_receive` split into the two OFT types and use `AmountsCorrect`. The
  theorems `TypeCorrect`, `TvlAlwaysBacked`, `EscrowAlwaysAccounted`,
  `TvlAlwaysOutstanding` and `SupplyAlwaysAccounted` follow. What they take from `IInv`, and
  what the other theorems take from one step, are lemmas of their own (`BooksAgree`,
  `FrozenStep`, `SendTerms`, `SendLimits`, `PaidAndAnnounced`), because modules above `OFT` rest on them.
  On the same invariant, `WhoMoves` sorts the steps: only `send` and
  `lz_receive` touch packets, credits and `tvl_ld`, and no step changes the rate.
  `PauseAlwaysFreezes` follows, since both need an open store. `TermsAlwaysHonoured` needs `TermsInv`:
  a packet keeps its worth because the rate is set once, before all packets.
  `NeverPaidAgain` needs `NonceInv`: a nonce is at most the number of the packets of
  its pathway, so that `Verify` never repeats one. The new event of `lz_receive` is
  therefore not in `received` yet, and adds its amount to both sums: `PaidInv`, and with
  it `AlwaysPaidOnce` and `AnnouncedAlwaysCredited`. `PeersAlwaysKeepLimits` shows every
  step of the program to be a step of `PeerLimits`, instantiated once for each peer, with the
  packets sent to it less those paid out from it for `net_out`. `TrafficInv` (nonces tell packets apart)
  is what makes a send or a payout add exactly its own amount to these sums, so that one which did not move
  the limiters would be no step of `PeerLimits` and no stutter.
* `QuoteAndLimitsProofs`, second part. Types, and that each limiter implements `LeakyBucket`
  (`OutboundKeepsPromise`, `InboundKeepsPromise`). The level of the abstract bucket is the
  capacity less what a refill would make of the tokens *now*. `RefillValue` shows that
  the saturating arithmetic of `refill` does not show in it, because the capacity cuts
  off more; `EarnedTick` that a second of waiting drains the bucket by the rate, and not below 0.
  Then one lemma per kind of step. `WindowAlwaysKept` is what a reader of a rate limit would
  want to know: in any stretch of time, no more passes than the capacity, what was earned and
  what came back. `WindowKept` is not inductive: the invariant (`MeterInv`) is that the excess
  of the meter is at most the level of the abstract bucket, and the level at most the capacity.
  A step that raises the meter raises the level as much; one that lowers the level, because time passes or
  tokens come back, lowers the meter at least as much, since a bucket that is empty drains no further.
  `RateAloneCloses`: a first rate without a capacity makes a limiter that lets nothing above 0
  through, and a limiter of capacity 0 stays so until a capacity is set.
* `MessagesProofs`. `AlwaysDeliveredAsSent`, `ComposerAlwaysLearnsSender` and
  `AlwaysPricedAsSent`, for values and texts of any number and length. A message is
  a concatenation of fields; `MiddleSlice` and `EndSlice` say what a slice of one is, and
  `MessageRead` and `ComposeRead` apply them at the offsets of the two codecs.
  `MessageInv` says of each stage of the message what the stage before made of it.
* `BridgeProofs`. `ReturnsAlwaysCovered`, `MorAlwaysConserved`, `AskedAlwaysArrives` and `BridgeIsOneLedger`, from

      BridgeInv == IInv /\ NonceInv /\ SentInv /\ CoveredInv
                   /\ RateInv /\ ContractInv /\ MailInv

  `CoveredInv` (users and escrow hold no more than the supply) is what makes a burn or a
  lock possible; `SentInv` that packets sent have ids of their own and add up to
  `out_sd`; `RateInv` that the store has the agreed rate; `ContractInv` the books of
  `MOROFT` (accounts add up to the supply; supply and burnt is issued and minted; nonces number
  the outbox); `MailInv` that what the program has heard of was sent, and that what was paid and
  what is on its way add up to what was sent to the store.
  `ReturnsAlwaysCovered` adds the last two up: what is on its way cannot exceed
  `tvl_ld` unless more was burnt than ever arrived. `AskedAlwaysArrives` is
  arithmetic of three rates (`NineTenths`), for the packet that the script's send adds.
  For the refinement, `SolanaCirculates` gives the supply outside the escrow's
  locked value from `out_sd` and `in_sd` for either OFT type; each step of `Bridge` then
  `Departs`, `Arrives`, `Issues` or stutters (`LedgerMoves`, `LedgerStep`), with the state functions
  `Circulating`, `IssuedOn`, `Transit` and `Arrived` for the ledger's variables. That a transfer
  departs with a new id, and arrives once, is `SentInv`, `NonceInv` and `OutboxNonces`; from
  `LedgerMoves` also `TransfersSettleOnce`: ids in transit are different, no transfer is lost, and
  what has arrived does not leave again. `MorAlwaysConserved` adds up: what is on its way
  is what was sent on either side less what was executed on the other (`AmountsTotal`,
  `OnTheWayIsSentAndNotArrived`), and `UnitsBalance` is the arithmetic of the three units in
  which the books of the program, of the contract and of the messages are kept.
  `BridgeRunsProgram` and `ExecutorRunsProgram`: on Solana, what happens on the bridge
  or with executors is an execution of `OFT`'s `Spec`, so that all theorems about it hold there.
  The module's last section is about `LzExecutor`: `ExecutorTypeCorrect`, since a
  packet once verified stays known (`KnownStays`); and `AnswersAlwaysFit`, which says
  of each step that pays a packet what `AnswersFit` says of each state in which
  such a step is `ENABLED`. The lemma under it, `PaidFits`, is about any step from a
  state of `IInv`, reachable or not, and so amounts to `AnswersFit`. `PlansStayFit` is a safety half of
  `PayableIsPaid`: accounts that fit go stale only with the transfer fee or the mint's
  authority, because all else in an answer is fixed at `init_oft` (`StoreKept`).
* `WiringProofs`. `ReportAlwaysComplete` and `WireFinishesWired`, for any chains and pathways. `WiringInv`
  says of a report that entries of ended tasks are kept while others write
  under the same chain, and that a later phase finds the tasks of the
  earlier ended; of a running task that what is not in its queue is done. `OnlyLeftoversUnwire`
  is the safety half of `WiredInTheEnd`: between two edits of the file, a pathway that is wired is
  undone only by a proposal of an older version, and once no task of an older version runs
  nobody makes more of these.
* `ClientSendProofs`. `DealAlwaysFair`, `AnswerAlwaysAccounted` and `PriceAlwaysRecent`. `ClientInv` joins `IInv` of the program
  with what the call knows: a transaction under way is the only one of its call
  and has not done anything (`InflightInv`), a call has done nothing before it submits and
  learns what was done (`RunInv`), a packet sent is new (`SentNonces`) and belongs
  to a deal at the terms of its call (`DealInv`). `InflightInv` and `RunInv` also say that a
  call whose transaction was refused has no deal and none under way. `PriceAlwaysRecent` adds
  `PriceInv` (from its phase on, the price is that of samples of the RPC) and
  `PriceIsBetween`: some non-zero fee is not above the mean and some is not below it.
  The task's sends are not steps of `OFT`'s `Next`, whose minimum amounts are a constant:
  `ProgramHoldsForClients` and `ClientsKeepPauseAndLimits` prove of `ClientSpec` what
  `OFTProofs` proves of `Spec`. `WhoCalls` sorts the steps into those of the program and sends of the task
  (`ExecuteIsSend`), and the lemmas of `OFTProofs` take any minimum. `CallsGetOn` is the safety half of
  `CallsEnd`, as `RunsGetOn` is that of `RunsEnd`.

Every invariant and every action property of the passing runs is proved, but for one:
`AnswersFit` contains `ENABLED`, which the prover does not know; `AnswersAlwaysFit` says the
same of actions. Left to TLC is also liveness under fairness (`PayableIsPaid`, `RunsEnd`,
`CallsEnd`, `WiredInTheEnd`); the safety half of each is proved (`PlansStayFit` with `AnswersAlwaysFit`, `RunsGetOn`,
`CallsGetOn`, `OnlyLeftoversUnwire`): that what is done comes nearer to the end, and what can
undo it. No theorem has a premise beyond the named assumptions on the constants.

## Not modelled

Addresses and seeds of accounts (each account is a variable), lamports and rent,
event formats, `oft_version`. The bytes of addresses and numbers. The prompts, the
estimates of priority fees and the deployer's metadata in `createOFT`. Of Squads:
the program's own accounts and `SQUADS.json`; a proposal is there or executed. What
the configuration of a pathway consists of (peer, options, libraries, DVNs): it
is one version number, since a transaction either writes it or does not. The
transfer of ownership is a task without transactions, because the contracts of
`layerzero.config.ts` name no owner. `supportsInterface` and the constructor's check of
its minter in `MOROFT.sol`. The printed report of fees. Build and key scripts and
`hardhat.config.ts`: shell commands, text replacement and constants, with no
state that anything else reads.

## Plan

What is left, in this order:

1. A third chain in `Bridge`: MOR that goes from one EVM chain to another past
   Solana, for which an Adapter has nothing locked.
2. Claims to look at: `STATUS.md` on the threshold of the multisig; the endpoint
   id that `layerzero.config.ts` takes when no environment names one.
3. Proofs: that `LeakyBucket` holds of every peer within `OFT`'s `Spec` in one theorem. It follows from
   `PeersAlwaysKeepLimits`, `OutboundKeepsPromise` and `InboundKeepsPromise`, but their
   composition needs `PeerLimits`' theorems instantiated once for each peer.
