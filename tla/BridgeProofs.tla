---------------------------- MODULE BridgeProofs ----------------------------
(***************************************************************************)
(* Both chains together, for every number of users, packets, decimals and  *)
(* chains: what is on its way is covered, what was asked for arrives, and  *)
(* the bridge implements OmnichainLedger.                                  *)
(* The books of the program come from OFTProofs; those of the contract and *)
(* of the mail between the two are added here.  The last section is about  *)
(* the executor that carries packets into the program.                     *)
(***************************************************************************)
EXTENDS Bridge, LzExecutor, OFTProofs

\* A packet of MOROFT, and what it is worth in shared units.
OutPacket ==
    [nonce : Nat \ {0}, oapp : OApps, to : Users, amount_sd : Nat,
     asked : ClientAmounts \cup {None}]
OutAmounts == [p \in OutPacket |-> p.amount_sd]

\* The packets of MOROFT to one address, and the nonces that number them.
OutTo(packets, oapp) == {p \in packets : p.oapp = oapp}
OutboxNonces ==
    /\ \A p \in outbox : p.nonce <= Cardinality(OutTo(outbox, p.oapp))
    /\ \A p, q \in outbox : p.oapp = q.oapp /\ p.nonce = q.nonce => p = q

\* What send has burnt, and what lzReceive has minted.
BurntWei == evm!EvmRate * SumOf(OutAmounts, outbox)
MintedWei == evm!EvmRate * SumOf(SentAmounts, executed)

\* The books of MOROFT: the accounts hold the supply, and what was minted and not
\* issued has come with packets, or left with them.
ContractInv ==
    /\ balanceOf \in [Accounts -> Nat] /\ totalSupply \in Nat /\ issued_wei \in Int
    /\ peers \in OApps \cup {None}
    /\ outbox \subseteq OutPacket /\ IsFiniteSet(outbox)
    /\ executed \subseteq sent
    /\ totalSupply = SumOf(balanceOf, Accounts)
    /\ totalSupply + BurntWei = issued_wei + MintedWei
    /\ OutboxNonces

\* The packets to the store, and those among them that it has not paid yet.
Returns == {q \in outbox : ToStore(q)}
Unpaid == {q \in outbox : ToStore(q) /\ ~Paid(q)}

\* Whatever the program has heard of was sent, and what it has paid is no longer
\* on its way.
MailInv ==
    /\ \A q \in Known : Genuine(q)
    /\ in_sd + SumOf(OutAmounts, Unpaid) = SumOf(OutAmounts, Returns)

\* The store has the one rate.
RateInv == Initialized => oft_store.ld2sd_rate = RateOf(EvmSharedDecimals)

BridgeInv ==
    /\ IInv /\ NonceInv /\ SentInv /\ CoveredInv
    /\ RateInv /\ ContractInv /\ MailInv

-----------------------------------------------------------------------------
\* MOROFT counts as the other modules do.
LEMMA SameCounting ==
    /\ IsFiniteSet(Accounts)
    /\ \A S : evm!Cardinality(S) = Cardinality(S)
<1>1. evm!IsFiniteSet(Accounts)
    BY BridgeAssumption DEF evm!ContractParameters
<1>2. IsFiniteSet(Accounts)
    BY <1>1 DEF IsFiniteSet, evm!IsFiniteSet
<1>3. ASSUME NEW S PROVE evm!Cardinality(S) = Cardinality(S)
    BY Zenon DEF Cardinality, evm!Cardinality
<1>4. QED
    BY <1>2, <1>3

\* The rates of the two sides.
LEMMA Rates ==
    /\ RateOf(EvmSharedDecimals) \in Nat \ {0} /\ evm!EvmRate \in Nat \ {0}
    /\ EvmBase ^ UnitDecimals \in Nat \ {0}
    /\ evm!EvmRate = RateOf(EvmSharedDecimals) * EvmBase ^ UnitDecimals
<1>1. EvmSharedDecimals \in SharedDecimals
    BY BridgeAssumption
<1>2. RateOf(EvmSharedDecimals) \in Nat \ {0}
    BY <1>1, BridgeAssumption, OFTAssumption
<1>3. QED
    BY <1>2, BridgeAssumption DEF evm!ContractParameters

\* A packet of MOROFT has a natural amount.
LEMMA OutAmount ==
    ASSUME ContractInv
    PROVE  /\ \A p \in outbox : OutAmounts[p] = p.amount_sd /\ OutAmounts[p] \in Nat
           /\ \A S \in SUBSET outbox : IsFiniteSet(S) /\ SumOf(OutAmounts, S) \in Nat
<1>1. \A p \in OutPacket : OutAmounts[p] = p.amount_sd /\ OutAmounts[p] \in Nat
    BY DEF OutAmounts, OutPacket
<1>2. outbox \subseteq OutPacket /\ IsFiniteSet(outbox)
    BY DEF ContractInv
<1>3. ASSUME NEW S \in SUBSET outbox
      PROVE  IsFiniteSet(S) /\ SumOf(OutAmounts, S) \in Nat
    <2>1. IsFiniteSet(S) /\ \A p \in S : OutAmounts[p] \in Nat
        BY <1>1, <1>2, FS_Subset
    <2>2. QED
        BY <2>1, SumOfType
<1>4. QED
    BY <1>1, <1>2, <1>3

\* And so has a packet of the program.
LEMMA SentAmount ==
    ASSUME IInv
    PROVE  /\ \A p \in sent : SentAmounts[p] = p.amount_sd /\ SentAmounts[p] \in Nat
           /\ \A S \in SUBSET sent : IsFiniteSet(S) /\ SumOf(SentAmounts, S) \in Nat
<1>1. sent \subseteq SentPacket /\ IsFiniteSet(sent)
    BY DEF IInv, TypeOK, PacketsFinite
<1>2. \A p \in sent : SentAmounts[p] = p.amount_sd /\ SentAmounts[p] \in Nat
    BY <1>1, MathAssumption, SMT DEF SentAmounts, SentPacket, U64
<1>3. ASSUME NEW S \in SUBSET sent
      PROVE  IsFiniteSet(S) /\ SumOf(SentAmounts, S) \in Nat
    <2>1. IsFiniteSet(S) /\ \A p \in S : SentAmounts[p] \in Nat
        BY <1>1, <1>2, FS_Subset
    <2>2. QED
        BY <2>1, SumOfType
<1>4. QED
    BY <1>2, <1>3

-----------------------------------------------------------------------------
\* Steps of the contract.

\* One account changes by as much as the supply.
Changed(account, new) ==
    /\ balanceOf' = [balanceOf EXCEPT ![account] = new]
    /\ totalSupply' \in Int /\ totalSupply' + balanceOf[account] = totalSupply + new

\* The accounts go on holding the supply.
LEMMA AccountChange ==
    ASSUME ContractInv, NEW account \in Accounts, NEW new \in Nat, Changed(account, new)
    PROVE  /\ balanceOf' \in [Accounts -> Nat] /\ totalSupply' \in Nat
           /\ totalSupply' = SumOf(balanceOf', Accounts)
<1>1. balanceOf \in [Accounts -> Nat] /\ IsFiniteSet(Accounts) /\ totalSupply \in Nat
    BY SameCounting DEF ContractInv
<1>2. balanceOf' \in [Accounts -> Nat]
    BY <1>1 DEF Changed
<1>3. PICK f, g : f = balanceOf /\ g = balanceOf'
    OBVIOUS
<1>4. SameBut(f, g, Accounts, account) /\ g[account] = new
    BY <1>1, <1>2, <1>3 DEF SameBut, Changed
<1>5. /\ SumOf(f, Accounts) \in Nat /\ SumOf(g, Accounts) \in Nat
      /\ SumOf(g, Accounts) + f[account] = SumOf(f, Accounts) + g[account]
    <2>1. IsFiniteSet(Accounts) /\ SameBut(f, g, Accounts, account)
        BY <1>1, <1>4
    <2>2. QED
        BY <2>1, SumOfChange
<1>6. PICK b \in Nat, s \in Nat, t \in Nat :
         /\ b = balanceOf[account] /\ b = f[account]
         /\ s = SumOf(f, Accounts) /\ t = SumOf(g, Accounts) /\ s = totalSupply
    <2>1. totalSupply = SumOf(f, Accounts)
        BY <1>3 DEF ContractInv
    <2>2. balanceOf[account] \in Nat
        BY <1>1
    <2>3. QED
        BY <1>3, <1>5, <2>1, <2>2
<1>7. t + b = s + new
    BY <1>4, <1>5, <1>6
<1>8. PICK n \in Int : n = totalSupply' /\ n + b = s + new
    BY <1>6 DEF Changed
<1>9. n + b = s + new
    BY <1>8
<1>10. n = t
    BY <1>7, <1>9
<1>11. QED
    BY <1>2, <1>3, <1>6, <1>8, <1>10

\* No account holds more than there is.
LEMMA HolderCovered ==
    ASSUME ContractInv, NEW account \in Accounts
    PROVE  balanceOf[account] \in Nat /\ balanceOf[account] <= totalSupply
<1>1. balanceOf \in [Accounts -> Nat] /\ IsFiniteSet(Accounts)
    BY SameCounting DEF ContractInv
<1>2. PICK f : f = balanceOf
    OBVIOUS
<1>3. SameBut(f, f, Accounts, account)
    BY <1>1, <1>2 DEF SameBut
<1>4. f[account] <= SumOf(f, Accounts)
    <2>1. IsFiniteSet(Accounts) /\ SameBut(f, f, Accounts, account)
        BY <1>1, <1>3
    <2>2. QED
        BY <2>1, SumOfChange
<1>5. totalSupply = SumOf(f, Accounts)
    BY <1>2 DEF ContractInv
<1>6. QED
    BY <1>1, <1>2, <1>4, <1>5

\* Whoever issues or destroys: one account and the supply change by as much.
Issued(account, new) ==
    /\ Changed(account, new)
    /\ issued_wei' - issued_wei = totalSupply' - totalSupply /\ issued_wei' \in Int
    /\ UNCHANGED <<peers, outbox, executed>>

\* What a step of the contract's users is.
LEMMA WhoActs ==
    ASSUME ContractInv, OnEvm
    PROVE  \/ /\ UNCHANGED <<balanceOf, totalSupply, outbox, executed, issued_wei>>
              /\ peers' \in OApps \cup {None}
           \/ \E account \in Accounts, new \in Nat : Issued(account, new)
           \/ \E caller \in Accounts, to \in Users, amount \in MintAmounts :
                 evm!Send(caller, to, amount, 0, None)
           \/ \E caller \in Accounts, to \in Users, amount \in ClientAmounts :
                 evm!sendOFTEVM(caller, to, amount)
<1> DEFINE Quiet == /\ UNCHANGED <<balanceOf, totalSupply, outbox, executed, issued_wei>>
                    /\ peers' \in OApps \cup {None}
<1>1. /\ balanceOf \in [Accounts -> Nat] /\ totalSupply \in Nat /\ issued_wei \in Int
      /\ peers \in OApps \cup {None} /\ MintAmounts \subseteq Nat
    BY BridgeAssumption DEF ContractInv, evm!ContractParameters
<1>2. ASSUME NEW caller \in Accounts, evm!Owner(caller) PROVE Quiet
    BY <1>1, <1>2 DEF evm!Owner, evm!updateMinter, evm!transferOwnership, evm!setPeer,
       evm!tokenState, evm!packetState
<1>3. ASSUME NEW account \in Accounts, NEW amount \in MintAmounts, evm!Minted(account, amount),
             issued_wei' = issued_wei + amount, UNCHANGED <<peers, outbox, executed>>
      PROVE  \E new \in Nat : Issued(account, new)
    <2>1. PICK new \in Nat : new = balanceOf[account] + amount
        BY <1>1
    <2>2. Issued(account, new)
        BY <1>1, <1>3, <2>1 DEF Issued, Changed, evm!Minted
    <2>3. QED
        BY <2>2
<1>4. ASSUME NEW account \in Accounts, NEW amount \in MintAmounts, evm!Burnt(account, amount),
             issued_wei' = issued_wei - amount, UNCHANGED <<peers, outbox, executed>>
      PROVE  \E new \in Nat : Issued(account, new)
    <2>1. balanceOf[account] <= totalSupply /\ balanceOf[account] >= amount
        BY <1>4, HolderCovered DEF evm!Burnt
    <2>2. PICK b \in Nat, a \in Nat : b = balanceOf[account] /\ a = amount
        BY <1>1
    <2>3. b - a \in Nat /\ totalSupply - a \in Nat
        BY <1>1, <2>1, <2>2
    <2>4. /\ balanceOf' = [balanceOf EXCEPT ![account] = b - a] /\ totalSupply' = totalSupply - a
          /\ issued_wei' = issued_wei - a
        BY <1>4, <2>2 DEF evm!Burnt
    <2>5. Issued(account, b - a)
        BY <1>1, <1>4, <2>2, <2>3, <2>4 DEF Issued, Changed
    <2>6. QED
        BY <2>3, <2>5
<1>5. ASSUME NEW caller \in Accounts, evm!Holder(caller)
      PROVE  Quiet \/ \E account \in Accounts, new \in Nat : Issued(account, new)
    BY <1>1, <1>3, <1>4, <1>5 DEF evm!Holder, evm!mint, evm!burn, evm!burnFrom, evm!approve,
       evm!roleState, evm!packetState
<1>6. QED
    BY <1>2, <1>5 DEF OnEvm, evm!Sender

-----------------------------------------------------------------------------
\* A new packet of MOROFT: it has the next nonce of its pathway, which no other has.
Posted(o) ==
    /\ o \in OutPacket /\ o \notin outbox /\ outbox' = outbox \cup {o}
    /\ \A q \in outbox : q.oapp = o.oapp => q.nonce # o.nonce

\* What send takes from its caller is what the packet carries, to the unit.
Carried(o, caller) ==
    /\ evm!EvmRate * o.amount_sd <= balanceOf[caller]
    /\ balanceOf' = [balanceOf EXCEPT ![caller] = @ - evm!EvmRate * o.amount_sd]
    /\ totalSupply' = totalSupply - evm!EvmRate * o.amount_sd
    /\ UNCHANGED <<peers, executed, issued_wei>>

\* The dust stays with the caller; the packet carries the rest, in shared units.
LEMMA DebitAmounts ==
    ASSUME NEW amount \in Nat, NEW minimum
    PROVE  /\ evm!DebitView(amount, minimum).sent = evm!EvmRate * (amount \div evm!EvmRate)
           /\ evm!DebitView(amount, minimum).sent \div evm!EvmRate = amount \div evm!EvmRate
           /\ amount \div evm!EvmRate \in Nat
           /\ evm!DebitView(amount, minimum).ok =
                 (evm!DebitView(amount, minimum).sent >= minimum)
<1>1. PICK rate \in Nat \ {0} : rate = evm!EvmRate
    BY Rates
<1>2. amount \div rate \in Nat
    BY DivMod, DivBounds, SMT
<1>3. PICK q \in Nat : q = amount \div rate
    BY <1>2
<1>4. q * rate = rate * q /\ rate * q + 0 = rate * q /\ 0 \in 0..(rate - 1) /\ q \in Int
    BY SMT
<1>5. (rate * q) \div rate = q
    BY <1>4, DivUnique
<1>6. evm!removeDust(amount) = rate * q
    BY <1>1, <1>3, <1>4 DEF evm!removeDust
<1>7. QED
    BY <1>1, <1>3, <1>5, <1>6 DEF evm!DebitView

\* What send does: its packet is new, and all of its amount was burnt.
LEMMA EvmSend ==
    ASSUME ContractInv, NEW caller \in Accounts, NEW to \in Users, NEW amount \in Nat,
           NEW minimum, NEW asked \in ClientAmounts \cup {None},
           evm!Send(caller, to, amount, minimum, asked)
    PROVE  \E o \in outbox' :
               /\ Posted(o) /\ Carried(o, caller) /\ OutboxNonces'
               /\ o.asked = asked /\ o.amount_sd = amount \div evm!EvmRate
               /\ evm!EvmRate * o.amount_sd >= minimum /\ o.oapp = peers /\ o.to = to
<1>1. PICK sd \in Nat : sd = amount \div evm!EvmRate
    BY DebitAmounts
<1>2. /\ evm!DebitView(amount, minimum).sent = evm!EvmRate * sd
      /\ evm!DebitView(amount, minimum).sent \div evm!EvmRate = sd
      /\ evm!EvmRate * sd >= minimum
    BY <1>1, DebitAmounts DEF evm!Send
<1>3. IsFiniteSet(OutTo(outbox, peers))
    BY FS_Subset DEF ContractInv, OutTo
<1>4. PICK n \in Nat : n = Cardinality(OutTo(outbox, peers))
    BY <1>3, FS_CardinalityType
<1>5. peers \in OApps
    BY DEF ContractInv, evm!Send
<1>6. PICK o : o = [nonce |-> n + 1, oapp |-> peers, to |-> to, amount_sd |-> sd, asked |-> asked]
    OBVIOUS
<1>7. outbox' = outbox \cup {o}
    BY <1>2, <1>4, <1>6, SameCounting DEF evm!Send, OutTo
<1>8. /\ o.nonce = n + 1 /\ o.oapp = peers /\ o.to = to /\ o.amount_sd = sd /\ o.asked = asked
    BY <1>6
<1>9. n + 1 \in Nat \ {0}
    BY SMT
<1>10. o \in OutPacket
    BY <1>5, <1>6, <1>9 DEF OutPacket
<1>11. ASSUME NEW q \in outbox, q.oapp = o.oapp PROVE q.nonce <= n /\ q.nonce \in Nat
    <2>1. q \in OutPacket /\ q.nonce <= Cardinality(OutTo(outbox, q.oapp))
        BY DEF ContractInv, OutboxNonces
    <2>2. QED
        BY <1>4, <1>8, <1>11, <2>1 DEF OutPacket
<1>12. ASSUME NEW q \in outbox, q.oapp = o.oapp PROVE q.nonce # o.nonce
    <2>1. q.nonce <= n /\ q.nonce \in Nat
        BY <1>11, <1>12
    <2>2. q.nonce # n + 1
        BY <2>1, SMT
    <2>3. QED
        BY <1>8, <2>2
<1>13. Posted(o)
    BY <1>7, <1>10, <1>12 DEF Posted
<1>14. Carried(o, caller)
    BY <1>2, <1>8 DEF Carried, evm!Send, evm!Burnt, evm!roleState
<1>15. ASSUME NEW q \in outbox' PROVE q.nonce <= Cardinality(OutTo(outbox', q.oapp))
    <2>1. OutTo(outbox', peers) = OutTo(outbox, peers) \cup {o}
        BY <1>7, <1>8 DEF OutTo
    <2>2. o \notin OutTo(outbox, peers)
        BY <1>13 DEF OutTo, Posted
    <2>3. Cardinality(OutTo(outbox', peers)) = n + 1
        BY <1>3, <1>4, <2>1, <2>2, FS_AddElement
    <2>4. CASE q = o
        BY <1>8, <2>3, <2>4, SMT
    <2>5. CASE q \in outbox /\ q.oapp = peers
        <3>1. q.nonce <= n /\ q.nonce \in Nat
            BY <1>8, <1>11, <2>5
        <3>2. q.nonce <= n + 1
            BY <3>1, SMT
        <3>3. QED
            BY <2>3, <2>5, <3>2
    <2>6. CASE q \in outbox /\ q.oapp # peers
        <3>1. OutTo(outbox', q.oapp) = OutTo(outbox, q.oapp)
            BY <1>7, <1>8, <2>6 DEF OutTo
        <3>2. QED
            BY <2>6, <3>1 DEF ContractInv, OutboxNonces
    <2>7. QED
        BY <1>7, <2>4, <2>5, <2>6
<1>16. \A p, q \in outbox' : p.oapp = q.oapp /\ p.nonce = q.nonce => p = q
    BY <1>7, <1>12 DEF ContractInv, OutboxNonces
<1>17. OutboxNonces'
    BY <1>15, <1>16 DEF OutboxNonces
<1>18. QED
    BY <1>1, <1>2, <1>7, <1>8, <1>13, <1>14, <1>17

\* A packet sent or executed counts once.
LEMMA BurntBySend ==
    ASSUME ContractInv, NEW o, Posted(o)
    PROVE  /\ BurntWei \in Nat /\ BurntWei' = BurntWei + evm!EvmRate * o.amount_sd
           /\ IsFiniteSet(outbox') /\ outbox' \subseteq OutPacket
<1>1. IsFiniteSet(outbox) /\ \A p \in outbox : OutAmounts[p] \in Nat
    BY OutAmount DEF ContractInv
<1>2. o \in OutPacket /\ o \notin outbox /\ outbox' = outbox \cup {o}
    BY DEF Posted
<1>3. OutAmounts[o] = o.amount_sd /\ o.amount_sd \in Nat
    BY <1>2 DEF OutAmounts, OutPacket
<1>4. PICK a \in Nat, s \in Nat, rate \in Nat :
         a = o.amount_sd /\ s = SumOf(OutAmounts, outbox) /\ rate = evm!EvmRate
    BY <1>1, <1>3, SumOfType, Rates
<1>5. SumOf(OutAmounts, outbox') = a + s
    BY <1>1, <1>2, <1>3, <1>4, SumOfAdd
<1>6. rate * (a + s) = rate * s + rate * a /\ rate * s \in Nat
    BY SMT
<1>7. IsFiniteSet(outbox') /\ outbox' \subseteq OutPacket
    BY <1>1, <1>2, FS_AddElement DEF ContractInv
<1>8. QED
    BY <1>4, <1>5, <1>6, <1>7 DEF BurntWei

\* A packet executed for the first time adds what it is worth to MintedWei.
LEMMA MintedByReceive ==
    ASSUME IInv, ContractInv, NEW packet \in sent, packet \notin executed,
           executed' = executed \cup {packet}
    PROVE  /\ packet.amount_sd \in Nat /\ MintedWei \in Nat
           /\ MintedWei' = MintedWei + evm!EvmRate * packet.amount_sd
<1>1. executed \in SUBSET sent
    BY DEF ContractInv
<1>2. IsFiniteSet(executed) /\ \A p \in executed : SentAmounts[p] \in Nat
    BY <1>1, SentAmount
<1>3. SentAmounts[packet] = packet.amount_sd /\ packet.amount_sd \in Nat
    BY SentAmount
<1>4. PICK a \in Nat, s \in Nat, rate \in Nat :
         a = packet.amount_sd /\ s = SumOf(SentAmounts, executed) /\ rate = evm!EvmRate
    BY <1>2, <1>3, SumOfType, Rates
<1>5. SumOf(SentAmounts, executed') = a + s
    BY <1>2, <1>3, <1>4, SumOfAdd
<1>6. rate * (a + s) = rate * s + rate * a /\ rate * s \in Nat
    BY SMT
<1>7. QED
    BY <1>4, <1>5, <1>6 DEF MintedWei

\* After a step that changes one account, the books of the contract are right if
\* the supply has kept up with the packets.
LEMMA ContractBooks ==
    ASSUME ContractInv, NEW account \in Accounts, NEW new \in Nat, Changed(account, new),
           peers' = peers, outbox' \subseteq OutPacket, IsFiniteSet(outbox'),
           executed' \subseteq sent', OutboxNonces', issued_wei' \in Int,
           totalSupply' + BurntWei' = issued_wei' + MintedWei'
    PROVE  ContractInv'
<1>1. /\ balanceOf' \in [Accounts -> Nat] /\ totalSupply' \in Nat
      /\ totalSupply' = SumOf(balanceOf', Accounts)
    BY AccountChange
<1>2. peers' \in OApps \cup {None}
    BY DEF ContractInv
<1>3. QED
    BY <1>1, <1>2 DEF ContractInv

\* The numbers in the books.
LEMMA WeiTypes ==
    ASSUME IInv, ContractInv
    PROVE  /\ BurntWei \in Nat /\ MintedWei \in Nat /\ totalSupply \in Nat /\ issued_wei \in Int
           /\ totalSupply + BurntWei = issued_wei + MintedWei
<1>1. executed \in SUBSET sent /\ outbox \in SUBSET outbox
    BY DEF ContractInv
<1>2. SumOf(SentAmounts, executed) \in Nat /\ SumOf(OutAmounts, outbox) \in Nat
    BY <1>1, SentAmount, OutAmount
<1>3. BurntWei \in Nat /\ MintedWei \in Nat
    BY <1>2, Rates, SMT DEF BurntWei, MintedWei
<1>4. QED
    BY <1>3 DEF ContractInv

\* Minters and holders who burn move the supply and issued_wei alike.
LEMMA ContractIssued ==
    ASSUME IInv, ContractInv, sent' = sent, NEW account \in Accounts, NEW new \in Nat,
           Issued(account, new)
    PROVE  ContractInv'
<1>1. /\ totalSupply' \in Int /\ issued_wei' \in Int
      /\ issued_wei' - issued_wei = totalSupply' - totalSupply
    BY DEF Issued, Changed
<1>2. BurntWei' = BurntWei /\ MintedWei' = MintedWei
    BY DEF Issued, BurntWei, MintedWei
<1>3. totalSupply' + BurntWei = issued_wei' + MintedWei
    BY <1>1, WeiTypes
<1>4. Changed(account, new) /\ UNCHANGED <<peers, outbox, executed>>
    BY DEF Issued
<1>5. /\ outbox' \subseteq OutPacket /\ IsFiniteSet(outbox') /\ executed' \subseteq sent'
      /\ OutboxNonces'
    BY <1>4 DEF ContractInv, OutboxNonces, OutTo
<1>6. QED
    BY <1>1, <1>2, <1>3, <1>4, <1>5, ContractBooks

\* A packet leaves with what its sender had, or comes with what its account gets.
LEMMA ContractSends ==
    ASSUME IInv, ContractInv, sent' = sent, NEW caller \in Accounts, NEW o,
           Posted(o), Carried(o, caller), OutboxNonces'
    PROVE  ContractInv'
<1>1. PICK w \in Nat : w = evm!EvmRate * o.amount_sd
    <2>1. o.amount_sd \in Nat
        BY DEF Posted, OutPacket
    <2>2. QED
        BY <2>1, Rates, SMT
<1>2. /\ totalSupply' = totalSupply - w /\ w <= balanceOf[caller]
      /\ balanceOf' = [balanceOf EXCEPT ![caller] = balanceOf[caller] - w]
      /\ UNCHANGED <<peers, executed, issued_wei>>
    BY <1>1 DEF Carried
<1>3. balanceOf[caller] \in Nat
    BY HolderCovered
<1>4. PICK new \in Nat : new = balanceOf[caller] - w
    BY <1>2, <1>3
<1>5. Changed(caller, new)
    <2>1. totalSupply \in Nat
        BY WeiTypes
    <2>2. totalSupply' \in Int /\ totalSupply' + balanceOf[caller] = totalSupply + new
        BY <1>2, <1>3, <1>4, <2>1
    <2>3. QED
        BY <1>2, <1>4, <2>2 DEF Changed
<1>6. MintedWei' = MintedWei
    BY <1>2 DEF MintedWei
<1>7. /\ BurntWei' = BurntWei + w /\ IsFiniteSet(outbox') /\ outbox' \subseteq OutPacket
    BY <1>1, BurntBySend
<1>8. totalSupply' + BurntWei' = issued_wei' + MintedWei'
    BY <1>2, <1>6, <1>7, WeiTypes
<1>9. executed' \subseteq sent' /\ issued_wei' \in Int /\ peers' = peers
    BY <1>2 DEF ContractInv
<1>10. QED
    BY <1>5, <1>7, <1>8, <1>9, ContractBooks

\* lzReceive mints what the packet is worth.
LEMMA ContractReceives ==
    ASSUME IInv, ContractInv, sent' = sent, NEW packet \in sent, NEW to \in Accounts,
           evm!lzReceive(packet, Store, to)
    PROVE  ContractInv'
<1>1. packet \notin executed /\ executed' = executed \cup {packet}
    BY DEF evm!lzReceive, evm!Executed
<1>2. /\ packet.amount_sd \in Nat /\ MintedWei \in Nat
      /\ MintedWei' = MintedWei + evm!EvmRate * packet.amount_sd
    BY <1>1, MintedByReceive
<1>3. PICK w \in Nat : w = evm!EvmRate * packet.amount_sd /\ w = packet.amount_sd * evm!EvmRate
    <2>1. evm!EvmRate \in Nat
        BY Rates
    <2>2. QED
        BY <1>2, <2>1, SMT
<1>4. /\ totalSupply' = totalSupply + w
      /\ balanceOf' = [balanceOf EXCEPT ![to] = balanceOf[to] + w]
      /\ UNCHANGED <<peers, outbox, issued_wei>>
    BY <1>3 DEF evm!lzReceive, evm!Minted, evm!roleState
<1>5. balanceOf[to] \in Nat
    BY HolderCovered
<1>6. PICK new \in Nat : new = balanceOf[to] + w
    BY <1>5
<1>7. Changed(to, new)
    <2>1. totalSupply \in Nat
        BY WeiTypes
    <2>2. totalSupply' \in Int /\ totalSupply' + balanceOf[to] = totalSupply + new
        BY <1>4, <1>5, <1>6, <2>1
    <2>3. QED
        BY <1>4, <1>6, <2>2 DEF Changed
<1>8. BurntWei' = BurntWei
    BY <1>4 DEF BurntWei
<1>9. totalSupply' + BurntWei' = issued_wei' + MintedWei'
    <2>1. MintedWei' = MintedWei + w
        BY <1>2, <1>3
    <2>2. QED
        BY <1>4, <1>8, <2>1, WeiTypes
<1>10. /\ executed' \subseteq sent' /\ issued_wei' \in Int /\ peers' = peers
       /\ outbox' \subseteq OutPacket /\ IsFiniteSet(outbox') /\ OutboxNonces'
    BY <1>1, <1>4 DEF ContractInv, OutboxNonces, OutTo
<1>11. QED
    BY <1>7, <1>9, <1>10, ContractBooks

\* The packets of the program only grow.
LEMMA SentGrows == ASSUME IInv, [Next]_vars PROVE sent \subseteq sent'
<1>1. ASSUME NEW packet \in inbox, lz_receive(packet) PROVE sent \subseteq sent'
    BY <1>1 DEF lz_receive
<1>2. ASSUME NEW user, NEW eid, NEW amount_ld, NEW min_amount_ld, NEW compose, NEW options,
             send(user, eid, amount_ld, min_amount_ld, compose, options)
      PROVE  sent \subseteq sent'
    BY <1>2 DEF send
<1>3. QED
    BY <1>1, <1>2, WhoMoves

\* A call of the script is a send of what it parsed.
LEMMA ClientAmount ==
    ASSUME NEW amount \in ClientAmounts
    PROVE  /\ amount \in Nat /\ evm!parseUnits(amount) \in Nat
           /\ evm!parseUnits(amount) = amount * EvmBase ^ UnitDecimals
<1>1. amount \in Nat
    BY BridgeAssumption DEF evm!ContractParameters
<1>2. QED
    BY <1>1, Rates, SMT DEF evm!parseUnits

\* Every step of the bridge keeps the books of the contract.
LEMMA ContractStep == IInv /\ ContractInv /\ [BridgeNext]_bridgeVars => ContractInv'
<1> SUFFICES ASSUME IInv, ContractInv, [BridgeNext]_bridgeVars PROVE ContractInv'
    OBVIOUS
<1> DEFINE Still == UNCHANGED <<balanceOf, totalSupply, outbox, executed, issued_wei>>
<1>1. ASSUME Still, peers' \in OApps \cup {None}, sent \subseteq sent' PROVE ContractInv'
    <2>1. OutboxNonces' /\ BurntWei' = BurntWei /\ MintedWei' = MintedWei
        BY <1>1 DEF ContractInv, OutboxNonces, OutTo, BurntWei, MintedWei
    <2>2. QED
        BY <1>1, <2>1 DEF ContractInv
<1>2. CASE UNCHANGED bridgeVars
    BY <1>1, <1>2 DEF bridgeVars, contractVars, vars, chainVars, ContractInv
<1>3. CASE OnSolana
    <2>1. UNCHANGED contractVars /\ sent \subseteq sent'
        BY <1>3, SentGrows DEF OnSolana
    <2>2. QED
        BY <1>1, <2>1 DEF contractVars, ContractInv
<1>4. CASE OnEvm
    <2>1. sent' = sent
        BY <1>4 DEF OnEvm, vars, chainVars
    <2>2. ASSUME NEW caller \in Accounts, NEW to \in Users, NEW amount \in Nat, NEW minimum,
                 NEW asked \in ClientAmounts \cup {None},
                 evm!Send(caller, to, amount, minimum, asked)
          PROVE  ContractInv'
        BY <2>1, <2>2, EvmSend, ContractSends
    <2>3. ASSUME NEW caller \in Accounts, NEW to \in Users, NEW amount \in MintAmounts,
                 evm!Send(caller, to, amount, 0, None)
          PROVE  ContractInv'
        <3>1. amount \in Nat
            BY BridgeAssumption DEF evm!ContractParameters
        <3>2. QED
            BY <2>2, <2>3, <3>1
    <2>4. ASSUME NEW caller \in Accounts, NEW to \in Users, NEW amount \in ClientAmounts,
                 evm!sendOFTEVM(caller, to, amount)
          PROVE  ContractInv'
        BY <2>2, <2>4, ClientAmount DEF evm!sendOFTEVM
    <2>5. QED
        BY <1>1, <1>4, <2>1, <2>3, <2>4, ContractIssued, WhoActs
<1>5. ASSUME NEW packet \in sent, NEW to \in Accounts, Deliver(packet, to) PROVE ContractInv'
    BY <1>5, ContractReceives DEF Deliver, vars, chainVars
<1>6. QED
    BY <1>2, <1>3, <1>4, <1>5 DEF BridgeNext

-----------------------------------------------------------------------------
\* What is on its way to the store.

\* What the program hears of, it hears of from the endpoint.
LEMMA KnownGrows ==
    ASSUME IInv, [Next]_vars
    PROVE  /\ Known' \subseteq Known \cup (inbox' \ inbox)
           /\ \/ UNCHANGED <<received, in_sd>>
              \/ \E packet \in inbox : lz_receive(packet)
<1>1. ASSUME NEW packet \in inbox, lz_receive(packet) PROVE Known' \subseteq Known
    BY <1>1 DEF lz_receive, Clear, Known
<1>2. ASSUME received' = received PROVE Known' \subseteq Known \cup (inbox' \ inbox)
    BY <1>2 DEF Known
<1>3. ASSUME NEW user, NEW eid, NEW amount_ld, NEW min_amount_ld, NEW compose, NEW options,
             send(user, eid, amount_ld, min_amount_ld, compose, options)
      PROVE  UNCHANGED <<received, in_sd>>
    BY <1>3 DEF send
<1>4. QED
    BY <1>1, <1>2, <1>3, WhoMoves

\* A genuine packet stays one.
LEMMA GenuineStays ==
    ASSUME NEW q, Genuine(q), outbox \subseteq outbox'
    PROVE  Genuine(q)'
  BY DEF Genuine

\* A packet that waits has a nonce of its own: no packet with it was paid.
LEMMA WaitingIsUnpaid ==
    ASSUME NonceInv, MailInv, NEW packet \in inbox
    PROVE  packet.nonce \notin PaidNonces
<1> SUFFICES ASSUME NEW e \in received, e.packet.nonce = packet.nonce PROVE FALSE
    BY DEF PaidNonces
<1>1. e.packet \in Known /\ packet \in Known
    BY DEF Known
<1>2. e.packet.eid = packet.eid /\ e.packet.remote = packet.remote
    BY <1>1 DEF MailInv, Genuine
<1>3. e.packet = packet
    BY <1>1, <1>2 DEF NonceInv, PacketId
<1>4. QED
    BY <1>3 DEF NonceInv

\* lz_receive pays one packet that was on its way, and no other.
LEMMA ReceivePays ==
    ASSUME IInv, NonceInv, ContractInv, MailInv, UNCHANGED contractVars,
           NEW packet \in inbox, lz_receive(packet)
    PROVE  \E o \in Unpaid : /\ Unpaid' = Unpaid \ {o} /\ in_sd' = in_sd + o.amount_sd
                             /\ FromEvm(o) \notin {FromEvm(q) : q \in Unpaid \ {o}}
<1>1. Genuine(packet) /\ packet.nonce \notin PaidNonces
    BY WaitingIsUnpaid DEF MailInv, Known
<1>2. PICK o \in outbox : /\ ToStore(o) /\ o.nonce = packet.nonce
                          /\ o.amount_sd = packet.amount_sd
    BY <1>1 DEF Genuine
<1>3. o \in Unpaid
    BY <1>1, <1>2 DEF Unpaid, Paid
<1>4. \A q \in outbox : ToStore(q) /\ q.nonce = o.nonce => q = o
    BY <1>2 DEF ContractInv, OutboxNonces, ToStore
<1>5. PICK e : e.packet = packet /\ received' = received \cup {e}
    <2>1. PICK e : e = [packet |-> packet, amount_received_ld |->
                           AnnouncedAmount(sd2ld(packet.amount_sd, oft_store.ld2sd_rate))]
        OBVIOUS
    <2>2. received' = received \cup {e}
        BY <2>1 DEF lz_receive
    <2>3. QED
        BY <2>1, <2>2
<1>6. PaidNonces' = PaidNonces \cup {o.nonce}
    BY <1>2, <1>5 DEF PaidNonces
<1>7. outbox' = outbox
    BY DEF contractVars
<1>8. Unpaid' = Unpaid \ {o}
    BY <1>2, <1>4, <1>6, <1>7 DEF Unpaid, Paid, ToStore
<1>9. in_sd' = in_sd + o.amount_sd
    BY <1>2 DEF lz_receive
<1>10. FromEvm(o) \notin {FromEvm(q) : q \in Unpaid \ {o}}
    BY <1>2, <1>4 DEF FromEvm, Unpaid
<1>11. QED
    BY <1>3, <1>8, <1>9, <1>10

\* A packet that has just been posted is not paid.
LEMMA PostedIsUnpaid ==
    ASSUME MailInv, NEW o, Posted(o), ToStore(o)
    PROVE  o.nonce \notin PaidNonces
<1> SUFFICES ASSUME NEW e \in received, e.packet.nonce = o.nonce PROVE FALSE
    BY DEF PaidNonces
<1>1. Genuine(e.packet)
    BY DEF MailInv, Known
<1>2. PICK p \in outbox : ToStore(p) /\ p.nonce = o.nonce
    BY <1>1 DEF Genuine
<1>3. QED
    BY <1>2 DEF Posted, ToStore

\* Packets on their way are counted in shared units.
LEMMA MailTypes ==
    ASSUME IInv, ContractInv, MailInv
    PROVE  /\ SumOf(OutAmounts, Unpaid) \in Nat /\ SumOf(OutAmounts, Returns) \in Nat
           /\ IsFiniteSet(Unpaid) /\ IsFiniteSet(Returns) /\ in_sd \in Nat
           /\ \A p \in Unpaid \cup Returns : OutAmounts[p] \in Nat /\ OutAmounts[p] = p.amount_sd
<1>1. Unpaid \in SUBSET outbox /\ Returns \in SUBSET outbox
    BY DEF Unpaid, Returns
<1>2. in_sd \in Nat
    BY DEF IInv, TypeOK
<1>3. QED
    BY <1>1, <1>2, OutAmount

\* A packet that MOROFT has sent is unpaid, and nobody has heard of it.
LEMMA MailPosted ==
    ASSUME IInv, ContractInv, MailInv, UNCHANGED vars, NEW o, Posted(o)
    PROVE  MailInv'
<1>1. UNCHANGED <<inbox, received, in_sd>>
    BY DEF vars, chainVars, historyVars
<1>2. o \notin outbox /\ outbox' = outbox \cup {o}
    BY DEF Posted
<1>3. PaidNonces' = PaidNonces /\ Known' = Known
    BY <1>1 DEF PaidNonces, Known
<1>4. \A q \in Known' : Genuine(q)'
    BY <1>2, <1>3, GenuineStays DEF MailInv
<1>5. OutAmounts[o] \in Nat
    BY DEF Posted, OutPacket, OutAmounts
<1>6. CASE ToStore(o)
    <2>1. o.nonce \notin PaidNonces
        BY <1>6, PostedIsUnpaid
    <2>2. Unpaid' = Unpaid \cup {o} /\ o \notin Unpaid
        BY <1>2, <1>3, <1>6, <2>1 DEF Unpaid, Paid
    <2>3. Returns' = Returns \cup {o} /\ o \notin Returns
        BY <1>2, <1>6 DEF Returns
    <2>4. /\ SumOf(OutAmounts, Unpaid \cup {o}) = OutAmounts[o] + SumOf(OutAmounts, Unpaid)
          /\ SumOf(OutAmounts, Returns \cup {o}) = OutAmounts[o] + SumOf(OutAmounts, Returns)
        BY <1>5, <2>2, <2>3, MailTypes, SumOfAdd
    <2>5. PICK a \in Nat, u \in Nat, r \in Nat, n \in Nat :
             /\ a = OutAmounts[o] /\ u = SumOf(OutAmounts, Unpaid)
             /\ r = SumOf(OutAmounts, Returns) /\ n = in_sd /\ n + u = r
        BY <1>5, MailTypes DEF MailInv
    <2>6. n + (a + u) = a + r
        BY <2>5
    <2>7. in_sd' + SumOf(OutAmounts, Unpaid') = SumOf(OutAmounts, Returns')
        BY <1>1, <2>2, <2>3, <2>4, <2>5, <2>6
    <2>8. QED
        BY <1>4, <2>7 DEF MailInv
<1>7. CASE ~ToStore(o)
    <2>1. Unpaid' = Unpaid /\ Returns' = Returns
        BY <1>2, <1>3, <1>7 DEF Unpaid, Returns, Paid
    <2>2. QED
        BY <1>1, <1>4, <2>1 DEF MailInv
<1>8. QED
    BY <1>6, <1>7

\* lz_receive takes one packet out of the unpaid ones, and adds it to in_sd.
LEMMA MailReceived ==
    ASSUME IInv, NonceInv, ContractInv, MailInv, UNCHANGED contractVars, [Next]_vars,
           NEW packet \in inbox, lz_receive(packet)
    PROVE  in_sd' + SumOf(OutAmounts, Unpaid') = SumOf(OutAmounts, Returns')
<1>1. PICK o \in Unpaid : Unpaid' = Unpaid \ {o} /\ in_sd' = in_sd + o.amount_sd
    BY ReceivePays
<1>2. Returns' = Returns
    BY DEF contractVars, Returns
<1>3. SumOf(OutAmounts, Unpaid) = OutAmounts[o] + SumOf(OutAmounts, Unpaid \ {o})
    BY MailTypes, SumOfRemove
<1>4. /\ IsFiniteSet(Unpaid \ {o}) /\ \A p \in Unpaid \ {o} : OutAmounts[p] \in Nat
      /\ OutAmounts[o] \in Nat /\ OutAmounts[o] = o.amount_sd
    BY MailTypes, FS_Subset
<1>5. PICK a \in Nat, u \in Nat, r \in Nat, n \in Nat :
         /\ a = OutAmounts[o] /\ u = SumOf(OutAmounts, Unpaid \ {o})
         /\ r = SumOf(OutAmounts, Returns) /\ n = in_sd /\ n + (a + u) = r
    BY <1>3, <1>4, MailTypes, SumOfType DEF MailInv
<1>6. (n + a) + u = r
    BY <1>5
<1>7. QED
    BY <1>1, <1>2, <1>4, <1>5, <1>6

\* The mail stays in order, whoever moves.
LEMMA MailStep ==
    IInv /\ NonceInv /\ ContractInv /\ MailInv /\ [BridgeNext]_bridgeVars => MailInv'
<1> SUFFICES ASSUME IInv, NonceInv, ContractInv, MailInv, [BridgeNext]_bridgeVars PROVE MailInv'
    OBVIOUS
<1>1. ASSUME UNCHANGED <<outbox, inbox, received, in_sd>> PROVE MailInv'
    BY <1>1 DEF MailInv, Known, Genuine, Unpaid, Returns, Paid, PaidNonces
<1>2. CASE UNCHANGED bridgeVars
    BY <1>1, <1>2 DEF bridgeVars, contractVars, vars, chainVars, historyVars
<1>3. CASE OnSolana
    <2>1. UNCHANGED contractVars /\ outbox' = outbox /\ [Next]_vars
        BY <1>3 DEF OnSolana, contractVars
    <2>2. \A q \in Known' : Genuine(q)
        BY <1>3, <2>1, KnownGrows DEF OnSolana, MailInv
    <2>3. \A q \in Known' : Genuine(q)'
        BY <2>1, <2>2, GenuineStays
    <2>4. in_sd' + SumOf(OutAmounts, Unpaid') = SumOf(OutAmounts, Returns')
        <3>1. CASE UNCHANGED <<received, in_sd>>
            BY <2>1, <3>1 DEF MailInv, Unpaid, Returns, Paid, PaidNonces
        <3>2. QED
            BY <2>1, <3>1, MailReceived, KnownGrows
    <2>5. QED
        BY <2>3, <2>4 DEF MailInv
<1>4. CASE OnEvm
    <2>1. UNCHANGED vars /\ UNCHANGED <<inbox, received, in_sd>>
        BY <1>4 DEF OnEvm, vars, chainVars, historyVars
    <2>2. ASSUME NEW caller \in Accounts, NEW to \in Users, NEW amount \in Nat, NEW minimum,
                 NEW asked \in ClientAmounts \cup {None},
                 evm!Send(caller, to, amount, minimum, asked)
          PROVE  MailInv'
        BY <2>1, <2>2, EvmSend, MailPosted
    <2>3. ASSUME NEW caller \in Accounts, NEW to \in Users, NEW amount \in MintAmounts,
                 evm!Send(caller, to, amount, 0, None)
          PROVE  MailInv'
        <3>1. amount \in Nat
            BY BridgeAssumption DEF evm!ContractParameters
        <3>2. QED
            BY <2>2, <2>3, <3>1
    <2>4. ASSUME NEW caller \in Accounts, NEW to \in Users, NEW amount \in ClientAmounts,
                 evm!sendOFTEVM(caller, to, amount)
          PROVE  MailInv'
        BY <2>2, <2>4, ClientAmount DEF evm!sendOFTEVM
    <2>5. QED
        BY <1>1, <1>4, <2>1, <2>3, <2>4, WhoActs DEF Issued
<1>5. ASSUME NEW packet \in sent, NEW to \in Accounts, Deliver(packet, to) PROVE MailInv'
    BY <1>1, <1>5 DEF Deliver, vars, chainVars, historyVars, evm!lzReceive
<1>6. QED
    BY <1>2, <1>3, <1>4, <1>5 DEF BridgeNext

-----------------------------------------------------------------------------
\* The invariant.

\* The store is made with the decimals the two sides agree on, and keeps its rate.
LEMMA RateStep == IInv /\ RateInv /\ [Next]_vars => RateInv'
<1> SUFFICES ASSUME IInv, RateInv, [Next]_vars, Initialized'
             PROVE  oft_store'.ld2sd_rate = RateOf(EvmSharedDecimals)
    BY DEF RateInv
<1>1. CASE Initialized
    BY <1>1, StoreKept DEF RateInv
<1>2. CASE ~Initialized
    <2>1. PICK oft_type \in OFTType, admin \in Keys, shared_decimals \in SharedDecimals :
             init_oft(oft_type, admin, shared_decimals)
        BY <1>2, WhoInitializes
    <2>2. shared_decimals = EvmSharedDecimals
        BY BridgeAssumption
    <2>3. QED
        BY <2>1, <2>2 DEF init_oft
<1>3. QED
    BY <1>1, <1>2

\* What the bridge does is, to the program, a step of the program or nothing.
LEMMA BridgeStep == [BridgeNext]_bridgeVars => [Next]_vars
  BY DEF BridgeNext, bridgeVars, OnSolana, OnEvm, Deliver

\* All of it holds at the start, where nothing has been sent.
LEMMA BridgeStart == BridgeInit => BridgeInv
<1> SUFFICES ASSUME BridgeInit PROVE BridgeInv
    OBVIOUS
<1>1. IInv /\ CoveredInv
    BY InitialState, CoveredInit DEF BridgeInit
<1>2. NonceInv /\ SentInv /\ RateInv
    <2>1. Known = {} /\ received = {} /\ sent = {} /\ out_sd = 0 /\ ~Initialized
        BY DEF BridgeInit, Init, Known, Initialized
    <2>2. QED
        BY <2>1, SumOfEmpty DEF NonceInv, SentInv, SentNonces, RateInv
<1>3. ContractInv
    <2>1. /\ balanceOf = [a \in Accounts |-> 0] /\ totalSupply = 0 /\ peers = None
          /\ outbox = {} /\ executed = {} /\ issued_wei = 0
        BY DEF BridgeInit, evm!EvmInit
    <2>2. \A a \in Accounts : balanceOf[a] = 0
        BY <2>1
    <2>3. IsFiniteSet(Accounts) /\ 0 \in Nat /\ Cardinality(Accounts) \in Nat
        BY SameCounting, FS_CardinalityType
    <2>4. SumOf(balanceOf, Accounts) = 0 * Cardinality(Accounts)
        BY <2>2, <2>3, SumOfConstant
    <2>5. SumOf(balanceOf, Accounts) = 0
        BY <2>3, <2>4, SMT
    <2>6. BurntWei = 0 /\ MintedWei = 0
        <3>1. SumOf(OutAmounts, outbox) = 0 /\ SumOf(SentAmounts, executed) = 0
            BY <2>1, SumOfEmpty
        <3>2. QED
            BY <3>1, Rates, SMT DEF BurntWei, MintedWei
    <2>7. IsFiniteSet(outbox) /\ OutboxNonces
        BY <2>1, FS_EmptySet DEF OutboxNonces
    <2>8. balanceOf \in [Accounts -> Nat]
        BY <2>1
    <2>9. QED
        BY <2>1, <2>5, <2>6, <2>7, <2>8 DEF ContractInv
<1>4. MailInv
    <2>1. outbox = {} /\ in_sd = 0 /\ Known = {}
        BY DEF BridgeInit, Init, evm!EvmInit, Known
    <2>2. Unpaid = {} /\ Returns = {}
        BY <2>1 DEF Unpaid, Returns
    <2>3. QED
        BY <2>1, <2>2, SumOfEmpty DEF MailInv
<1>5. QED
    BY <1>1, <1>2, <1>3, <1>4 DEF BridgeInv

\* The invariant is inductive: its parts keep one another.
LEMMA BridgeInvStep == BridgeInv /\ [BridgeNext]_bridgeVars => BridgeInv'
  BY BridgeStep, NextStep, NonceStep, SentStep, CoveredStep, RateStep, ContractStep, MailStep
     DEF BridgeInv

\* So it holds for ever.
LEMMA BridgeInvariant == BridgeSpec => []BridgeInv
  BY BridgeStart, BridgeInvStep, PTL DEF BridgeSpec

-----------------------------------------------------------------------------
\* Covered returns.

\* What packets of MOROFT are worth on Solana, and the sum in ReturnsCovered.
WorthAt(rate) == [p \in OutPacket |-> sd2ld(p.amount_sd, rate)]

\* The sum in ReturnsCovered, as a sum of numbers.
LEMMA ReturnsTotal ==
    ASSUME NEW rate, NEW S, IsFiniteSet(S), S \subseteq OutPacket
    PROVE  MapThenSumSet(LAMBDA p : sd2ld(p.amount_sd, rate), S) = SumOf(WorthAt(rate), S)
<1> DEFINE Table(it) ==
        it = [s \in SUBSET S |->
                 IF s = {} THEN 0
                 ELSE LET x == CHOOSE x \in s : TRUE IN sd2ld(x.amount_sd, rate) + it[s \ {x}]]
<1>1. ASSUME NEW it PROVE SumsOver(it, S, WorthAt(rate)) <=> Table(it)
    <2>1. ASSUME NEW s \in SUBSET S, s # {}
          PROVE  WorthAt(rate)[CHOOSE x \in s : TRUE] = sd2ld((CHOOSE x \in s : TRUE).amount_sd, rate)
        BY <2>1, ChosenFromSet DEF WorthAt
    <2>2. QED
        BY <2>1 DEF SumsOver, NextSum
<1>2. MapThenSumSet(LAMBDA p : sd2ld(p.amount_sd, rate), S) = (CHOOSE it : Table(it))[S]
    BY Zenon DEF MapThenSumSet, MapThenFoldSet
<1>3. (CHOOSE it : SumsOver(it, S, WorthAt(rate))) = CHOOSE it : Table(it)
    <2> HIDE DEF Table
    <2> QED
        BY <1>1, Zenon
<1>4. QED
    BY <1>2, <1>3, Zenon DEF SumOf

\* What is on its way to an Adapter was locked by it, if nobody has issued MOR
\* beyond what was burnt: packets to the store and not paid are no more than what
\* MOROFT ever burnt for packets less what the store has paid; MOROFT has minted
\* no less than it burnt, and only what the store was sent for.
LEMMA UnpaidWasSent ==
    ASSUME BridgeInv, issued_wei <= 0
    PROVE  /\ SumOf(OutAmounts, Unpaid) \in Nat /\ out_sd \in Nat /\ in_sd \in Nat
           /\ SumOf(OutAmounts, Unpaid) + in_sd <= out_sd
<1> IInv /\ ContractInv /\ MailInv /\ SentInv
    BY DEF BridgeInv
<1>1. PICK u \in Nat, r \in Nat, n \in Nat, out \in Nat :
         /\ u = SumOf(OutAmounts, Unpaid) /\ r = SumOf(OutAmounts, Returns)
         /\ n = in_sd /\ n + u = r /\ out = out_sd
    BY MailTypes DEF MailInv, IInv, TypeOK
<1>2. PICK b \in Nat : b = SumOf(OutAmounts, outbox) /\ r <= b
    <2>1. /\ Returns \in SUBSET outbox /\ outbox \in SUBSET outbox
          /\ \A p \in outbox : OutAmounts[p] \in Nat
        BY OutAmount DEF Returns
    <2>2. IsFiniteSet(outbox) /\ SumOf(OutAmounts, outbox) \in Nat
        BY <2>1, OutAmount
    <2>3. SumOf(OutAmounts, Returns) <= SumOf(OutAmounts, outbox)
        BY <2>1, <2>2, SumOfPart
    <2>4. QED
        BY <1>1, <2>2, <2>3
<1>3. PICK e \in Nat : e = SumOf(SentAmounts, executed) /\ e <= out
    <2>1. /\ executed \in SUBSET sent /\ sent \in SUBSET sent
          /\ \A p \in sent : SentAmounts[p] \in Nat
        BY SentAmount DEF ContractInv
    <2>2. IsFiniteSet(sent) /\ SumOf(SentAmounts, executed) \in Nat
        BY <2>1, SentAmount
    <2>3. SumOf(SentAmounts, executed) <= SumOf(SentAmounts, sent)
        BY <2>1, <2>2, SumOfPart
    <2>4. out = SumOf(SentAmounts, sent)
        BY <1>1 DEF SentInv
    <2>5. QED
        BY <2>2, <2>3, <2>4
<1>4. PICK rate \in Nat \ {0} : rate = evm!EvmRate
    BY Rates
<1>5. b <= e
    <2>1. PICK s \in Nat, i \in Int : s + rate * b = i + rate * e /\ i <= 0
        BY <1>2, <1>3, <1>4, WeiTypes DEF BurntWei, MintedWei
    <2>2. rate * b \in Nat /\ rate * e \in Nat
        BY SMT
    <2>3. rate * b <= rate * e
        BY <2>1, <2>2
    <2>4. ASSUME b >= e + 1 PROVE FALSE
        <3>1. rate * b >= rate * e + rate
            BY <2>4, MultipleGap
        <3>2. QED
            BY <2>2, <2>3, <3>1
    <2>5. QED
        BY <2>4
<1>6. u + n <= out
    <2>1. n + u = r
        BY <1>1
    <2>2. QED
        BY <1>2, <1>3, <1>5, <2>1
<1>7. QED
    BY <1>1, <1>6

\* The locked value pays for every packet on its way to an Adapter, in any order,
\* while nobody has issued MOR on the EVM chain beyond what was burnt there.
THEOREM ReturnsAlwaysCovered == BridgeSpec => []ReturnsCovered
<1>1. BridgeInv => ReturnsCovered
    <2> SUFFICES ASSUME BridgeInv, IsAdapter, issued_wei <= 0
                 PROVE  oft_store.tvl_ld >=
                     MapThenSumSet(LAMBDA p : sd2ld(p.amount_sd, oft_store.ld2sd_rate),
                                   {q \in outbox : ToStore(q) /\ ~Paid(q)})
        BY Zenon DEF ReturnsCovered
    <2>1. PICK rate \in Nat : rate = oft_store.ld2sd_rate
        BY StoreTypes DEF BridgeInv, IInv, IsAdapter
    <2>2. PICK u \in Nat, out \in Nat, n \in Nat :
             /\ u = SumOf(OutAmounts, Unpaid) /\ out = out_sd /\ n = in_sd /\ u + n <= out
        BY UnpaidWasSent
    <2>3. oft_store.tvl_ld = rate * (out - n)
        BY <2>1, <2>2 DEF BridgeInv, IInv, TvlIsOutstanding
    <2>4. Unpaid \subseteq OutPacket /\ IsFiniteSet(Unpaid)
        BY MailTypes DEF BridgeInv, ContractInv, Unpaid
    <2>5. MapThenSumSet(LAMBDA p : sd2ld(p.amount_sd, rate), Unpaid) = SumOf(WorthAt(rate), Unpaid)
        BY <2>4, ReturnsTotal
    <2>6. SumOf(WorthAt(rate), Unpaid) = rate * u
        <3>1. \A p \in Unpaid : OutAmounts[p] \in Nat /\ WorthAt(rate)[p] = rate * OutAmounts[p]
            <4> SUFFICES ASSUME NEW p \in Unpaid
                         PROVE  /\ OutAmounts[p] \in Nat
                                /\ WorthAt(rate)[p] = rate * OutAmounts[p]
                OBVIOUS
            <4>1. PICK a \in Nat : a = p.amount_sd
                BY <2>4 DEF OutPacket
            <4>2. OutAmounts[p] = a /\ WorthAt(rate)[p] = a * rate
                BY <2>4, <4>1 DEF OutAmounts, WorthAt, sd2ld
            <4>3. a * rate = rate * a
                BY SMT
            <4>4. QED
                BY <4>2, <4>3
        <3>2. IsFiniteSet(Unpaid)
            BY <2>4
        <3>3. PICK f, g : f = OutAmounts /\ g = WorthAt(rate)
            OBVIOUS
        <3>4. Scaled(f, g, Unpaid, rate)
            BY <3>1, <3>3 DEF Scaled
        <3>5. SumOf(g, Unpaid) = rate * SumOf(f, Unpaid)
            BY <3>2, <3>4, SumOfScaled
        <3>6. QED
            BY <2>2, <3>3, <3>5
    <2>7. rate * u <= rate * (out - n)
        <3>1. PICK d \in Nat : out - n = u + d
            <4>1. u + n <= out
                BY <2>2
            <4>2. out - n - u \in Nat /\ out - n = u + (out - n - u)
                BY <4>1
            <4>3. QED
                BY <4>2
        <3>2. rate * (u + d) = rate * u + rate * d /\ rate * d \in Nat /\ rate * u \in Nat
            BY SMT
        <3>3. QED
            BY <3>1, <3>2
    <2>8. QED
        BY <2>1, <2>3, <2>5, <2>6, <2>7 DEF Unpaid
<1>2. QED
    BY <1>1, BridgeInvariant, PTL

-----------------------------------------------------------------------------
\* What the script asks for.

\* A common factor may be left out of a comparison.
LEMMA CancelFactor ==
    ASSUME NEW a \in Nat, NEW b \in Nat, NEW c \in Nat \ {0}, c * a <= c * b
    PROVE  a <= b
<1> SUFFICES ASSUME a >= b + 1 PROVE FALSE
    OBVIOUS
<1>1. c * a >= c * b + c
    BY MultipleGap
<1>2. c * a \in Nat /\ c * b \in Nat
    BY SMT
<1>3. QED
    BY <1>1, <1>2

\* A quotient, taken as often as it was divided by, is no more than the number.
LEMMA FloorBelow ==
    ASSUME NEW a \in Nat, NEW d \in Nat \ {0}, NEW q, q = a \div d
    PROVE  q \in Nat /\ d * q <= a
<1>1. /\ a \div d \in Int /\ a % d \in 0..(d - 1)
      /\ a = d * (a \div d) + (a % d)
    BY DivMod
<1>2. PICK r \in Nat : a = d * q + r
    BY <1>1
<1>3. d * q \in Int
    BY <1>1, SMT
<1>4. a >= d * 0 /\ 0 \in Int
    BY SMT
<1>5. q >= 0
    BY <1>4, DivBounds
<1>6. QED
    BY <1>1, <1>2, <1>3, <1>5

\* And may be put in.
LEMMA ScaleMonotone ==
    ASSUME NEW a \in Nat, NEW b \in Nat, NEW c \in Nat, a <= b
    PROVE  c * a <= c * b
<1>1. PICK d \in Nat : b = a + d
    <2>1. b - a \in Nat /\ b = a + (b - a)
        OBVIOUS
    <2>2. QED
        BY <2>1
<1>2. c * (a + d) = c * a + c * d /\ c * d \in Nat /\ c * a \in Nat
    BY SMT
<1>3. QED
    BY <1>1, <1>2

\* What the script sends when it is asked for an amount: as much of it as whole
\* shared units make up, if that is nine tenths of it, in wei.
Scripted(asked, unit, rate, sd) ==
    /\ sd = (asked * unit) \div (rate * unit)
    /\ (rate * unit) * sd >= ((asked * unit) * 9000) \div 10000

\* Nine tenths of the amount in wei are no less than nine tenths of the amount, in
\* units of the token on Solana; and what is sent is no more than the amount.
LEMMA NineTenths ==
    ASSUME NEW asked \in Nat, NEW unit \in Nat \ {0}, NEW rate \in Nat \ {0}, NEW sd \in Nat,
           Scripted(asked, unit, rate, sd)
    PROVE  sd * rate >= (9 * asked) \div 10 /\ sd * rate <= asked
<1>1. PICK nine \in Nat : nine = 9 * asked
    OBVIOUS
<1>2. PICK k \in Nat : k = nine \div 10 /\ 10 * k <= nine
    <2>1. PICK d \in Nat \ {0} : d = 10
        OBVIOUS
    <2>2. PICK k : k = nine \div d
        OBVIOUS
    <2>3. k \in Nat /\ d * k <= nine
        BY <2>2, FloorBelow
    <2>4. QED
        BY <2>1, <2>2, <2>3
<1>3. PICK arrives \in Nat, wei \in Nat, evmRate \in Nat \ {0} :
         arrives = sd * rate /\ wei = asked * unit /\ evmRate = rate * unit
    <2>1. sd * rate \in Nat /\ asked * unit \in Nat /\ rate * unit \in Nat \ {0}
        BY SMT
    <2>2. QED
        BY <2>1
<1>4. PICK kept \in Nat, got \in Nat, all \in Nat :
         kept = unit * k /\ got = unit * arrives /\ all = unit * asked
    <2>1. unit * k \in Nat /\ unit * arrives \in Nat /\ unit * asked \in Nat
        BY SMT
    <2>2. QED
        BY <2>1
<1>5. evmRate * sd = got /\ wei = all
    <2>1. (rate * unit) * sd = unit * (sd * rate) /\ asked * unit = unit * asked
        BY SMT
    <2>2. QED
        BY <1>3, <1>4, <2>1
<1>6. kept <= got
    <2>1. wei * 9000 >= 10000 * kept
        <3>1. unit * (10 * k) <= unit * nine
            <4>1. 10 * k \in Nat /\ 10 * k <= nine
                BY <1>2
            <4>2. QED
                BY <4>1, ScaleMonotone
        <3>2. unit * (10 * k) = 10 * (unit * k) /\ unit * (9 * asked) = 9 * (unit * asked)
            BY SMT
        <3>3. 10 * kept <= 9 * all
            BY <1>1, <1>4, <3>1, <3>2
        <3>4. QED
            BY <1>5, <3>3
    <2>2. (wei * 9000) \div 10000 >= kept
        <3>1. PICK w \in Int : w = wei * 9000 /\ w >= 10000 * kept
            BY <2>1
        <3>2. w \div 10000 >= kept
            BY <3>1, DivBounds
        <3>3. QED
            BY <3>1, <3>2
    <2>3. got >= (wei * 9000) \div 10000
        BY <1>3, <1>5 DEF Scripted
    <2>4. PICK m \in Int : m = (wei * 9000) \div 10000
        BY DivMod
    <2>5. QED
        BY <2>2, <2>3, <2>4
<1>7. got <= all
    <2>1. sd = wei \div evmRate
        BY <1>3 DEF Scripted
    <2>2. evmRate * sd <= wei
        BY <2>1, FloorBelow
    <2>3. QED
        BY <1>5, <2>2
<1>8. k <= arrives /\ arrives <= asked
    BY <1>4, <1>6, <1>7, CancelFactor
<1>9. QED
    BY <1>1, <1>2, <1>3, <1>8

\* A packet with the amount its script asked for.
LEMMA AskedPacket ==
    ASSUME ContractInv, NEW caller \in Accounts, NEW to \in Users, NEW amount \in ClientAmounts,
           evm!sendOFTEVM(caller, to, amount)
    PROVE  \E o \in outbox' :
               /\ outbox' = outbox \cup {o} /\ o.asked = amount
               /\ sd2ld(o.amount_sd, RateOf(EvmSharedDecimals)) >= (9 * amount) \div 10
               /\ sd2ld(o.amount_sd, RateOf(EvmSharedDecimals)) <= amount
<1>1. PICK unit \in Nat \ {0}, rate \in Nat \ {0}, evmRate \in Nat \ {0} :
         /\ unit = EvmBase ^ UnitDecimals /\ rate = RateOf(EvmSharedDecimals)
         /\ evmRate = evm!EvmRate /\ evmRate = rate * unit
    BY Rates
<1>2. PICK asked \in Nat, wei \in Nat :
         asked = amount /\ wei = evm!parseUnits(amount) /\ wei = asked * unit
    BY <1>1, ClientAmount
<1>3. evm!Send(caller, to, wei, (wei * 9000) \div 10000, asked)
    BY <1>2 DEF evm!sendOFTEVM, evm!minAmountLD
<1>4. asked \in ClientAmounts \cup {None}
    BY <1>2
<1>5. PICK o \in outbox' : /\ Posted(o) /\ o.asked = asked /\ o.amount_sd = wei \div evm!EvmRate
                           /\ evm!EvmRate * o.amount_sd >= (wei * 9000) \div 10000
    BY <1>3, <1>4, EvmSend
<1>6. PICK sd \in Nat : sd = o.amount_sd
    BY <1>5 DEF Posted, OutPacket
<1>7. Scripted(asked, unit, rate, sd)
    <2>1. wei = asked * unit /\ evm!EvmRate = rate * unit
        BY <1>1, <1>2
    <2>2. sd = wei \div evm!EvmRate /\ evm!EvmRate * sd >= (wei * 9000) \div 10000
        BY <1>5, <1>6
    <2>3. QED
        BY <2>1, <2>2 DEF Scripted
<1>8. sd * rate >= (9 * asked) \div 10 /\ sd * rate <= asked
    BY <1>7, NineTenths
<1>9. /\ sd2ld(o.amount_sd, RateOf(EvmSharedDecimals)) >= (9 * amount) \div 10
      /\ sd2ld(o.amount_sd, RateOf(EvmSharedDecimals)) <= amount
    <2>1. RateOf(EvmSharedDecimals) = rate /\ o.amount_sd = sd /\ amount = asked
        BY <1>1, <1>2, <1>6
    <2>2. QED
        BY <1>8, <2>1 DEF sd2ld
<1>10. o.asked = amount
    BY <1>2, <1>5
<1>11. QED
    BY <1>5, <1>9, <1>10 DEF Posted

\* Only the script sends packets with an amount asked for, and it asks in nine tenths.
LEMMA AskedStep == BridgeInv /\ AskedArrives /\ [BridgeNext]_bridgeVars => AskedArrives'
<1> SUFFICES ASSUME BridgeInv, AskedArrives, [BridgeNext]_bridgeVars PROVE AskedArrives'
    OBVIOUS
<1> ContractInv
    BY DEF BridgeInv
<1>1. ASSUME outbox' = outbox PROVE AskedArrives'
    BY <1>1 DEF AskedArrives
<1>2. CASE UNCHANGED bridgeVars \/ OnSolana \/ \E packet \in sent, to \in Accounts : Deliver(packet, to)
    BY <1>1, <1>2 DEF bridgeVars, contractVars, OnSolana, Deliver, evm!lzReceive
<1>3. CASE OnEvm
    <2>1. ASSUME NEW o \in outbox', outbox' = outbox \cup {o},
                 o.asked # None =>
                     /\ sd2ld(o.amount_sd, RateOf(EvmSharedDecimals)) >= (9 * o.asked) \div 10
                     /\ sd2ld(o.amount_sd, RateOf(EvmSharedDecimals)) <= o.asked
          PROVE  AskedArrives'
        BY <2>1 DEF AskedArrives
    <2>2. ASSUME NEW caller \in Accounts, NEW to \in Users, NEW amount \in MintAmounts,
                 evm!Send(caller, to, amount, 0, None)
          PROVE  AskedArrives'
        <3>1. amount \in Nat
            BY BridgeAssumption DEF evm!ContractParameters
        <3>2. PICK o \in outbox' : Posted(o) /\ o.asked = None
            BY <2>2, <3>1, EvmSend
        <3>3. QED
            BY <2>1, <3>2 DEF Posted
    <2>3. ASSUME NEW caller \in Accounts, NEW to \in Users, NEW amount \in ClientAmounts,
                 evm!sendOFTEVM(caller, to, amount)
          PROVE  AskedArrives'
        BY <2>1, <2>3, AskedPacket
    <2>4. QED
        BY <1>1, <1>3, <2>2, <2>3, WhoActs DEF Issued
<1>4. QED
    BY <1>2, <1>3 DEF BridgeNext

\* Of what the script of the EVM side asks for, nine tenths arrive on Solana, with
\* every number of decimals the two chains and the script may have.
THEOREM AskedAlwaysArrives == BridgeSpec => []AskedArrives
<1>1. BridgeInit => AskedArrives
    BY DEF BridgeInit, evm!EvmInit, AskedArrives
<1>2. QED
    BY <1>1, AskedStep, BridgeInvariant, PTL DEF BridgeSpec

-----------------------------------------------------------------------------
\* One ledger.

\* One value for each chain.
OnChains(solana, chain) ==
    [c \in {"Solana", "EVM"} |-> IF c = "Solana" THEN solana ELSE chain]

\* One chain's value changes, the other's stays.
LEMMA ChainValues ==
    ASSUME NEW s, NEW e
    PROVE  /\ OnChains(s, e)["Solana"] = s /\ OnChains(s, e)["EVM"] = e
           /\ \A n : /\ OnChains(n, e) = [OnChains(s, e) EXCEPT !["Solana"] = n]
                     /\ OnChains(s, n) = [OnChains(s, e) EXCEPT !["EVM"] = n]
  BY DEF OnChains

\* The variables of the ledger, as Bridge gives them.
Rate == OnChains(RateOf(EvmSharedDecimals), evm!EvmRate)
Circulating == OnChains(supply - Locked, totalSupply)
IssuedOn == OnChains(minted_ld, issued_wei)
Transit ==
    {FromSolana(p) : p \in sent \ executed} \cup {FromEvm(p) : p \in {q \in outbox : ~Paid(q)}}
Arrived == {FromSolana(p) : p \in executed} \cup {FromEvm(p) : p \in {q \in outbox : Paid(q)}}

\* The steps of the ledger, in those terms.
Departs(t) ==
    /\ t = [from |-> t.from, to |-> t.to, id |-> t.id, value |-> t.value] /\ t.from # t.to
    /\ \A u \in Transit \cup Arrived : u.from = t.from => u.id # t.id
    /\ Circulating[t.from] >= Rate[t.from] * t.value
    /\ Circulating' = [Circulating EXCEPT ![t.from] = @ - Rate[t.from] * t.value]
    /\ Transit' = Transit \cup {t}
    /\ UNCHANGED <<IssuedOn, Arrived>>

Arrives(t) ==
    /\ t \in Transit
    /\ Circulating' = [Circulating EXCEPT ![t.to] = @ + Rate[t.to] * t.value]
    /\ Transit' = Transit \ {t} /\ Arrived' = Arrived \cup {t}
    /\ UNCHANGED IssuedOn

Issues(c) ==
    LET amount == IssuedOn'[c] - IssuedOn[c]
    IN /\ c \in {"Solana", "EVM"}
       /\ Circulating[c] + amount >= 0
       /\ Circulating' = [Circulating EXCEPT ![c] = @ + amount]
       /\ IssuedOn' = [IssuedOn EXCEPT ![c] = @ + amount]
       /\ UNCHANGED <<Transit, Arrived>>

LedgerMove ==
    \/ \E t : Departs(t)
    \/ \E t : Arrives(t)
    \/ \E c : Issues(c)
    \/ UNCHANGED <<Circulating, IssuedOn, Transit, Arrived>>

\* Each of the three is a step of the ledger.
LEMMA LedgerSteps ==
    /\ \A t : Departs(t) => Ledger!LedgerNext
    /\ \A t : Arrives(t) => Ledger!LedgerNext
    /\ \A c : Issues(c) => Ledger!LedgerNext
<1>1. ASSUME NEW t, Departs(t) PROVE Ledger!LedgerNext
    <2>1. t \in Transit' /\ Ledger!Depart(t.from, t.to, t.id, t.value)
        BY <1>1 DEF Departs, Ledger!Depart, Ledger!Worth, OnChains, Rate, Circulating, IssuedOn,
           Transit, Arrived
    <2>2. QED
        BY <2>1 DEF Ledger!LedgerNext, Transit
<1>2. ASSUME NEW t, Arrives(t) PROVE Ledger!LedgerNext
    <2>1. t \in Transit /\ Ledger!Arrive(t)
        BY <1>2 DEF Arrives, Ledger!Arrive, Ledger!Worth, OnChains, Rate, Circulating, IssuedOn,
           Transit, Arrived
    <2>2. QED
        BY <2>1 DEF Ledger!LedgerNext, Transit
<1>3. ASSUME NEW c, Issues(c) PROVE Ledger!LedgerNext
    <2>1. c \in {"Solana", "EVM"} /\ Ledger!Issue(c, IssuedOn'[c] - IssuedOn[c])
        BY <1>3 DEF Issues, Ledger!Issue, OnChains, Rate, Circulating, IssuedOn,
           Transit, Arrived
    <2>2. QED
        BY <2>1 DEF Ledger!LedgerNext, IssuedOn, OnChains
<1>4. QED
    BY <1>1, <1>2, <1>3

\* The units in circulation on Solana follow from what was minted and what has
\* left and come back, before init_oft and after it, with either OFT type.
Opened == InitialBalance * Cardinality(Users)
SolanaBooks ==
    /\ supply - Locked \in Nat /\ minted_ld \in Nat /\ out_sd \in Nat /\ in_sd \in Nat
    /\ supply - Locked = (Opened + minted_ld) - RateOf(EvmSharedDecimals) * (out_sd - in_sd)

\* What the users had at the start is a number.
LEMMA OpenedType == Opened \in Nat
  BY OFTAssumption, MathAssumption, SMT DEF Opened, U64

\* What circulates on Solana follows from the invariant, whatever the OFT type.
LEMMA SolanaCirculates == BridgeInv => SolanaBooks
<1> SUFFICES ASSUME BridgeInv PROVE SolanaBooks
    OBVIOUS
<1>1. IInv /\ CoveredInv /\ RateInv
    BY DEF BridgeInv
<1>2. minted_ld \in Nat /\ out_sd \in Nat /\ in_sd \in Nat
    BY <1>1 DEF IInv, TypeOK
<1>3. CASE Initialized
    <2>1. Locked = oft_store.tvl_ld /\ oft_store.ld2sd_rate = RateOf(EvmSharedDecimals)
        BY <1>1, <1>3 DEF Locked, RateInv
    <2>2. /\ supply - oft_store.tvl_ld \in Nat
          /\ supply - oft_store.tvl_ld =
                 (InitialBalance * Cardinality(Users) + minted_ld)
                     - oft_store.ld2sd_rate * (out_sd - in_sd)
        BY <1>1, <1>3, Circulation
    <2>3. QED
        BY <1>2, <2>1, <2>2 DEF SolanaBooks, Opened
<1>4. CASE ~Initialized
    <2>1. Locked = 0 /\ out_sd = 0 /\ in_sd = 0 /\ supply = Opened + minted_ld
        BY <1>1, <1>4 DEF Locked, IInv, FreshInv, Opened
    <2>2. PICK rate \in Nat : rate = RateOf(EvmSharedDecimals)
        BY Rates
    <2>3. PICK o \in Nat, m \in Nat : o = Opened /\ m = minted_ld
        BY <1>2, OpenedType
    <2>4. (o + m) - 0 \in Nat /\ (o + m) - 0 = (o + m) - rate * (0 - 0)
        BY SMT
    <2>5. QED
        BY <1>2, <2>1, <2>2, <2>3, <2>4 DEF SolanaBooks
<1>5. QED
    BY <1>3, <1>4

\* The sums in OnTheWay, as sums of numbers.
LEMMA AmountsTotal ==
    ASSUME NEW S, NEW f, \A p \in S : f[p] = p.amount_sd
    PROVE  MapThenSumSet(LAMBDA p : p.amount_sd, S) = SumOf(f, S)
<1> DEFINE Table(it) ==
        it = [s \in SUBSET S |->
                 IF s = {} THEN 0
                 ELSE LET x == CHOOSE x \in s : TRUE IN x.amount_sd + it[s \ {x}]]
<1>1. ASSUME NEW it PROVE SumsOver(it, S, f) <=> Table(it)
    <2>1. ASSUME NEW s \in SUBSET S, s # {}
          PROVE  f[CHOOSE x \in s : TRUE] = (CHOOSE x \in s : TRUE).amount_sd
        BY <2>1, ChosenFromSet
    <2>2. QED
        BY <2>1 DEF SumsOver, NextSum
<1>2. MapThenSumSet(LAMBDA p : p.amount_sd, S) = (CHOOSE it : Table(it))[S]
    BY Zenon DEF MapThenSumSet, MapThenFoldSet
<1>3. (CHOOSE it : SumsOver(it, S, f)) = CHOOSE it : Table(it)
    <2> HIDE DEF Table
    <2> QED
        BY <1>1, Zenon
<1>4. QED
    BY <1>2, <1>3, Zenon DEF SumOf

\* What is on its way is what was sent on either side less what was executed on the
\* other, packets to nobody included.
LEMMA OnTheWayIsSentAndNotArrived ==
    ASSUME BridgeInv
    PROVE  /\ OnTheWay \in Nat
           /\ SumOf(OutAmounts, outbox) \in Nat /\ SumOf(SentAmounts, executed) \in Nat
           /\ OnTheWay + SumOf(SentAmounts, executed) + in_sd =
                  out_sd + SumOf(OutAmounts, outbox)
<1> IInv /\ ContractInv /\ MailInv /\ SentInv
    BY DEF BridgeInv
<1>1. PICK open \in SUBSET outbox : open = {q \in outbox : ~Paid(q)}
    OBVIOUS
<1>2. PICK e \in Nat, s \in Nat :
         /\ e = SumOf(SentAmounts, executed) /\ s = SumOf(SentAmounts, sent \ executed)
         /\ SumOf(SentAmounts, sent) = e + s
    <2>1. /\ executed \in SUBSET sent /\ sent \in SUBSET sent
          /\ \A p \in sent : SentAmounts[p] \in Nat
        BY SentAmount DEF ContractInv
    <2>2. IsFiniteSet(sent)
        BY <2>1, SentAmount
    <2>3. /\ SumOf(SentAmounts, executed) \in Nat /\ SumOf(SentAmounts, sent \ executed) \in Nat
          /\ SumOf(SentAmounts, sent) =
                 SumOf(SentAmounts, executed) + SumOf(SentAmounts, sent \ executed)
        BY <2>1, <2>2, SumOfSplit, Zenon
    <2>4. QED
        BY <2>3
<1>3. ASSUME NEW S \in SUBSET outbox, NEW T \in SUBSET S
      PROVE  /\ SumOf(OutAmounts, T) \in Nat /\ SumOf(OutAmounts, S \ T) \in Nat
             /\ SumOf(OutAmounts, S) = SumOf(OutAmounts, T) + SumOf(OutAmounts, S \ T)
    <2>1. IsFiniteSet(S) /\ \A p \in S : OutAmounts[p] \in Nat
        BY OutAmount
    <2>2. QED
        BY <2>1, SumOfSplit, Zenon
<1>4. PICK r \in Nat, o \in Nat :
         /\ r = SumOf(OutAmounts, Returns) /\ o = SumOf(OutAmounts, outbox \ Returns)
         /\ SumOf(OutAmounts, outbox) = r + o
    <2>1. Returns \in SUBSET outbox /\ outbox \in SUBSET outbox
        BY DEF Returns
    <2>2. QED
        BY <1>3, <2>1
<1>5. PICK u \in Nat : /\ u = SumOf(OutAmounts, Unpaid)
                       /\ SumOf(OutAmounts, open) = u + o
    <2>1. Unpaid \in SUBSET open
        BY <1>1 DEF Unpaid
    <2>2. open \ Unpaid = outbox \ Returns
        BY <1>1 DEF Unpaid, Returns, Paid
    <2>3. PICK rest : rest = SumOf(OutAmounts, open \ Unpaid) /\ rest = o
        BY <1>4, <2>2
    <2>4. /\ SumOf(OutAmounts, Unpaid) \in Nat
          /\ SumOf(OutAmounts, open) = SumOf(OutAmounts, Unpaid) + rest
        BY <1>3, <2>1, <2>3
    <2>5. QED
        BY <2>3, <2>4
<1>6. OnTheWay = s + (u + o)
    <2>1. \A p \in sent \ executed : SentAmounts[p] = p.amount_sd
        BY SentAmount
    <2>2. \A p \in open : OutAmounts[p] = p.amount_sd
        BY OutAmount
    <2>3. MapThenSumSet(LAMBDA p : p.amount_sd, sent \ executed) = s
        BY <1>2, <2>1, AmountsTotal
    <2>4. MapThenSumSet(LAMBDA p : p.amount_sd, open) = u + o
        BY <1>5, <2>2, AmountsTotal
    <2>5. QED
        BY <1>1, <2>3, <2>4 DEF OnTheWay
<1>7. PICK out \in Nat, n \in Nat : out = out_sd /\ n = in_sd
    BY DEF IInv, TypeOK
<1>8. out = e + s /\ n + u = r
    BY <1>2, <1>4, <1>5, <1>7 DEF SentInv, MailInv
<1>9. (s + (u + o)) + e + n = out + (r + o) /\ s + (u + o) \in Nat /\ r + o \in Nat
    BY <1>8
<1>10. QED
    BY <1>2, <1>4, <1>6, <1>7, <1>9

\* Arithmetic of three kinds of units: k of one are worth as much as r * k of wei.
LEMMA UnitsBalance ==
    ASSUME NEW k \in Nat, NEW r \in Nat, NEW rate \in Nat, rate = r * k,
           NEW c \in Nat, NEW o \in Nat, NEW out \in Nat, NEW n \in Nat,
           c = o - r * (out - n),
           NEW t \in Nat, NEW i \in Int, NEW b \in Nat, NEW e \in Nat,
           t + rate * b = i + rate * e,
           NEW w \in Nat, w + e + n = out + b
    PROVE  k * c + t + rate * w = k * o + i
<1>1. PICK d \in Int : d = out - n
    OBVIOUS
<1>2. k * (o - r * d) = k * o - rate * d
    <2>1. PICK m \in Int : m = r * d
        BY <1>1, SMT
    <2>2. k * (o - m) = k * o - k * m
        BY SMT
    <2>3. k * (r * d) = rate * d
        BY <1>1, SMT
    <2>4. QED
        BY <2>1, <2>2, <2>3
<1>3. w = d + b - e
    BY <1>1
<1>4. rate * (d + b - e) = rate * d + rate * b - rate * e
    BY <1>1, SMT
<1>5. PICK x \in Int, y \in Int, z \in Int, v \in Int :
         x = rate * d /\ y = rate * b /\ z = rate * e /\ v = k * o
    BY <1>1, SMT
<1>6. k * c = v - x /\ rate * w = x + y - z /\ t + y = i + z
    BY <1>1, <1>2, <1>3, <1>4, <1>5
<1>7. QED
    BY <1>5, <1>6

\* What circulates on both chains and what is between them add up, in wei, to what
\* there was at first and what minters have added: for every number of users and
\* packets, all amounts, decimals and fees, and packets executed in any order.
THEOREM MorAlwaysConserved == BridgeSpec => []MorConserved
<1>1. BridgeInv => MorConserved
    <2> SUFFICES ASSUME BridgeInv PROVE MorConserved
        OBVIOUS
    <2>1. PICK k \in Nat, r \in Nat, rate \in Nat :
             /\ k = EvmBase ^ UnitDecimals /\ r = RateOf(EvmSharedDecimals)
             /\ rate = evm!EvmRate /\ rate = r * k
        BY Rates
    <2>2. PICK c \in Nat, o \in Nat, out \in Nat, n \in Nat :
             /\ c = supply - Locked /\ o = Opened + minted_ld /\ out = out_sd /\ n = in_sd
             /\ c = o - r * (out - n)
        <3>1. SolanaBooks
            BY SolanaCirculates
        <3>2. Opened + minted_ld \in Nat
            BY <3>1, OpenedType DEF SolanaBooks
        <3>3. QED
            BY <2>1, <3>1, <3>2 DEF SolanaBooks
    <2>3. PICK w \in Nat, b \in Nat, e \in Nat :
             /\ w = OnTheWay /\ b = SumOf(OutAmounts, outbox) /\ e = SumOf(SentAmounts, executed)
             /\ w + e + n = out + b
        BY <2>2, OnTheWayIsSentAndNotArrived
    <2>4. PICK t \in Nat, i \in Int :
             t = totalSupply /\ i = issued_wei /\ t + rate * b = i + rate * e
        BY <2>1, <2>3, WeiTypes DEF BridgeInv, BurntWei, MintedWei
    <2>5. k * c + t + rate * w = k * o + i
        <3>1. /\ rate = r * k /\ c = o - r * (out - n)
              /\ w + e + n = out + b /\ t + rate * b = i + rate * e
            BY <2>1, <2>2, <2>3, <2>4
        <3>2. QED
            BY <3>1, UnitsBalance
    <2>6. k * (supply - Locked) + totalSupply + rate * OnTheWay = k * (Opened + minted_ld) + issued_wei
        BY <2>2, <2>3, <2>4, <2>5, Zenon
    <2>7. MorConserved <=>
              k * (supply - Locked) + totalSupply + rate * OnTheWay =
                  k * (Opened + minted_ld) + issued_wei
        BY <2>1 DEF MorConserved, Opened
    <2>8. QED
        BY <2>6, <2>7
<1>2. QED
    BY <1>1, BridgeInvariant, PTL

\* Minting on Solana by others than the program, or nothing.
LEMMA SolanaIssues ==
    ASSUME BridgeInv, SolanaBooks, SolanaBooks', UNCHANGED contractVars,
           UNCHANGED <<sent, received, out_sd, in_sd>>
    PROVE  Issues("Solana")
<1>1. PICK s \in Nat, s1 \in Nat, m \in Nat, m1 \in Nat :
         /\ s = supply - Locked /\ s1 = (supply - Locked)' /\ m = minted_ld /\ m1 = minted_ld'
    BY DEF SolanaBooks
<1>2. PICK e \in Nat, i \in Int : e = totalSupply /\ i = issued_wei
    BY DEF BridgeInv, ContractInv
<1>3. PICK x \in Int, o \in Nat : /\ x = RateOf(EvmSharedDecimals) * (out_sd - in_sd)
                                  /\ o = Opened
    <2>1. out_sd \in Int /\ in_sd \in Int
        BY DEF SolanaBooks
    <2>2. RateOf(EvmSharedDecimals) * (out_sd - in_sd) \in Int
        BY <2>1, Rates, SMT
    <2>3. QED
        BY <2>2, OpenedType
<1>4. s = (o + m) - x /\ s1 = (o + m1) - x
    <2>1. s = (o + m) - x
        BY <1>1, <1>3 DEF SolanaBooks
    <2>2. s1 = (Opened + minted_ld') - RateOf(EvmSharedDecimals) * (out_sd' - in_sd')
        BY <1>1 DEF SolanaBooks, Opened
    <2>3. out_sd' = out_sd /\ in_sd' = in_sd
        OBVIOUS
    <2>4. QED
        BY <1>1, <1>3, <2>1, <2>2, <2>3
<1>5. PICK d \in Int : d = m1 - m /\ s1 = s + d /\ m1 = m + d
    <2>1. m1 - m \in Int /\ s1 = s + (m1 - m) /\ m1 = m + (m1 - m)
        BY <1>4
    <2>2. QED
        BY <2>1
<1>6. Circulating = OnChains(s, e) /\ Circulating' = OnChains(s + d, e)
    BY <1>1, <1>2, <1>5 DEF Circulating, contractVars
<1>7. IssuedOn = OnChains(m, i) /\ IssuedOn' = OnChains(m + d, i)
    BY <1>1, <1>2, <1>5 DEF IssuedOn, contractVars
<1>8. Circulating' = [Circulating EXCEPT !["Solana"] = @ + d]
    <2>1. Circulating["Solana"] = s /\ Circulating' = [Circulating EXCEPT !["Solana"] = s + d]
        BY <1>6, ChainValues
    <2>2. QED
        BY <2>1
<1>9. /\ IssuedOn' = [IssuedOn EXCEPT !["Solana"] = @ + d]
      /\ IssuedOn'["Solana"] - IssuedOn["Solana"] = d
      /\ Circulating["Solana"] + d >= 0
    <2>1. /\ IssuedOn' = [IssuedOn EXCEPT !["Solana"] = m + d] /\ IssuedOn["Solana"] = m
          /\ IssuedOn'["Solana"] = m + d /\ Circulating["Solana"] = s
        BY <1>6, <1>7, ChainValues
    <2>2. (m + d) - m = d /\ s + d >= 0
        BY <1>5
    <2>3. QED
        BY <2>1, <2>2
<1>10. UNCHANGED <<Transit, Arrived>>
    BY DEF contractVars, Transit, Arrived, Paid, PaidNonces
<1>11. QED
    BY <1>8, <1>9, <1>10 DEF Issues


\* What send burns or locks on Solana leaves as a packet.
LEMMA SolanaDeparts ==
    ASSUME BridgeInv, SolanaBooks, SolanaBooks', UNCHANGED contractVars,
           UNCHANGED <<received, in_sd, minted_ld>>,
           NEW p, NewPacket(p), p.amount_sd \in Nat, out_sd' = out_sd + p.amount_sd
    PROVE  Departs(FromSolana(p))
<1>1. PICK s \in Nat, s1 \in Nat, m \in Nat, out \in Nat, n \in Nat :
         /\ s = supply - Locked /\ s1 = (supply - Locked)' /\ m = minted_ld
         /\ out = out_sd /\ n = in_sd
    BY DEF SolanaBooks
<1>2. PICK e \in Nat : e = totalSupply
    BY DEF BridgeInv, ContractInv
<1>3. PICK rate \in Nat, o \in Nat, a \in Nat :
         rate = RateOf(EvmSharedDecimals) /\ o = Opened /\ a = p.amount_sd
    BY Rates, OpenedType
<1>4. PICK w \in Nat : w = rate * a /\ s1 = s - w
    <2>1. s = (o + m) - rate * (out - n)
        BY <1>1, <1>3 DEF SolanaBooks
    <2>2. s1 = (o + m) - rate * ((out + a) - n)
        <3>1. s1 = (Opened + minted_ld') - RateOf(EvmSharedDecimals) * (out_sd' - in_sd')
            BY <1>1 DEF SolanaBooks, Opened
        <3>2. minted_ld' = m /\ out_sd' = out + a /\ in_sd' = n
            BY <1>1, <1>3
        <3>3. QED
            BY <1>3, <3>1, <3>2
    <2>3. rate * ((out + a) - n) = rate * (out - n) + rate * a
        BY SMT
    <2>4. rate * a \in Nat /\ rate * (out - n) \in Int
        BY SMT
    <2>5. PICK v \in Nat, x \in Int : v = rate * a /\ x = rate * (out - n)
        BY <2>4
    <2>6. s1 = s - v
        BY <2>1, <2>2, <2>3, <2>5
    <2>7. QED
        BY <2>5, <2>6
<1>5. Circulating = OnChains(s, e) /\ Circulating' = OnChains(s - w, e)
    BY <1>1, <1>2, <1>4 DEF Circulating, contractVars
<1>6. Rate["Solana"] = rate
    BY <1>3, ChainValues DEF Rate
<1>7. PICK t : t = FromSolana(p)
    OBVIOUS
<1>8. /\ t = [from |-> t.from, to |-> t.to, id |-> t.id, value |-> t.value]
      /\ t.from = "Solana" /\ t.to = "EVM" /\ t.id = PacketId(p) /\ t.value = a
    BY <1>3, <1>7 DEF FromSolana, PacketId
<1>9. ASSUME NEW u \in Transit \cup Arrived, u.from = "Solana" PROVE u.id # t.id
    <2>1. PICK q \in sent : u = FromSolana(q)
        BY <1>9 DEF Transit, Arrived, FromSolana, FromEvm, BridgeInv, ContractInv
    <2>2. u.id = PacketId(q)
        BY <2>1 DEF FromSolana, PacketId
    <2>3. QED
        BY <1>8, <2>2 DEF NewPacket
<1>10. /\ Circulating["Solana"] >= Rate["Solana"] * t.value
       /\ Circulating' = [Circulating EXCEPT !["Solana"] = @ - Rate["Solana"] * t.value]
    <2>1. Circulating["Solana"] = s /\ Circulating' = [Circulating EXCEPT !["Solana"] = s - w]
        BY <1>5, ChainValues
    <2>2. Rate["Solana"] * t.value = w
        BY <1>4, <1>6, <1>8
    <2>3. s >= w
        BY <1>4
    <2>4. QED
        BY <2>1, <2>2, <2>3
<1>11. Transit' = Transit \cup {t} /\ Arrived' = Arrived /\ IssuedOn' = IssuedOn
    <2>1. /\ outbox' = outbox /\ executed' = executed /\ issued_wei' = issued_wei
          /\ executed \subseteq sent
        BY DEF contractVars, BridgeInv, ContractInv
    <2>2. PaidNonces' = PaidNonces
        BY DEF PaidNonces
    <2>3. {q \in outbox : ~Paid(q)}' = {q \in outbox : ~Paid(q)}
          /\ {q \in outbox : Paid(q)}' = {q \in outbox : Paid(q)}
        BY <2>1, <2>2 DEF Paid
    <2>4. sent' \ executed' = (sent \ executed) \cup {p}
        BY <2>1 DEF NewPacket
    <2>5. QED
        BY <1>7, <2>1, <2>3, <2>4 DEF Transit, Arrived, IssuedOn
<1>12. QED
    BY <1>7, <1>8, <1>9, <1>10, <1>11 DEF Departs

\* What lz_receive mints or unlocks on Solana has come with a packet.
LEMMA SolanaArrives ==
    ASSUME BridgeInv, SolanaBooks, SolanaBooks', UNCHANGED contractVars, [Next]_vars,
           NEW packet \in inbox, lz_receive(packet)
    PROVE  \E t : Arrives(t)
<1>1. PICK p \in Unpaid : /\ Unpaid' = Unpaid \ {p} /\ in_sd' = in_sd + p.amount_sd
                          /\ FromEvm(p) \notin {FromEvm(q) : q \in Unpaid \ {p}}
    BY ReceivePays DEF BridgeInv
<1>2. UNCHANGED <<sent, out_sd, minted_ld>>
    BY DEF lz_receive
<1>3. PICK s \in Nat, s1 \in Nat, m \in Nat, out \in Nat, n \in Nat :
         /\ s = supply - Locked /\ s1 = (supply - Locked)' /\ m = minted_ld
         /\ out = out_sd /\ n = in_sd
    BY DEF SolanaBooks
<1>4. PICK e \in Nat : e = totalSupply
    BY DEF BridgeInv, ContractInv
<1>5. PICK rate \in Nat, o \in Nat, a \in Nat :
         rate = RateOf(EvmSharedDecimals) /\ o = Opened /\ a = p.amount_sd
    BY <1>1, Rates, OpenedType DEF BridgeInv, ContractInv, Unpaid, OutPacket
<1>6. PICK w \in Nat : w = rate * a /\ s1 = s + w
    <2>1. s = (o + m) - rate * (out - n)
        BY <1>3, <1>5 DEF SolanaBooks
    <2>2. s1 = (o + m) - rate * (out - (n + a))
        <3>1. s1 = (Opened + minted_ld') - RateOf(EvmSharedDecimals) * (out_sd' - in_sd')
            BY <1>3 DEF SolanaBooks, Opened
        <3>2. minted_ld' = m /\ out_sd' = out /\ in_sd' = n + a
            BY <1>1, <1>2, <1>3, <1>5
        <3>3. QED
            BY <1>5, <3>1, <3>2
    <2>3. rate * (out - (n + a)) = rate * (out - n) - rate * a
        BY SMT
    <2>4. rate * a \in Nat /\ rate * (out - n) \in Int
        BY SMT
    <2>5. PICK v \in Nat, x \in Int : v = rate * a /\ x = rate * (out - n)
        BY <2>4
    <2>6. s1 = s + v
        BY <2>1, <2>2, <2>3, <2>5
    <2>7. QED
        BY <2>5, <2>6
<1>7. Circulating = OnChains(s, e) /\ Circulating' = OnChains(s + w, e)
    BY <1>3, <1>4, <1>6 DEF Circulating, contractVars
<1>8. Rate["Solana"] = rate
    BY <1>5, ChainValues DEF Rate
<1>9. PICK t : t = FromEvm(p)
    OBVIOUS
<1>10. t.from = "EVM" /\ t.to = "Solana" /\ t.value = a
    BY <1>5, <1>9 DEF FromEvm
<1>11. Circulating' = [Circulating EXCEPT ![t.to] = @ + Rate[t.to] * t.value]
    <2>1. Circulating["Solana"] = s /\ Circulating' = [Circulating EXCEPT !["Solana"] = s + w]
        BY <1>7, ChainValues
    <2>2. Rate["Solana"] * t.value = w
        BY <1>6, <1>8, <1>10
    <2>3. QED
        BY <1>10, <2>1, <2>2
<1>12. /\ outbox' = outbox /\ executed' = executed /\ IssuedOn' = IssuedOn
    BY <1>2 DEF contractVars, IssuedOn
<1>13. /\ {q \in outbox : ~Paid(q)}' = {q \in outbox : ~Paid(q)} \ {p}
       /\ {q \in outbox : Paid(q)}' = {q \in outbox : Paid(q)} \cup {p}
    BY <1>1, <1>12 DEF Unpaid, Paid
<1>14. p \in outbox /\ ~Paid(p)
    BY <1>1 DEF Unpaid
<1>15. \A q \in outbox : FromEvm(q) = t => q = p
    <2>1. ASSUME NEW q \in outbox, FromEvm(q) = t PROVE q.oapp = p.oapp /\ q.nonce = p.nonce
        BY <1>9, <2>1 DEF FromEvm
    <2>2. QED
        BY <1>14, <2>1 DEF BridgeInv, ContractInv, OutboxNonces
<1>16. \A q : FromSolana(q) # t
    BY <1>10 DEF FromSolana
<1>17. Transit' = Transit \ {t} /\ Arrived' = Arrived \cup {t} /\ t \in Transit
    BY <1>2, <1>9, <1>12, <1>13, <1>14, <1>15, <1>16 DEF Transit, Arrived
<1>18. QED
    BY <1>11, <1>12, <1>17 DEF Arrives


\* Minters and burners on the EVM chain.
LEMMA EvmIssues ==
    ASSUME BridgeInv, UNCHANGED vars, NEW account \in Accounts, NEW new \in Nat,
           Issued(account, new), ContractInv'
    PROVE  Issues("EVM")
<1>1. PICK s, m : s = supply - Locked /\ m = minted_ld
    OBVIOUS
<1>2. PICK e \in Nat, e1 \in Nat, i \in Int, i1 \in Int :
         e = totalSupply /\ e1 = totalSupply' /\ i = issued_wei /\ i1 = issued_wei'
    BY DEF BridgeInv, ContractInv
<1>3. i1 - i = e1 - e
    BY <1>2 DEF Issued
<1>4. PICK d \in Int : e1 = e + d /\ i1 = i + d
    <2>1. i1 - i \in Int /\ e1 = e + (i1 - i) /\ i1 = i + (i1 - i)
        BY <1>3
    <2>2. QED
        BY <2>1
<1>5. /\ Circulating = OnChains(s, e) /\ Circulating' = OnChains(s, e + d)
      /\ IssuedOn = OnChains(m, i) /\ IssuedOn' = OnChains(m, i + d)
    BY <1>1, <1>2, <1>4 DEF Circulating, IssuedOn, Locked, vars, programVars, tokenVars,
       historyVars, Initialized
<1>6. /\ Circulating["EVM"] = e /\ Circulating' = [Circulating EXCEPT !["EVM"] = e + d]
      /\ IssuedOn["EVM"] = i /\ IssuedOn' = [IssuedOn EXCEPT !["EVM"] = i + d]
      /\ IssuedOn'["EVM"] = i + d
    BY <1>5, ChainValues
<1>7. (i + d) - i = d /\ e + d >= 0
    BY <1>4
<1>8. UNCHANGED <<Transit, Arrived>>
    <2>1. UNCHANGED <<sent, received, outbox, executed>>
        BY DEF Issued, vars, chainVars, historyVars
    <2>2. QED
        BY <2>1 DEF Transit, Arrived, Paid, PaidNonces
<1>9. QED
    BY <1>6, <1>7, <1>8 DEF Issues

\* What send burns on the EVM chain leaves as a packet.
LEMMA EvmDeparts ==
    ASSUME BridgeInv, UNCHANGED vars, NEW caller \in Accounts, NEW o,
           Posted(o), Carried(o, caller)
    PROVE  Departs(FromEvm(o))
<1>1. PICK s, m : s = supply - Locked /\ m = minted_ld
    OBVIOUS
<1>2. PICK e \in Nat, rate \in Nat, a \in Nat :
         e = totalSupply /\ rate = evm!EvmRate /\ a = o.amount_sd
    BY Rates DEF BridgeInv, ContractInv, Posted, OutPacket
<1>3. PICK w \in Nat : w = rate * a /\ w <= e /\ totalSupply' = e - w
    <2>1. rate * a \in Nat
        BY SMT
    <2>2. /\ rate * a <= balanceOf[caller] /\ totalSupply' = e - rate * a
        BY <1>2 DEF Carried
    <2>3. PICK b \in Nat : b = balanceOf[caller] /\ b <= e
        BY <1>2, HolderCovered DEF BridgeInv
    <2>4. PICK v \in Nat : v = rate * a
        BY <2>1
    <2>5. v <= b /\ totalSupply' = e - v
        BY <2>2, <2>3, <2>4
    <2>6. v <= e
        BY <2>3, <2>5
    <2>7. QED
        BY <2>4, <2>5, <2>6
<1>4. Circulating = OnChains(s, e) /\ Circulating' = OnChains(s, e - w)
    BY <1>1, <1>2, <1>3 DEF Circulating, Locked, vars, programVars, tokenVars, Initialized
<1>5. Rate["EVM"] = rate
    BY <1>2, ChainValues DEF Rate
<1>6. PICK t : t = FromEvm(o)
    OBVIOUS
<1>7. /\ t = [from |-> t.from, to |-> t.to, id |-> t.id, value |-> t.value]
      /\ t.from = "EVM" /\ t.to = "Solana" /\ t.id = <<o.oapp, o.nonce>> /\ t.value = a
    BY <1>2, <1>6 DEF FromEvm
<1>8. ASSUME NEW u \in Transit \cup Arrived, u.from = "EVM" PROVE u.id # t.id
    <2>1. PICK q \in outbox : u = FromEvm(q)
        BY <1>8 DEF Transit, Arrived, FromSolana, FromEvm
    <2>2. u.id = <<q.oapp, q.nonce>>
        BY <2>1 DEF FromEvm
    <2>3. ~(q.oapp = o.oapp /\ q.nonce = o.nonce)
        BY DEF Posted
    <2>4. QED
        BY <1>7, <2>2, <2>3
<1>9. /\ Circulating["EVM"] >= Rate["EVM"] * t.value
      /\ Circulating' = [Circulating EXCEPT !["EVM"] = @ - Rate["EVM"] * t.value]
    <2>1. Circulating["EVM"] = e /\ Circulating' = [Circulating EXCEPT !["EVM"] = e - w]
        BY <1>4, ChainValues
    <2>2. Rate["EVM"] * t.value = w
        BY <1>3, <1>5, <1>7
    <2>3. e >= w
        BY <1>3
    <2>4. QED
        BY <2>1, <2>2, <2>3
<1>10. Transit' = Transit \cup {t} /\ Arrived' = Arrived /\ IssuedOn' = IssuedOn
    <2>1. /\ sent' = sent /\ executed' = executed /\ issued_wei' = issued_wei
          /\ received' = received /\ minted_ld' = minted_ld
        BY DEF Carried, vars, chainVars, historyVars
    <2>2. PaidNonces' = PaidNonces
        BY <2>1 DEF PaidNonces
    <2>3. outbox' = outbox \cup {o} /\ ~Paid(o)
        BY PostedIsUnpaid DEF Posted, Paid, BridgeInv
    <2>4. /\ {q \in outbox : ~Paid(q)}' = {q \in outbox : ~Paid(q)} \cup {o}
          /\ {q \in outbox : Paid(q)}' = {q \in outbox : Paid(q)}
        BY <2>2, <2>3 DEF Paid
    <2>5. QED
        BY <1>6, <2>1, <2>4 DEF Transit, Arrived, IssuedOn
<1>11. QED
    BY <1>6, <1>7, <1>8, <1>9, <1>10 DEF Departs

\* What lzReceive mints on the EVM chain has come with a packet.
LEMMA EvmArrives ==
    ASSUME BridgeInv, UNCHANGED vars, NEW packet \in sent, NEW to \in Accounts,
           evm!lzReceive(packet, Store, to)
    PROVE  Arrives(FromSolana(packet))
<1>1. PICK s, m : s = supply - Locked /\ m = minted_ld
    OBVIOUS
<1>2. PICK e \in Nat, rate \in Nat, a \in Nat :
         e = totalSupply /\ rate = evm!EvmRate /\ a = packet.amount_sd
    <2>1. packet.amount_sd \in Nat
        BY SentAmount DEF BridgeInv
    <2>2. QED
        BY <2>1, Rates DEF BridgeInv, ContractInv
<1>3. PICK w \in Nat : w = rate * a /\ totalSupply' = e + w
    <2>1. rate * a \in Nat /\ a * rate = rate * a
        BY SMT
    <2>2. totalSupply' = e + a * rate
        BY <1>2 DEF evm!lzReceive, evm!Minted
    <2>3. QED
        BY <2>1, <2>2
<1>4. Circulating = OnChains(s, e) /\ Circulating' = OnChains(s, e + w)
    BY <1>1, <1>2, <1>3 DEF Circulating, Locked, vars, programVars, tokenVars, Initialized
<1>5. Rate["EVM"] = rate
    BY <1>2, ChainValues DEF Rate
<1>6. PICK t : t = FromSolana(packet)
    OBVIOUS
<1>7. t.from = "Solana" /\ t.to = "EVM" /\ t.value = a
    BY <1>2, <1>6 DEF FromSolana
<1>8. Circulating' = [Circulating EXCEPT ![t.to] = @ + Rate[t.to] * t.value]
    <2>1. Circulating["EVM"] = e /\ Circulating' = [Circulating EXCEPT !["EVM"] = e + w]
        BY <1>4, ChainValues
    <2>2. Rate["EVM"] * t.value = w
        BY <1>3, <1>5, <1>7
    <2>3. QED
        BY <1>7, <2>1, <2>2
<1>9. /\ packet \notin executed /\ executed' = executed \cup {packet} /\ outbox' = outbox
      /\ issued_wei' = issued_wei /\ sent' = sent /\ received' = received
      /\ minted_ld' = minted_ld
    BY DEF evm!lzReceive, evm!Executed, vars, chainVars, historyVars
<1>10. \A q \in sent : FromSolana(q) = t => q = packet
    <2>1. ASSUME NEW q \in sent, FromSolana(q) = t PROVE PacketId(q) = PacketId(packet)
        BY <1>6, <2>1 DEF FromSolana, PacketId
    <2>2. QED
        BY <2>1 DEF BridgeInv, SentInv, SentNonces
<1>11. \A q : FromEvm(q) # t
    BY <1>7 DEF FromEvm
<1>12. /\ {q \in outbox : ~Paid(q)}' = {q \in outbox : ~Paid(q)}
       /\ {q \in outbox : Paid(q)}' = {q \in outbox : Paid(q)}
    BY <1>9 DEF Paid, PaidNonces
<1>13. sent' \ executed' = (sent \ executed) \ {packet} /\ executed \subseteq sent
    BY <1>9 DEF BridgeInv, ContractInv
<1>14. Transit' = Transit \ {t} /\ Arrived' = Arrived \cup {t} /\ t \in Transit
    BY <1>6, <1>9, <1>10, <1>11, <1>12, <1>13 DEF Transit, Arrived
<1>15. IssuedOn' = IssuedOn
    BY <1>9 DEF IssuedOn
<1>16. QED
    BY <1>6, <1>8, <1>14, <1>15 DEF Arrives

\* A step of the bridge is a step of the ledger, or nothing to it.
LEMMA LedgerMoves ==
    ASSUME BridgeInv, SolanaBooks, SolanaBooks', [BridgeNext]_bridgeVars
    PROVE  LedgerMove
<1>1. /\ \A t : Departs(t) => LedgerMove
      /\ \A t : Arrives(t) => LedgerMove
      /\ \A c : Issues(c) => LedgerMove
    BY DEF LedgerMove
<1>2. ASSUME UNCHANGED vars, UNCHANGED <<totalSupply, outbox, executed, issued_wei>>
      PROVE  LedgerMove
    BY <1>2 DEF LedgerMove, Circulating, IssuedOn, Transit, Arrived, Paid, PaidNonces, Locked,
       vars, programVars, tokenVars, chainVars, historyVars, Initialized
<1>3. CASE UNCHANGED bridgeVars
    BY <1>2, <1>3 DEF bridgeVars, contractVars
<1>4. CASE OnSolana
    <2>1. UNCHANGED contractVars /\ [Next]_vars /\ IInv /\ SentInv
        BY <1>4 DEF OnSolana, BridgeInv
    <2>2. ASSUME NEW user \in Users, NEW eid \in Eids, NEW amount_ld \in U64,
                 NEW min_amount_ld \in MinAmounts, NEW compose \in ComposeChoices,
                 NEW options \in SUBSET ExecOptions,
                 send(user, eid, amount_ld, min_amount_ld, compose, options)
          PROVE  LedgerMove
        <3>1. PICK sd : /\ sd = ld2sd(Amounts(eid, amount_ld).received, oft_store.ld2sd_rate)
                        /\ out_sd' = out_sd + sd
            BY <2>2 DEF send
        <3>2. UNCHANGED <<received, in_sd, minted_ld>>
            BY <2>2 DEF send
        <3>3. PICK p \in sent' : NewPacket(p) /\ p.amount_sd = sd
            BY <2>1, <2>2, <3>1, SendIsNew DEF SentInv, OnePacketOf
        <3>4. p.amount_sd \in Nat
            <4>1. IInv'
                BY <2>1, NextStep
            <4>2. sent' \subseteq SentPacket
                BY <4>1 DEF IInv, TypeOK
            <4>3. QED
                BY <4>2, MathAssumption, SMT DEF SentPacket, U64
        <3>5. Departs(FromSolana(p))
            BY <2>1, <3>1, <3>2, <3>3, <3>4, SolanaDeparts
        <3>6. QED
            BY <1>1, <3>5
    <2>3. ASSUME NEW packet \in inbox, lz_receive(packet) PROVE LedgerMove
        BY <1>1, <2>1, <2>3, SolanaArrives
    <2>4. ASSUME UNCHANGED <<sent, received, out_sd, in_sd>> PROVE LedgerMove
        BY <1>1, <2>1, <2>4, SolanaIssues
    <2>5. QED
        BY <2>1, <2>2, <2>3, <2>4, WhoMoves
<1>5. CASE OnEvm
    <2>1. UNCHANGED vars /\ ContractInv /\ ContractInv'
        BY <1>5, ContractStep DEF OnEvm, BridgeInv
    <2>2. ASSUME NEW caller \in Accounts, NEW to \in Users, NEW amount \in Nat, NEW minimum,
                 NEW asked \in ClientAmounts \cup {None},
                 evm!Send(caller, to, amount, minimum, asked)
          PROVE  LedgerMove
        BY <1>1, <2>1, <2>2, EvmSend, EvmDeparts
    <2>3. ASSUME NEW caller \in Accounts, NEW to \in Users, NEW amount \in MintAmounts,
                 evm!Send(caller, to, amount, 0, None)
          PROVE  LedgerMove
        <3>1. amount \in Nat
            BY BridgeAssumption DEF evm!ContractParameters
        <3>2. QED
            BY <2>2, <2>3, <3>1
    <2>4. ASSUME NEW caller \in Accounts, NEW to \in Users, NEW amount \in ClientAmounts,
                 evm!sendOFTEVM(caller, to, amount)
          PROVE  LedgerMove
        BY <2>2, <2>4, ClientAmount DEF evm!sendOFTEVM
    <2>5. ASSUME NEW account \in Accounts, NEW new \in Nat, Issued(account, new)
          PROVE  LedgerMove
        BY <1>1, <2>1, <2>5, EvmIssues
    <2>6. QED
        BY <1>2, <1>5, <2>1, <2>3, <2>4, <2>5, WhoActs
<1>6. ASSUME NEW packet \in sent, NEW to \in Accounts, Deliver(packet, to)
      PROVE  LedgerMove
    BY <1>1, <1>6, EvmArrives DEF Deliver
<1>7. QED
    BY <1>3, <1>4, <1>5, <1>6 DEF BridgeNext

\* So the two of them step as the ledger does.
LEMMA LedgerStep ==
    ASSUME LedgerMove
    PROVE  [Ledger!LedgerNext]_(Ledger!ledgerVars)
<1>1. ASSUME UNCHANGED <<Circulating, IssuedOn, Transit, Arrived>>
      PROVE  UNCHANGED Ledger!ledgerVars
    BY <1>1 DEF Ledger!ledgerVars, Circulating, IssuedOn, Transit, Arrived, OnChains
<1>2. QED
    BY <1>1, LedgerSteps DEF LedgerMove

\* Program, contract and the packets between them are one ledger, for every number
\* of users, accounts and packets, every amount and all decimals.
THEOREM BridgeIsOneLedger == BridgeSpec => OneLedger
<1>1. BridgeInit => Ledger!LedgerInit
    <2> SUFFICES ASSUME BridgeInit PROVE Ledger!LedgerInit
        OBVIOUS
    <2>1. /\ ~Initialized /\ supply = InitialBalance * Cardinality(Users) /\ minted_ld = 0
          /\ sent = {} /\ outbox = {} /\ executed = {} /\ totalSupply = 0 /\ issued_wei = 0
        BY DEF BridgeInit, Init, evm!EvmInit, Initialized
    <2>2. supply - Locked = InitialBalance * Cardinality(Users)
        <3>1. PICK o \in Nat : o = InitialBalance * Cardinality(Users)
            BY OpenedType DEF Opened
        <3>2. supply = o /\ Locked = 0 /\ o - 0 = o
            BY <2>1, <3>1 DEF Locked
        <3>3. QED
            BY <3>1, <3>2
    <2>3. QED
        BY <2>1, <2>2 DEF Ledger!LedgerInit
<1>2. BridgeInv /\ SolanaBooks /\ SolanaBooks' /\ [BridgeNext]_bridgeVars
          => [Ledger!LedgerNext]_(Ledger!ledgerVars)
    BY LedgerMoves, LedgerStep
<1>3. BridgeSpec => []SolanaBooks
    BY BridgeInvariant, SolanaCirculates, PTL
<1>4. QED
    BY <1>1, <1>2, <1>3, BridgeInvariant, PTL DEF BridgeSpec, OneLedger, Ledger!LedgerSpec

\* Every transfer has an identity of its own on the chain it leaves, and is on its
\* way or has arrived, but not both.
TransfersDistinct ==
    /\ \A t, u \in Transit \cup Arrived : t.from = u.from /\ t.id = u.id => t = u
    /\ Transit \cap Arrived = {}

\* Identities stay distinct, arrived transfers stay arrived, and no transfer is lost
\* or changed on its way.
LEMMA TransferStep ==
    ASSUME TransfersDistinct, LedgerMove
    PROVE  /\ TransfersDistinct'
           /\ Arrived \subseteq Arrived' /\ Transit \subseteq Transit' \cup Arrived'
<1>1. PICK old, gone, new, come :
         old = Transit /\ gone = Arrived /\ new = Transit' /\ come = Arrived'
    OBVIOUS
<1>2. /\ \A t, u \in old \cup gone : t.from = u.from /\ t.id = u.id => t = u
      /\ old \cap gone = {}
    BY <1>1 DEF TransfersDistinct
<1>3. \/ \E t : /\ new = old \cup {t} /\ come = gone
                /\ \A u \in old \cup gone : u.from = t.from => u.id # t.id
      \/ \E t \in old : new = old \ {t} /\ come = gone \cup {t}
      \/ new = old /\ come = gone
    BY <1>1 DEF LedgerMove, Departs, Arrives, Issues
<1>4. /\ \A t, u \in new \cup come : t.from = u.from /\ t.id = u.id => t = u
      /\ new \cap come = {}
      /\ gone \subseteq come /\ old \subseteq new \cup come
    BY <1>2, <1>3
<1>5. QED
    BY <1>1, <1>4 DEF TransfersDistinct

\* A transfer arrives once at most, with the value it left with, and none is ever
\* lost: both chains count every packet as on its way until it is executed, however
\* late, out of order or often it is tried, and as arrived from then on.
THEOREM TransfersSettleOnce ==
    BridgeSpec =>
        /\ []TransfersDistinct
        /\ [][Arrived \subseteq Arrived' /\ Transit \subseteq Transit' \cup Arrived']_bridgeVars
<1>1. BridgeInit => TransfersDistinct
    BY DEF BridgeInit, Init, evm!EvmInit, TransfersDistinct, Transit, Arrived
<1>2. BridgeInv /\ SolanaBooks /\ SolanaBooks' /\ [BridgeNext]_bridgeVars => LedgerMove
    BY LedgerMoves
<1>3. TransfersDistinct /\ LedgerMove
          => /\ TransfersDistinct'
             /\ Arrived \subseteq Arrived' /\ Transit \subseteq Transit' \cup Arrived'
    BY TransferStep
<1>4. BridgeSpec => []SolanaBooks
    BY BridgeInvariant, SolanaCirculates, PTL
<1>5. QED
    BY <1>1, <1>2, <1>3, <1>4, BridgeInvariant, PTL DEF BridgeSpec

\* Whatever happens on the bridge is, on Solana, an execution of the program: what
\* OFTProofs says of Spec holds of both ends together.
THEOREM BridgeRunsProgram == BridgeSpec => Spec
<1>1. BridgeInit => Init
    BY DEF BridgeInit
<1>2. QED
    BY <1>1, BridgeStep, PTL DEF BridgeSpec, Spec

----------------------------------------------------------------------------
\* The executor of the packets that come to Solana, whatever becomes of the
\* program and of other executors between an answer and its transaction.

\* What lz_receive_types may answer.
PlannedAccounts ==
    [mint_authority : MintAuthority, compose_amount : Nat \cup {None}]

\* An attempt is under way for packets that are pending or paid.
PlanInv ==
    /\ plan \in [Packets -> PlannedAccounts \cup {None}]
    /\ \A p \in Packets : plan[p] # None => p \in Known

\* Every answer of lz_receive_types is of that kind.
LEMMA AnswerType ==
    ASSUME IInv, NEW packet \in Packets, Answers(packet)
    PROVE  lz_receive_types(packet) \in PlannedAccounts
<1>1. PICK rate, ld : /\ rate = oft_store.ld2sd_rate
                      /\ ld = sd2ld(packet.amount_sd, oft_store.ld2sd_rate)
    OBVIOUS
<1>2. TypeOK /\ Initialized
    BY DEF IInv, Answers
<1>3. rate \in Nat
    BY <1>1, <1>2, StoreTypes
<1>4. packet.amount_sd \in Nat
    <2>1. packet.amount_sd \in WireAmounts
        BY DEF Packets
    <2>2. WireAmounts \subseteq U64 /\ U64 \subseteq Nat
        BY OFTAssumption, MathAssumption, SMT DEF U64
    <2>3. QED
        BY <2>1, <2>2
<1>5. ld \in Nat
    BY <1>1, <1>3, <1>4, SMT DEF sd2ld
<1>6. transfer_fee \in TransferFee /\ mint_authority \in MintAuthority
    BY <1>2, OFTAssumption DEF TypeOK
<1>7. get_post_fee_amount_ld(transfer_fee, ld) \in Nat
    BY <1>5, <1>6, PostFeeBounds
<1>8. PlannedAmount(ld) \in Nat
    BY <1>5, <1>7 DEF PlannedAmount
<1>9. QED
    BY <1>1, <1>6, <1>8 DEF lz_receive_types, PlannedAccounts

\* Attempts start with pending packets, and packets do not become unknown.
LEMMA PlanStep == IInv /\ PlanInv /\ [ExecutorNext]_executorVars => PlanInv'
<1> SUFFICES ASSUME IInv, PlanInv, [ExecutorNext]_executorVars PROVE PlanInv'
    OBVIOUS
<1>1. ASSUME [Next]_vars, UNCHANGED plan PROVE PlanInv'
    BY <1>1, KnownStays DEF PlanInv
<1>2. ASSUME NEW packet \in Packets, Plan(packet) PROVE PlanInv'
    <2>1. /\ packet \in Known /\ Known' = Known
          /\ plan' = [plan EXCEPT ![packet] = lz_receive_types(packet)]
        BY <1>2 DEF Plan, Known, vars, chainVars, historyVars
    <2>2. lz_receive_types(packet) \in PlannedAccounts
        BY <1>2, AnswerType DEF Plan
    <2>3. QED
        BY <2>1, <2>2 DEF PlanInv, PlannedAccounts
<1>3. ASSUME NEW packet \in Packets, Execute(packet) PROVE PlanInv'
    <2>1. Known' = Known /\ plan' = [plan EXCEPT ![packet] = None]
        BY <1>3, PacketPaid DEF Execute, lz_receive, Clear
    <2>2. QED
        BY <2>1 DEF PlanInv, PlannedAccounts
<1>4. ASSUME NEW packet \in Packets, Drop(packet) PROVE PlanInv'
    <2>1. Known' = Known /\ plan' = [plan EXCEPT ![packet] = None]
        BY <1>4 DEF Drop, Forget, Known, vars, chainVars, historyVars
    <2>2. QED
        BY <2>1 DEF PlanInv, PlannedAccounts
<1>5. QED
    BY <1>1, <1>2, <1>3, <1>4 DEF ExecutorNext, Others, executorVars

\* A step of the executor is one of the program or none of it.
LEMMA ExecutorMoves == [ExecutorNext]_executorVars => [Next]_vars
<1>1. ASSUME NEW packet, Execute(packet) PROVE Next
    BY <1>1 DEF Execute, lz_receive, Clear, Next, Public
<1>2. QED
    BY <1>1 DEF ExecutorNext, Others, Plan, Drop, executorVars

\* And so is whatever executors do, several at a time and with stale accounts.
THEOREM ExecutorRunsProgram == ExecutorSpec => Spec
<1>1. ExecutorInit => Init
    BY DEF ExecutorInit
<1>2. QED
    BY <1>1, ExecutorMoves, PTL DEF ExecutorSpec, Spec

\* Attempts are made only for packets that the endpoint has verified, with
\* accounts that lz_receive_types gives.
THEOREM ExecutorTypeCorrect == ExecutorSpec => []ExecutorTypeOK
<1>1. ExecutorInit => IInv /\ PlanInv
    BY InitialState DEF ExecutorInit, PlanInv
<1>2. IInv /\ PlanInv /\ [ExecutorNext]_executorVars => (IInv /\ PlanInv)'
    BY ExecutorMoves, NextStep, PlanStep
<1>3. IInv /\ PlanInv => ExecutorTypeOK
    BY DEF PlanInv, ExecutorTypeOK, Known, PlannedAccounts
<1>4. QED
    BY <1>1, <1>2, <1>3, PTL DEF ExecutorSpec

\* Whatever lz_receive pays, lz_receive_types has had the right answer for.
LEMMA PaidFits ==
    ASSUME IInv, NEW packet \in inbox, lz_receive(packet)
    PROVE  Answers(packet) /\ Accepts(packet, lz_receive_types(packet))
<1>1. PICK ld : ld = sd2ld(packet.amount_sd, oft_store.ld2sd_rate)
    OBVIOUS
<1>2. /\ Initialized /\ Fits(ld) /\ GiveTokens(packet.to, ld)
      /\ oft_store.oft_type \in OFTType
    BY <1>1, StoreTypes DEF lz_receive, Open, IInv
<1>3. Answers(packet)
    BY <1>1, <1>2 DEF Answers
<1>4. IsNative => mint_authority # None
    BY <1>2, ExecutorAssumption DEF IsNative, GiveTokens, MintTokens
<1>5. PlannedAmount(ld) = AnnouncedAmount(ld)
    BY <1>2 DEF PlannedAmount, AnnouncedAmount, OFTType
<1>6. Accepts(packet, lz_receive_types(packet))
    BY <1>1, <1>4, <1>5 DEF Accepts, lz_receive_types
<1>7. QED
    BY <1>3, <1>6

\* AnswersFit without ENABLED: when a pending packet is paid, lz_receive_types
\* would have answered in that very state, and with accounts that lz_receive takes.
THEOREM AnswersAlwaysFit ==
    ExecutorSpec =>
        [][\A packet \in inbox : lz_receive(packet) =>
               Answers(packet) /\ Accepts(packet, lz_receive_types(packet))]_executorVars
<1>1. ExecutorInit => IInv
    BY InitialState DEF ExecutorInit
<1>2. IInv /\ [ExecutorNext]_executorVars => IInv'
    BY ExecutorMoves, NextStep
<1>3. IInv => \A packet \in inbox : lz_receive(packet) =>
                  Answers(packet) /\ Accepts(packet, lz_receive_types(packet))
    BY PaidFits
<1>4. QED
    BY <1>1, <1>2, <1>3, PTL DEF ExecutorSpec

\* Attempts are made only of a program that has a store.
PlansOfProgram == (\E p \in Packets : plan[p] # None) => Initialized

\* A plan that is there before and after a step is the same plan, and no plan is
\* made without a store.
LEMMA PlanKept ==
    ASSUME IInv, PlanInv, PlansOfProgram, [ExecutorNext]_executorVars,
           NEW p \in Packets, plan'[p] # None
    PROVE  /\ plan[p] # None => plan'[p] = plan[p]
           /\ plan[p] = None => Initialized /\ UNCHANGED vars
<1>1. plan \in [Packets -> PlannedAccounts \cup {None}]
    BY DEF PlanInv
<1>2. ASSUME NEW packet \in Packets, NEW accounts,
             plan' = [plan EXCEPT ![packet] = accounts]
      PROVE  p # packet => plan'[p] = plan[p]
    BY <1>1, <1>2
<1>3. ASSUME NEW packet \in Packets, Plan(packet)
      PROVE  plan[packet] = None /\ Initialized /\ UNCHANGED vars
    BY <1>3 DEF Plan, Answers
<1>4. ASSUME NEW packet \in Packets, Plan(packet)
      PROVE  plan' = [plan EXCEPT ![packet] = lz_receive_types(packet)]
    BY <1>4 DEF Plan
<1>5. ASSUME NEW packet \in Packets, Execute(packet) \/ Drop(packet)
      PROVE  plan' = [plan EXCEPT ![packet] = None] /\ plan'[packet] = None
    <2>1. plan' = [plan EXCEPT ![packet] = None]
        BY <1>5 DEF Execute, Drop, Forget
    <2>2. QED
        BY <1>1, <2>1
<1>6. CASE \E packet \in Packets : Plan(packet)
    BY <1>2, <1>3, <1>4, <1>6
<1>7. CASE \E packet \in Packets : Execute(packet) \/ Drop(packet)
    BY <1>2, <1>5, <1>7
<1>8. CASE UNCHANGED plan
    BY <1>8
<1>9. QED
    BY <1>6, <1>7, <1>8 DEF ExecutorNext, Others, executorVars

\* The store stays, so plans stay plans of a program with a store.
LEMMA PlansOfProgramStep ==
    IInv /\ PlanInv /\ PlansOfProgram /\ [ExecutorNext]_executorVars => PlansOfProgram'
<1> SUFFICES ASSUME IInv, PlanInv, PlansOfProgram, [ExecutorNext]_executorVars,
                    NEW p \in Packets, plan'[p] # None
             PROVE  Initialized'
    BY DEF PlansOfProgram
<1>1. CASE plan[p] # None
    BY <1>1, ExecutorMoves, StoreKept DEF PlansOfProgram
<1>2. CASE plan[p] = None
    BY <1>2, PlanKept DEF vars, programVars, Initialized
<1>3. QED
    BY <1>1, <1>2

\* The accounts of a plan that fit before a step fit after it.
PlanStays(p) ==
    plan[p] # None /\ plan'[p] # None /\ Accepts(p, plan[p]) => Accepts(p, plan[p])'

\* All that an answer depends on is the store's type and rate, which stay, and the
\* two things that are assumed not to change.
LEMMA PlanStaysStep ==
    ASSUME IInv, PlanInv, PlansOfProgram, [ExecutorNext]_executorVars,
           UNCHANGED <<transfer_fee, mint_authority>>, NEW p \in Packets
    PROVE  PlanStays(p)
<1> SUFFICES ASSUME plan[p] # None, plan'[p] # None, Accepts(p, plan[p])
             PROVE  Accepts(p, plan[p])'
    BY DEF PlanStays
<1>1. Initialized /\ Initialized'
    BY PlansOfProgramStep DEF PlansOfProgram
<1>2. oft_store'.ld2sd_rate = oft_store.ld2sd_rate /\ oft_store'.oft_type = oft_store.oft_type
    BY <1>1, ExecutorMoves, StoreKept
<1>3. plan'[p] = plan[p]
    BY PlanKept
<1>4. IsNative' = IsNative
    BY <1>1, <1>2 DEF IsNative
<1>5. PICK ld : ld = sd2ld(p.amount_sd, oft_store.ld2sd_rate)
    OBVIOUS
<1>6. sd2ld(p.amount_sd, oft_store.ld2sd_rate)' = ld
    BY <1>2, <1>5 DEF sd2ld
<1>7. AnnouncedAmount(ld)' = AnnouncedAmount(ld)
    BY <1>2 DEF AnnouncedAmount
<1>8. QED
    BY <1>3, <1>4, <1>5, <1>6, <1>7 DEF Accepts

\* An attempt whose accounts are right goes stale only when the mint's transfer fee
\* or its authority changes: whatever else admins, senders and other executors do
\* between lz_receive_types and lz_receive, the accounts stay those lz_receive
\* asks for.  With AnswersAlwaysFit and the fairness of ExecutorSpec this is why
\* PayableIsPaid holds.
THEOREM PlansStayFit ==
    ExecutorSpec =>
        [][UNCHANGED <<transfer_fee, mint_authority>> =>
               \A p \in Packets : PlanStays(p)]_executorVars
<1>1. ExecutorInit => IInv /\ PlanInv /\ PlansOfProgram
    BY InitialState DEF ExecutorInit, PlanInv, PlansOfProgram
<1>2. IInv /\ PlanInv /\ PlansOfProgram /\ [ExecutorNext]_executorVars
          => (IInv /\ PlanInv /\ PlansOfProgram)'
    BY ExecutorMoves, NextStep, PlanStep, PlansOfProgramStep
<1>3. IInv /\ PlanInv /\ PlansOfProgram /\ [ExecutorNext]_executorVars
          => [UNCHANGED <<transfer_fee, mint_authority>> =>
                  \A p \in Packets : PlanStays(p)]_executorVars
    BY PlanStaysStep
<1>4. QED
    BY <1>1, <1>2, <1>3, PTL DEF ExecutorSpec
=============================================================================
