CONSTANTS
    None = None
    alice = alice
    bob = bob
    hello = hello
    Addresses = {alice, bob}
    Amounts = {1, 2}
    Nonces = {1, 2}
    Eids = {base, op}
    op = op
    base = base
    Texts <- MCTexts
    DefaultKey = DefaultKey
SPECIFICATION Spec
CHECK_DEADLOCK FALSE
INVARIANTS
    DeliveredAsSent
    ComposerLearnsSender
    PricedIsSent
