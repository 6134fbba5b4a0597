--------------------------- MODULE MCProvisioning ---------------------------
EXTENDS Provisioning

\* With a list of minters, as the vault of the Squads multisig, and without.
MCMinters == {None, {Someone}}

\* What the hardhat task passes on: its default is the vault's address, so that
\* there is always a list.
TaskMinters == {{Someone}}
=============================================================================
