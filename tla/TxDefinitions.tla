---------------------------- MODULE TxDefinitions ----------------------------
(* What the parser and the screens of Flare transactions have in common: the  *)
(* types of transactions and the widths of amounts and item counts.           *)

CONSTANTS
    UINT64_MAX,   \* largest amount
    UINT8_MAX     \* largest number of screen items; item indices wrap above it

CTypes == {"c_import_tx", "c_export_tx"}
PTypes == {"base_tx", "p_export_tx", "p_import_tx",
           "add_permissionless_delegator_tx", "add_permissionless_validator_tx"}
StakingTypes ==
    {"add_permissionless_delegator_tx", "add_permissionless_validator_tx"}
TxTypes == CTypes \cup PTypes
==============================================================================
