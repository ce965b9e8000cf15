--------------------------- MODULE MC_Subscription ---------------------------
(* Small instances of Subscription for TLC, with the drafts of              *)
(* MC_ConfigStore.                                                          *)
EXTENDS Subscription, MC_ConfigStore

CONSTANT s1

=============================================================================
