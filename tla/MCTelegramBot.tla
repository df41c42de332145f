---------------------------- MODULE MCTelegramBot ----------------------------
(* Instances of TelegramBot for TLC.                                        *)
EXTENDS TelegramBot
=============================================================================
