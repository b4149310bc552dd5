---------------------------- MODULE MCDiscordWorker ----------------------------
(***************************************************************************)
(* Small instances of DiscordWorker for TLC.                               *)
(***************************************************************************)
EXTENDS DiscordWorker
================================================================================
