------------------------------- MODULE MCBoot -------------------------------
(* Two scripts, of three changes and of one: with a restart less than there *)
(* are changes, as the scripts and max_restarts of the code have it (twelve *)
(* columns and indexes in add-spam-columns.js, ten restarts), so that PM2   *)
(* does give up on workers.                                                 *)
EXTENDS Boot

TwoScripts == <<3, 1>>
=============================================================================
