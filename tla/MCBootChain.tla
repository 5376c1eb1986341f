------------------------------ MODULE MCBootChain ------------------------------
(***************************************************************************)
(* An application of three chunks, that is one full sector and a part of   *)
(* one; an application without the DFU marker and a bootloader, one chunk  *)
(* each.                                                                   *)
(***************************************************************************)
EXTENDS BootChain, TLC

CONSTANTS app, plain, loader

MCLength == (app :> 3) @@ (plain :> 1) @@ (loader :> 1)
MCConfigs == {[tolerance |-> 0, policy |-> "FORCE_UPDATE"],
              [tolerance |-> 0, policy |-> "ROLLBACK"]}
===============================================================================
