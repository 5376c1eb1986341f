------------------------------- MODULE MCTelemetry -------------------------------
(***************************************************************************)
(* One core that reports beside the publisher's own.                       *)
(***************************************************************************)
EXTENDS Telemetry, TLC

CONSTANTS x, z

MCRecord == (0 :> {x}) @@ (1 :> {z})
===============================================================================
