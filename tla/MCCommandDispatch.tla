-------------------------- MODULE MCCommandDispatch --------------------------
(* Two adapters, the first with two commands and the second with one, and   *)
(* two core commands, "adapter" and "restart", in the array's order.        *)
EXTENDS CommandDispatch, TLC

CONSTANTS led, indicator, adapter, restart, c1, c2, c3, mqtt, http

MCCoreCommands == <<restart, adapter>>
MCGroup == (led :> <<c1, c2>>) @@ (indicator :> <<c3>>)
MCBootOrder == <<led, indicator>>

(* The clients are interchangeable.                                         *)
MCSymmetry == Permutations(Client)
=============================================================================
