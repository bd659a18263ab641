------------------------- MODULE MC_RouteMigration -------------------------
(***************************************************************************)
(* Model-checking instance of RouteMigration.  The route lines are those   *)
(* of the example in the script's docstring: masks /24, /30 and /8, one    *)
(* gateway without an interface on the engine, a line the regular          *)
(* expression does not match, and a line with a mask int() rejects; the     *)
(* file is any sequence of up to three of them.                            *)
(***************************************************************************)
EXTENDS RouteMigration, SequencesExt

R1 == [kind |-> "route", net |-> "10.10.10.0", mask |-> <<255, 255, 255, 0>>, gw |-> "10.2.11.7"]
R2 == [kind |-> "route", net |-> "10.12.1.240", mask |-> <<255, 255, 255, 252>>, gw |-> "10.12.127.33"]
R3 == [kind |-> "route", net |-> "10.0.0.0", mask |-> <<255, 0, 0, 0>>, gw |-> "10.12.127.33"]
Other == [kind |-> "other"]
BadMask == [kind |-> "badmask"]

\* Every file of at most three such lines.
MCFiles == BoundedSeq({R1, R2, R3, Other, BadMask}, 3)

MCUnroutable == {"10.2.11.7"}
=============================================================================
