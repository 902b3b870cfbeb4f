-------------------------- MODULE MCContextSwitch --------------------------
(* Two callee-saved registers of two values: enough for the order of the    *)
(* pushes and pops to matter.                                               *)
EXTENDS ContextSwitch, TLC

CONSTANTS zero, one, boot, worker, logger

TwoRegs == <<"rbx", "rbp">>
Entries == (0 :> boot) @@ (1 :> worker) @@ (2 :> logger)
TwoValues == {zero, one}
=============================================================================
