------------------------------- MODULE MCZram -------------------------------
(* One page that compresses well, one at the edge of the margin, one just   *)
(* past it and one for which the compressor gives up; three slots.          *)
EXTENDS Zram, TLC

CONSTANTS zeros, text, noisy, random

ZramPages == {zeros, text, noisy, random}
ZramCompLen == (zeros :> 1) @@ (text :> 5) @@ (noisy :> 6) @@ (random :> -1)
=============================================================================
