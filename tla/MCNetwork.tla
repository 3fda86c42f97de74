---------------------------- MODULE MCNetwork ----------------------------
(***************************************************************************)
(* Network for TLC.  Two processes, one host on the local network and one  *)
(* beyond the gateway.  The second echo request sums to 0x1FFFF, whose     *)
(* carry must be added back twice.                                         *)
(***************************************************************************)
EXTENDS Network

Interfaces == {<<10, "m1">>, <<1, "m2">>}

EchoIds == {<<65535, 65528>>}

\* What happens after the ring overran is not followed further
NotOverrun == queued.ok

Interchangeable == Permutations(Proc)
=============================================================================
