------------------------------- MODULE MCLink -------------------------------
(* Link for TLC. *)
EXTENDS Link

\* Lists that share all, some or no versions, in any order, with version 0, and
\* one that is longer than the limit of 2.
MCLists == {<<0>>, <<2, 0>>, <<0, 2>>, <<1, 3>>, <<2, 1, 3>>}

=============================================================================
