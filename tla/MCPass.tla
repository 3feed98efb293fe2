------------------------------- MODULE MCPass -------------------------------
(* Three pods on the shared disk and a fourth that is not, with onsets      *)
(* before and after each other, and correlations on and around every        *)
(* threshold.                                                               *)
EXTENDS Pass

Levels == {-90, 0, 40, 50, 60, 90}

(* All three write, each differently; or one of them has no write vector    *)
(* and two write alike.                                                     *)
Writers == {<<1, 2, 3, 0>>, <<2, 2, 0, 0>>}
=============================================================================
