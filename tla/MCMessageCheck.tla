---------------------------- MODULE MCMessageCheck ----------------------------
(* MessageCheck on small instances, with the validators of three heights. *)
EXTENDS MessageCheck, TLC

Symmetry == Permutations(Workers)

(* The validators change places from one height to another, one height has *)
(* too few for two pages, and one has more than they hold.                 *)
MCNodePages == << <<<<"a">>, <<"b">>, << >>>>,
                  <<<<"b">>, << >>, << >>>>,
                  <<<<"b">>, <<"a">>, <<"c">>>> >>
===============================================================================
