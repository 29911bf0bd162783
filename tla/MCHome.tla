-------------------------------- MODULE MCHome --------------------------------
(***************************************************************************)
(* One chat that the bot joins and leaves, and two overlapping loops that   *)
(* may both be given the update of its joining.                             *)
(***************************************************************************)
EXTENDS Home

CONSTANTS A, P, l1, l2

MCLog == << [kind |-> "presence", chat |-> A, was |-> FALSE, is |-> TRUE],
            [kind |-> "start", player |-> P, chat |-> A],
            [kind |-> "presence", chat |-> A, was |-> TRUE, is |-> FALSE] >>
=============================================================================
