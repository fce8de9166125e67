-------------------------- MODULE MCRequestConsumer --------------------------
(***************************************************************************)
(* Small instances of RequestConsumer.                                     *)
(***************************************************************************)
EXTENDS RequestConsumer, TLC

\* Requests with a malformed message of each kind in between.
MixedPayload ==
    [o \in Offsets |->
        CASE o = 1 -> "fragment" [] o = 4 -> "blank" [] o = 5 -> "undecodable"
          [] OTHER -> "request"]

\* The workers run the same code and no property names one of them.
Symmetry == Permutations(Workers)
=============================================================================
