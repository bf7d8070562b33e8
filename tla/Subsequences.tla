---------------------------- MODULE Subsequences ----------------------------
(***************************************************************************)
(* The elements of a sequence at some of its positions, in their order:    *)
(* what SelectSeq gives, with a set for the test, so that it can be        *)
(* reasoned about.                                                         *)
(***************************************************************************)
EXTENDS Naturals, Sequences, Folds

Subsequence(s, I) ==
    MapThenFoldSet(LAMBDA i, kept : Append(kept, s[i]), <<>>, LAMBDA i : i,
                   LAMBDA J : CHOOSE j \in J : \A k \in J : k <= j, I)
=============================================================================
