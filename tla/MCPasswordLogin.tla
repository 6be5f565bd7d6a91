-------------------------- MODULE MCPasswordLogin --------------------------
(* Instances of PasswordLogin for TLC. *)
EXTENDS PasswordLogin, TLC

CONSTANTS a1, a2, s1, s2, s3

\* Two or three sessions of one account.
SameAccount == [s \in Sessions |-> a1]
OwnPureId == [a \in Accounts |-> a]

\* One session each of two ids that lose their timestamp and become one account.
EachAccount == (s1 :> a1) @@ (s2 :> a2)
MergedPureId == [a \in Accounts |-> "p"]

\* The sessions of SameAccount are interchangeable.
Interchangeable == Permutations(Sessions)
=============================================================================
