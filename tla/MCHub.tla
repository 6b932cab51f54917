--------------------------------- MODULE MCHub ---------------------------------
(* Instances of Hub for TLC. *)
EXTENDS Hub, TLC

CONSTANTS a1, a2, ip1

\* One attempt, or two that share an address.
Alone == a1 :> ip1
SameAddress == (a1 :> ip1) @@ (a2 :> ip1)

\* Attempts from one address differ in nothing else.
EqualAttempts == Permutations(Attempts)

=============================================================================
