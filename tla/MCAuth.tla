------------------------------- MODULE MCAuth -------------------------------
(***************************************************************************)
(* Instances of Auth for TLC.                                              *)
(***************************************************************************)
EXTENDS Auth, TLC

CONSTANTS mixed, lower, other

\* EmailStr lower-cases the domain of an address: mixed and lower are two
\* spellings of one address.
LowerDomain == [e \in Emails |-> IF e = mixed THEN lower ELSE e]

CallSymmetry ==
    Permutations(Registrations) \cup Permutations(Refreshes) \cup Permutations(Numbers)
==============================================================================
