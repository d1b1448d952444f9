--------------------------- MODULE MCServiceSetup ---------------------------
(* Instances of ServiceSetup for TLC. *)
EXTENDS ServiceSetup, TLC

CONSTANTS s1, s2, s3, s4, a1, a2, a3, a4

\* One service with two accounts, and one with none.
TwoAccounts == s1 :> {a1, a2} @@ s2 :> {}

\* The forms are interchangeable, and so are the services and the accounts
\* that nobody has at first.
Spares == Permutations(Forms) \cup Permutations(Services \ FirstServices)
          \cup Permutations(Accounts \ {a1, a2})
=============================================================================
