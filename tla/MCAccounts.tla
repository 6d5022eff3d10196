----------------------------- MODULE MCAccounts -----------------------------
EXTENDS Accounts, TLC

\* "A" and "a" are one address in two spellings, " " is blank.
MCNormalize == [raw \in {"A", "a", "b", " "} |->
                  IF raw = "A" THEN "a" ELSE IF raw = " " THEN "" ELSE raw]
Symmetry == Permutations(Identity) \cup Permutations(User)
            \cup Permutations(Browser) \cup Permutations(Handler)
            \cup Permutations(State)
=============================================================================
