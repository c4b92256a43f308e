--------------------------- MODULE MCProfileStore ---------------------------
\* TLC instance of ProfileStore: two overlapping invocations on no file, on a
\* file with one profile, and on a file with two whose default is the second.
EXTENDS ProfileStore, TLC

CONSTANTS default, prod, h1, h2, t1, t2, p1, p2

\* Invocations, like tokens, differ in nothing but their name; t1 is in a file.
MCSymmetry == Permutations(Procs)

MCInitialFiles ==
  { [default |-> None, profiles |-> <<>>],
    [default |-> default, profiles |-> default :> [host |-> h1, token |-> t1]],
    [default |-> prod,
     profiles |-> default :> [host |-> h1, token |-> t1]
                  @@ prod :> [host |-> h2, token |-> None]] }
=============================================================================
