---------------------------- MODULE MCVaultSync ----------------------------
(***************************************************************************)
(* VaultSync on small instances, and the clock operators of Hlc checked    *)
(* against the code's loop on every small input.                           *)
(***************************************************************************)
EXTENDS VaultSync, SequencesExt

\* witness() of the stamps of a sequence, one after the other.
Witnessed(c, stamps, pt) == FoldLeft(LAMBDA a, s : Receive(a, s, pt), c, stamps)

SmallStamps == [wall : 0..3, counter : 0..1, node : {1}]

\* WitnessAll admits what the loop computes, in every order of the stamps,
\* and a single stamp leaves it no freedom.
ASSUME WitnessAllIsTheLoop ==
    \A c \in [wall : 0..2, counter : 0..1], pt \in 0..2,
       a, b, x \in SmallStamps :
        /\ WitnessAll(c, {a}, pt) = {Receive(c, a, pt)}
        /\ \A order \in SetToSeqs({a, b, x}) :
              Witnessed(c, order, pt) \in WitnessAll(c, {a, b, x}, pt)
=============================================================================
