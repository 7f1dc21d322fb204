---------------------------- MODULE MCTagDerivation ----------------------------
(* Three products, pages of one, two jobs of two models.                   *)
EXTENDS TagDerivation, TLC

CONSTANTS m1, m2

ModelsMC == {m1, m2}
SymmetryMC == Permutations(ModelsMC)

Guess(term, confidence) == [term |-> term, confidence |-> confidence]

\* Sure of more words than are kept and of one outside the vocabulary, and of
\* one too sure to be true; and barely enough, by rounding, of a repeated word,
\* not enough of others.  Two of these agree on nothing.
DraftsMC == {[style |-> {Guess(1, 900), Guess(2, 615), Guess(3, 605), Guess(4, 600), Guess(9, 1000)},
              feel |-> {Guess(1, 1001)}],
             [style |-> {Guess(1, 394), Guess(4, 405), Guess(4, 300)},
              feel |-> {Guess(1, 396)}]}

VocabularyMC == [style |-> 1 .. 4, feel |-> 1 .. 2]
=============================================================================
