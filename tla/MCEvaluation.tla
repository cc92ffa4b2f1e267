---------------------------- MODULE MCEvaluation ----------------------------
EXTENDS Evaluation

MCCoeff == {-2, -1, 0, 1, 3}
MCKonst == {-4, -1, 2, 4}
MCValue == -5 .. 5
=============================================================================
