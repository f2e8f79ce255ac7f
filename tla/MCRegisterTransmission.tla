----------------------- MODULE MCRegisterTransmission -----------------------
EXTENDS RegisterTransmission, TLC

CONSTANTS s1, s2, s3

MCSymmetry == Permutations(Sends)
=============================================================================
