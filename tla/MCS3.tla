-------------------------------- MODULE MCS3 --------------------------------
(* Values of the constants of S3 for TLC, for all its configurations.        *)
EXTENDS S3, TLC

CONSTANTS c1, c2, x, y, t

ByteSymmetry == Permutations(Bytes)
=============================================================================
