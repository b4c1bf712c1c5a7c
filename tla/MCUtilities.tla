----------------------------- MODULE MCUtilities -----------------------------
(***************************************************************************)
(* Module Utilities for TLC, and the tables of module Crc entry by entry.  *)
(***************************************************************************)
EXTENDS Utilities, CrcTables, TLC

\* The values of the constants Codes, the polynomial of each table in the file
\* and another one of that width, and Data.
MCCodes ==
  (8 :> {{0, 1, 2}, {0, 2, 3, 4}}) @@ (16 :> {{0, 5, 12}, {0, 2, 15}})
  @@ (32 :> {{0, 1, 2, 4, 5, 7, 8, 10, 11, 12, 16, 22, 23, 26},
            {0, 6, 8, 9, 10, 11, 13, 14, 18, 19, 20, 22, 23, 25, 26, 27, 28}})
MCData == {{}, {0}, {7}, {0, 2, 5, 7}, 0..7}

\* Crc writes down eight entries of each table and takes the others for the
\* exclusive or of those: so it is with all 256 in the file.  TLC looks them
\* through; no proof uses this.
ASSUME TablesAssumption ==
  \A w \in C!Widths, i \in 0..255 :
    C!TablesInFile[w][C!FromHalves(<<0, i>>)] = C!FromHalves(HalvesInFile[w][i])
=============================================================================
