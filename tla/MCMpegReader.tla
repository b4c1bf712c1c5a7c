---------------------------- MODULE MCMpegReader ----------------------------
(***************************************************************************)
(* MpegReader with three bytes: FF may be in both places of a sync word    *)
(* (0xff), E in the second only (0xe0 and up), X in neither.               *)
(***************************************************************************)
EXTENDS MpegReader

CONSTANTS FF, E, X

MCBytes == {FF, E, X}
MCSync1 == {FF}
MCSync2 == {FF, E}

\* As the third byte of a header: a frame of six bytes, an invalid header,
\* and one of layer I, the length of which comes out as 0.
MCFrameLength ==
  [b \in MCBytes |-> CASE b = X -> 6 [] b = E -> -1 [] b = FF -> 0]
=============================================================================
