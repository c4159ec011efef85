--------------------------- MODULE MCSampleRoute ----------------------------
(***************************************************************************)
(* SampleRoute for TLC.  Inputs of up to three of the names X, M, L, R, C  *)
(* and BL, two of four, and an unknown name.                               *)
(***************************************************************************)
EXTENDS SampleRoute

MCMnemonics == {"X", "M", "L", "R", "C", "BL", "BR", "LFE"}

\* pulse's own matrix begins with M and has the rest in an order of its own.
MCPulseMatrix == <<"M", "L", "R", "C", "BL">>

\* Driver matrices: stereo, one with a location no input has, pulse's, one with
\* a placeholder (a user's option).
MCPremaps == {NoMatrix, <<"L", "R">>, <<"L", "R", "C", "BL">>,
              MCPulseMatrix, <<"R", "X", "L">>}

Names == {"X", "M", "L", "R", "C", "BL"}
AllInputs ==
  UNION {[1 .. n -> Names] : n \in 0 .. 3}
    \cup {<<"L", "nonsense">>, <<"">>, <<"L", "R", "BL", "BR">>, <<"BL", "L", "C", "R">>}

\* Two byte orders of the application for a little-endian driver.
MCByteOrders == {"little", "big"} \X {"little"}
=============================================================================
