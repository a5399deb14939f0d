------------------------------ MODULE MCPixels ------------------------------
EXTENDS PixelRoute, TLC

CONSTANTS a, b, small, large

MCPieces == {a, b}
MCSizes == {small, large}

\* A piece, and a size, is told apart by nothing but its name.
MCSymmetry == Permutations(MCPieces) \cup Permutations(MCSizes)
=============================================================================
