CONSTANT MaxFrames <- MCMaxFrames
SPECIFICATION Spec
INVARIANT TilesInPlace
