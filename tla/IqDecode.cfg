\* A ring of 8 with the code's proportions: a decode window of 3/4 of the
\* buffer, a spectrogram chunk of 1/4, and ReadLag = B - D.
CONSTANTS
    B = 8
    Blocks = {1, 2}
    MaxTotal = 20
    MaxDrops = 2
    D = 6
    S = 2
    ReadLag = 2
    DropAge = 8
SPECIFICATION DecodeSpec
INVARIANTS DecodeTypeOK RingHoldsNewest ChunksIntact DropOffsetsExact
