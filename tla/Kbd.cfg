CONSTANTS KBUF = 3  LineMax = 3  Keys = {"C", "F1"}
SPECIFICATION FairSpec
INVARIANT LineFits
INVARIANT RightCharacter
PROPERTY ImplementsFifo
PROPERTY EventuallyRead
