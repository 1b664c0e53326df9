CONSTANTS Header = 24  HeapAlign = 16  MinBlock = 32  PtrSize = 8
          PageSize = 64  ExpandPages = 3  MaxAddr = 512  MaxLive = 3
          Sizes = {5, 60}  Aligns = {16, 32}
SPECIFICATION Spec
INVARIANT Coalesced
