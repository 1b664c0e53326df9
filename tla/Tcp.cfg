CONSTANTS Attempts = 3  ConnectPolls = 3  SendPolls = 2  RecvPolls = 3  IdleMax = 2
          RxSize = 3  MaxLen = 4  StreamLens = {1, 2, 3, 5}  SeqSpace = 8  ISS = 6
SPECIFICATION FairSpec
CHECK_DEADLOCK FALSE
INVARIANT StreamPrefix
INVARIANT CompleteUnlessFault
PROPERTY HttpEnds
