CONSTANTS QDEPTH = 3  Values = {"v"}  MaxRequests = 2  MaxSlow = 1
SPECIFICATION FairSpec
CHECK_DEADLOCK FALSE
INVARIANT ReadsBack
 
PROPERTY CompletionsInOrder
PROPERTY RequestsEnd
