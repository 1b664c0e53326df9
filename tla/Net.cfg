CONSTANTS PG_START = 2  PG_STOP = 7  ArpPolls = 2  PingPolls = 1  RecvPolls = 2  Ports = 2  MaxQueries = 2
SPECIFICATION FairSpec
INVARIANT AnswersThisQuery
 
PROPERTY CallsEnd
