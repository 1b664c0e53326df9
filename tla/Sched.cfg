CONSTANTS MaxThreads = 4  TickMod = 3
SPECIFICATION FairSpec
INVARIANT QueueInv
 
PROPERTY DeadStaysDead
PROPERTY ImplementsRoundRobin
PROPERTY ReadyRuns
