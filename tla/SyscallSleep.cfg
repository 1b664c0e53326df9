CONSTANTS MaxThreads = 2  TickMod = 4  MaxWait = 2
SPECIFICATION SysSpec
PROPERTY SleepReturns
