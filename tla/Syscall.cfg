CONSTANTS MaxThreads = 3  TickMod = 4  MaxWait = 2
SPECIFICATION SysSpec
INVARIANT FlagClearOnlyInCall
INVARIANT ExitReturnsToConsole
PROPERTY YieldReturns
 
