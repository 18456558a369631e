SPECIFICATION MCSpec
CONSTANTS
    off = off
    MaxFaults = 1
    Runs = {"r1", "r2"}
    Config <- OracleConfig
    Tables <- OracleTables
    owner <- OracleOwner
    Skipped = {"container_dmp_path"}
    Stoppable = {"r1"}
    Restores <- ServerConfig
    Files <- ServerFiles
    Databases = {"A", "B"}
    normal <- ServerNormal
    Routines = {"trigger"}
 
PROPERTIES  DumpRestored 
CHECK_DEADLOCK FALSE
