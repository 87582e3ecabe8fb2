SPECIFICATION DriverSpec
CONSTANTS
    Workers = 2
    MaxTotal = 4
    Solvers <- SolversOfSuites
    MaxResident = 2
    Directories <- SomeDirectories
    NoDirectory = NoDirectory
    Blank = Blank
INVARIANTS
    DriverTypeOK
    NoTaskTwice
    AllDoneAtReturn
    ResultsComplete
PROPERTIES
    DriverEnds
CHECK_DEADLOCK FALSE
