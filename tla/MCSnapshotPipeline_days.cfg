SPECIFICATION FairSpec
CONSTANTS
    snow = snow
    weather = weather
    statics = statics
    pair = pair
    status = status
    forecast = forecast
    sensors = sensors
    shifts = shifts
    zones = zones
    dag = dag
    cli = cli
    Sources <- FourSources
    Datasets <- ThreeDatasets
    DatasetsOf <- Configured
    Paged <- OnSocrata
    MaxRow = 3
    Initial <- TwoOrThree
    PageSize = 2
    MaxRetries = 2
    Floor <- Floors
    NumDays = 1
    MaxEdits = 1
    MaxRuns = 2
    MaxFaults = 2
    Addresses = status
    MinAddresses = 3
    Statics <- StaticTables
    Expected <- Counts
    Boundary = zones
    MaxUploads = 2
    Forecast = forecast
    Dag = dag
    Cli = cli
    MaxTries = 3
    MaxByHand = 1
INVARIANTS
    TypeOK
    WalkCoversTable
    CheckInIsTrue
    ReferenceTablesChecked
    OutlookIsOfOneVintage
PROPERTIES
    OutlooksAppendOnly
    WholeVintageIsScored
\* All days scored and no more runs by hand: nothing is left to do.
CHECK_DEADLOCK FALSE
