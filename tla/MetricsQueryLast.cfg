CONSTANTS
    Queries <- MCQueries
    Ranges = {r1, r2}
    Tables <- MCTables
    NoRows = "none"
    Empty = ""
    MaxQueries = 3
SPECIFICATION Spec
PROPERTY LastQueryShown
