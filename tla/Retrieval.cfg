\* Two databases of one rule and one of another, a schema that changes.
SPECIFICATION ToolSpec
CONSTANTS
    Today = 20200615
    Schemas <- TwoSchemas
    Versions <- Versions2
    Fields <- FourFields
    Requests <- TwoRequests
    CommandLines <- TheLines
    MaxOpenDatabases = 2
    MaxArchives = 2
    MaxCalls = 2
INVARIANTS InspectFinds ListFindsAll
CHECK_DEADLOCK FALSE
