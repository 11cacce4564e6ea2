SPECIFICATION FairSpec
CONSTANTS
    Documents <- MCDocuments
    ExporterConfigs <- MCExporterConfigs
    Paths <- MCPaths
    Route <- MCRoute
    Usable <- MCUsable
    Clash <- MCClash
    Decodes <- MCDecodes
INVARIANTS
    ServedAsConfigured
    ExplicitSettingsKept
    NamesDistinguish
    
PROPERTIES
    Stops
CHECK_DEADLOCK FALSE
