SPECIFICATION Spec
CONSTANTS
    Documents <- MCDocuments
    ExporterConfigs <- MCExporterConfigs
    Paths <- MCPaths
    Route <- MCRoute
    Usable <- MCUsable
    Clash <- MCClash
    Decodes <- MCDecodes
INVARIANTS
    DefaultTimeoutApplies
CHECK_DEADLOCK FALSE
