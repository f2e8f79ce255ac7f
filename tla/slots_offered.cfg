SPECIFICATION CatalogueSpec
CONSTANTS
    DayLength = 6
    WeekLength = 7
    MaxNights = 2
    None = None
    LastDay = 3
    Zones <- MCZones
INVARIANTS
    SlotsTileTheDays
    PeriodsAreOffered
