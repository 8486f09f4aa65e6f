SPECIFICATION FairTrackingSpec
CONSTANTS
    Drivers = {d1, d2}
    Posting = {d1}
    MaxUnderWay = 3
    NoOne = NoOne
INVARIANTS
    TrackingTypeOK
    PositionsExplained
PROPERTIES
    PositionsFade
