CONSTANTS
    MaxReads = 2
    MaxObservations = 2

SPECIFICATION FairSpec

INVARIANTS
    TypeOK
    HungMeansQuiet
    FrozenIsFound
    PngShowsThePpm

PROPERTIES
    ObservationEnds
