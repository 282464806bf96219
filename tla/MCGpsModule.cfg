SPECIFICATION Spec
CONSTANTS
    SpeedSamples = 4
    Readings <- MCReadings
    NoReading = NoReading
INVARIANTS
    TypeOK
PROPERTIES
    ImplementsWindow
