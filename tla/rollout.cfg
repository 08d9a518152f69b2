SPECIFICATION FairSpec
CONSTANTS
    Instances = {i1, i2}
    Screens = {s1}
    Interval = 2
    CheckTimeout = 1
    Drain = 3
    MaxStops = 2
    MaxOutages = 1
    None = None
INVARIANT NothingRoutedToClosed
PROPERTIES StopEnds ScreensReturn
