CONSTANTS Measurements = {temp, lumin}
          Tags = {location, dev}
          Colors = {red, blue}
          ChartPages = {"sensors", "energy"}
          Ids = {u1, u2}
          MaxSaved = 1
          None = None
SPECIFICATION ChartsSpec
SYMMETRY Symmetry
INVARIANTS ShowsLastQuery LegendTrue SettingsStored
CHECK_DEADLOCK FALSE
