SPECIFICATION LoadSpec
CONSTANTS
    Thread = {t1, t2}
    Session = {s1, s2}
    Known = {Brussels, NewYork}
    Unknown = {Nowhere}
    Default = Brussels
    NoZone = NoZone
    MaxCasts = 2
    Database = {d1, d2}
    Home = d1
    Nobody = Nobody
INVARIANTS LoadTypeOK ZoneRecorded InSessionZone LoadedIsConfigured ErrorsAreThrown
PROPERTIES LoadsEnd ImplementsMeosThread
