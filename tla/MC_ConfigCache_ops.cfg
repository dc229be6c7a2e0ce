\* Three devices, an adapter section, an LRU of two: every method and two mutations.
SPECIFICATION ConfigSpec
CONSTANTS
    d1 = d1
    d2 = d2
    d3 = d3
    adapter = adapter
    Devices <- MC_Devices
    InfoSections <- MC_Info
    Props <- MC_Props
    Mutations <- MC_Mutations
    Capacity = 2
INVARIANTS
    ConfigTypeOK
    SectionsUnique
    PersistentDevicesArePaired
