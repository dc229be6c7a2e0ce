\* An LRU of one: a device demoted with a link key left is evicted by the next new device.
SPECIFICATION ConfigSpec
CONSTANTS
    d1 = d1
    d2 = d2
    d3 = d3
    adapter = adapter
    Devices <- MC_Devices
    InfoSections <- MC_Info
    Props <- MC_Props
    Mutations <- MC_Mutations
    Capacity = 1
INVARIANT
    NoPairedDeviceEvicted
