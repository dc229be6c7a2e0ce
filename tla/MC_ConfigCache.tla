---------------------------- MODULE MC_ConfigCache ----------------------------
EXTENDS ConfigCache

CONSTANTS d1, d2, d3, adapter

MC_Devices == {d1, d2, d3}
MC_Info == {adapter}
MC_Props == {"LinkKey", "LE_KEY_PID", "Name", "Restricted"}

\* a storage Mutation's entries: Add, Remove(section), Remove(section, property)
AddEntry(s, p) == [is_add |-> TRUE, section |-> s, property |-> p, value |-> "v"]
RemoveSectionEntry(s) == [is_add |-> FALSE, section |-> s, property |-> "", value |-> ""]
RemovePropertyEntry(s, p) == [is_add |-> FALSE, section |-> s, property |-> p, value |-> "v"]

\* a pairing written at once, and an unpairing that drops the keys
MC_Mutations ==
    { <<AddEntry(d1, "Name"), AddEntry(d1, "LinkKey"), AddEntry(d1, "LE_KEY_PID")>>,
      <<RemovePropertyEntry(d1, "LinkKey"), RemoveSectionEntry(adapter)>> }
=============================================================================
