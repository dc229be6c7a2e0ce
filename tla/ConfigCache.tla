----------------------------- MODULE ConfigCache -----------------------------
(***************************************************************************)
(* storage::ConfigCache (the part of gd/packet/parser/test/variable.h from  *)
(* line 1412): sections of properties in three maps.  information_sections_ *)
(* holds sections that are not device addresses, persistent_devices_ the    *)
(* devices holding a link key, and temporary_devices_ every other device,   *)
(* in an LRU cache of fixed capacity that evicts its least recently used    *)
(* section to make room.                                                    *)
(*                                                                          *)
(* A property's value is abstracted away: a section is the set of its       *)
(* property names.  The LRU cache (common::LruCache, not in the sources) is *)
(* a sequence, most recently used first: find() moves a section to the      *)
(* front, contains() does not, and an insertion into a full cache drops the *)
(* last one.  Every method holds mutex_ (a recursive mutex) throughout, so  *)
(* each is one step; its result is returned and left out.                  *)
(***************************************************************************)
EXTENDS Integers, Sequences, SequencesExt, Functions, TLC

CONSTANTS
    InfoSections,   \* section names that are not device addresses
    Devices,        \* section names that are device addresses
    Props,          \* property names callers use
    Capacity,       \* temp_device_capacity
    Mutations       \* mutations callers Commit: sequences of entries

ASSUME Capacity \in Nat \ {0} /\ InfoSections \cap Devices = {}

Sections == InfoSections \cup Devices

VARIABLES
    cache,          \* the three maps; see CacheValue
    iterInvalidated \* RemoveRestricted advanced an iterator whose node it freed

cacheVars == <<cache, iterInvalidated>>

(* cache.info and cache.pers are functions from the sections present to     *)
(* their properties; cache.temp the LRU list; cache.lostPaired records that *)
(* an eviction dropped a section holding a link key (history, for the       *)
(* properties only).                                                        *)
CacheValue ==
    [info : UNION {[S -> SUBSET Props] : S \in SUBSET InfoSections},
     pers : UNION {[S -> SUBSET Props] : S \in SUBSET Devices},
     temp : Seq([sec : Devices, props : SUBSET Props]),
     lostPaired : BOOLEAN]

\* kLinkKeyPropertyNames / IsLinkKeyProperty
kLinkKeyPropertyNames ==
    {"LinkKey", "LE_KEY_PENC", "LE_KEY_PID", "LE_KEY_PCSRK", "LE_KEY_LENC", "LE_KEY_LCSRK"}
IsLinkKeyProperty(p) == p \in kLinkKeyPropertyNames
HasLinkKey(props) == props \cap kLinkKeyPropertyNames # {}

\* IsDeviceSection: hci::Address::IsValidAddress(section)
IsDeviceSection(s) == s \in Devices

ConfigTypeOK ==
    /\ cache \in CacheValue
    /\ Len(cache.temp) <= Capacity
    /\ iterInvalidated \in BOOLEAN

\* ConfigCache(temp_device_capacity): three empty maps
ConfigInit ==
    /\ cache = [info |-> <<>>, pers |-> <<>>, temp |-> <<>>, lostPaired |-> FALSE]
    /\ iterInvalidated = FALSE

-----------------------------------------------------------------------------
(* The LRU cache of temporary devices.                                      *)
TempSecs(c) == {c.temp[i].sec : i \in 1..Len(c.temp)}
TempIdx(c, s) == CHOOSE i \in 1..Len(c.temp) : c.temp[i].sec = s

\* find(s): the entry of s moves to the front
LruFind(c, s) ==
    LET i == TempIdx(c, s)
    IN [c EXCEPT !.temp = <<c.temp[i]>> \o RemoveAt(c.temp, i)]

\* mutant: the cache admits one entry more than its capacity
LruInsertOverfull(c, e) ==
    LET full == Len(c.temp) > Capacity
    IN [c EXCEPT !.temp = <<e>> \o (IF full THEN Front(c.temp) ELSE c.temp),
                 !.lostPaired = @ \/ (full /\ HasLinkKey(Last(c.temp).props))]

\* a new entry at the front; a full cache first drops its last entry
LruInsert(c, e) ==
    LET full == Len(c.temp) = Capacity
    IN [c EXCEPT !.temp = <<e>> \o (IF full THEN Front(c.temp) ELSE c.temp),
                 !.lostPaired = @ \/ (full /\ HasLinkKey(Last(c.temp).props))]

\* extract(s): the entry is removed
LruExtract(c, s) == [c EXCEPT !.temp = RemoveAt(@, TempIdx(c, s))]

\* insert_or_assign(s, props): replace and move to the front, or insert
LruInsertOrAssign(c, s, props) ==
    LruInsert(IF s \in TempSecs(c) THEN LruExtract(c, s) ELSE c, [sec |-> s, props |-> props])

\* section_iter->second.insert_or_assign(property, value) on a ListMap
AddProp(f, s, p) == IF s \in DOMAIN f THEN [f EXCEPT ![s] = @ \cup {p}] ELSE (s :> {p}) @@ f

\* the same section without property p
DropSection(f, s) == Restrict(f, DOMAIN f \ {s})

-----------------------------------------------------------------------------
\* mutant: the paired device is copied to persistent_devices_ and left in the LRU
PromoteKeepTemp(c, s) == [c EXCEPT !.pers = (s :> c.temp[1].props) @@ @]

(* "move paired devices": extract the section from temporary_devices_ and   *)
(* insert_or_assign it into persistent_devices_.  The section is the LRU's  *)
(* front entry, just found or emplaced.                                     *)
PromotePaired(c, s) ==
    [c EXCEPT !.pers = (s :> c.temp[1].props) @@ @, !.temp = Tail(@)]

(* SetProperty: a non-device section is found or appended in               *)
(* information_sections_; a device in persistent_devices_ takes the         *)
(* property there; otherwise the device is found (or try_emplace'd) in      *)
(* temporary_devices_, takes the property, and moves to persistent_devices_ *)
(* if the property is a link key.                                           *)
SetPropertyOp(c, s, p) ==
    CASE ~IsDeviceSection(s) -> [c EXCEPT !.info = AddProp(@, s, p)]
      [] s \in DOMAIN c.pers -> [c EXCEPT !.pers = AddProp(@, s, p)]
      [] OTHER ->
           LET c1 == IF s \in TempSecs(c) THEN LruFind(c, s)
                     ELSE LruInsert(c, [sec |-> s, props |-> {}])
               c2 == [c1 EXCEPT !.temp[1].props = @ \cup {p}]
           IN IF IsLinkKeyProperty(p) THEN PromotePaired(c2, s) ELSE c2

(* RemoveSection: extract from information_sections_, else from             *)
(* persistent_devices_, else from temporary_devices_: the || stops at the   *)
(* first map that held the section.                                         *)
RemoveSectionOp(c, s) ==
    CASE s \in DOMAIN c.info -> [c EXCEPT !.info = DropSection(@, s)]
      [] s \in DOMAIN c.pers -> [c EXCEPT !.pers = DropSection(@, s)]
      [] s \in TempSecs(c)   -> LruExtract(c, s)
      [] OTHER -> c

\* mutant: removing a link key never moves the device out of persistent_devices_
RemovePersistentPropertyKeep(c, s, p) == [c EXCEPT !.pers[s] = @ \ {p}]

(* RemoveProperty on a persistent device: extract the property; if it was   *)
(* there and is a link key, "move unpaired device": the whole section is    *)
(* extracted and insert_or_assign'ed into temporary_devices_.               *)
RemovePersistentProperty(c, s, p) ==
    IF p \in c.pers[s] /\ IsLinkKeyProperty(p)
    THEN LruInsertOrAssign([c EXCEPT !.pers = DropSection(@, s)], s, c.pers[s] \ {p})
    ELSE [c EXCEPT !.pers[s] = @ \ {p}]

(* RemoveProperty: the first map holding the section loses the property;  *)
(* the LRU's find() makes a temporary device the most recently used.        *)
RemovePropertyOp(c, s, p) ==
    CASE s \in DOMAIN c.info -> [c EXCEPT !.info[s] = @ \ {p}]
      [] s \in DOMAIN c.pers -> RemovePersistentProperty(c, s, p)
      [] s \in TempSecs(c)   ->
           LET c1 == LruFind(c, s) IN [c1 EXCEPT !.temp[1].props = @ \ {p}]
      [] OTHER -> c

(* One entry of a Mutation, as Commit applies it: an add is SetProperty, a  *)
(* removal with an empty value RemoveSection, any other RemoveProperty.     *)
ApplyEntry(c, e) ==
    CASE e.is_add       -> SetPropertyOp(c, e.section, e.property)
      [] e.value = ""   -> RemoveSectionOp(c, e.section)
      [] OTHER          -> RemovePropertyOp(c, e.section, e.property)


-----------------------------------------------------------------------------
(* The public methods, each under mutex_.                                   *)
SetProperty(s, p) ==
    /\ cache' = SetPropertyOp(cache, s, p)
    /\ UNCHANGED iterInvalidated

RemoveSection(s) ==
    /\ cache' = RemoveSectionOp(cache, s)
    /\ UNCHANGED iterInvalidated

RemoveProperty(s, p) ==
    /\ cache' = RemovePropertyOp(cache, s, p)
    /\ UNCHANGED iterInvalidated

(* HasProperty and GetProperty look the section up with find() in each map  *)
(* in turn: on a temporary device the lookup makes it the most recently     *)
(* used; otherwise they change nothing.                                     *)
HasProperty(s) ==
    /\ s \in TempSecs(cache)
    /\ cache' = LruFind(cache, s)
    /\ UNCHANGED iterInvalidated

GetProperty(s) ==
    /\ s \in TempSecs(cache)
    /\ cache' = LruFind(cache, s)
    /\ UNCHANGED iterInvalidated

\* Clear: the three maps emptied
Clear ==
    /\ cache' = [cache EXCEPT !.info = <<>>, !.pers = <<>>, !.temp = <<>>]
    /\ UNCHANGED iterInvalidated

(* RemoveRestricted: a range-for over persistent_devices_ extracts every    *)
(* section holding "Restricted".  extract() frees the list node the loop's *)
(* iterator points to, and the loop then increments that iterator:         *)
(* undefined behaviour.  The outcome modelled is the one where the freed   *)
(* node still reads as before: every restricted device is removed.         *)
RemoveRestricted ==
    LET restricted == {s \in DOMAIN cache.pers : "Restricted" \in cache.pers[s]}
    IN /\ cache' = [cache EXCEPT !.pers = Restrict(@, DOMAIN @ \ restricted)]
       /\ iterInvalidated' = (iterInvalidated \/ restricted # {})

(* Commit: the mutation's entries, popped from the front of its queue and   *)
(* applied one after another, all under one hold of mutex_.                 *)
Commit(m) ==
    /\ cache' = FoldLeft(ApplyEntry, cache, m)
    /\ UNCHANGED iterInvalidated

ConfigNext ==
    \/ \E s \in Sections, p \in Props : SetProperty(s, p) \/ RemoveProperty(s, p)
    \/ \E s \in Sections : RemoveSection(s) \/ HasProperty(s) \/ GetProperty(s)
    \/ Clear
    \/ RemoveRestricted
    \/ \E m \in Mutations : Commit(m)

ConfigSpec == ConfigInit /\ [][ConfigNext]_cacheVars

-----------------------------------------------------------------------------
(* "sections are unique among all three maps, hence removing from one of    *)
(* them is enough" (RemoveSection): no section is in two maps, whatever     *)
(* sequence of SetProperty, RemoveProperty and Commit moved it about.        *)
SectionsUnique ==
    /\ DOMAIN cache.pers \cap TempSecs(cache) = {}
    /\ Len(cache.temp) = Cardinality(TempSecs(cache))

(* Every device in persistent_devices_ holds a link key: SetProperty moves  *)
(* a device there only with a link key, and RemoveProperty moves it back    *)
(* to temporary_devices_ when it loses one.                                  *)
PersistentDevicesArePaired ==
    \A s \in DOMAIN cache.pers : HasLinkKey(cache.pers[s])

(* A device holding a link key is never evicted from the LRU: paired        *)
(* devices live in persistent_devices_, which does not evict ("move         *)
(* unpaired device" is the only way back).                                  *)
NoPairedDeviceEvicted == ~cache.lostPaired

(* RemoveRestricted never advances an iterator whose node it freed.         *)
NoInvalidatedIterator == ~iterInvalidated

=============================================================================
