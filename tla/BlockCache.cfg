\* Two callers and two buckets on a cache with room for one; 2 s block
\* trusted for 1.33 s.
SPECIFICATION CacheSpec
CONSTANTS
    Second = 3
    Limit = 1
    Window = 3
    Block = 6
    Key = {k1, k2}
    NoKey = NoKey
    Request = {c1, c2}
    MaxEntries = 1
    MaxTTL = 4
    MaxFlight = 1
SYMMETRY Symmetry
INVARIANTS
    CacheBounded
    EntryTracksBlock
    UnblockTakesHold
PROPERTIES
    LiveEntryKept
    HitAdvice
