SPECIFICATION ChannelSpec
CONSTANTS
    small = small
    mid = mid
    large = large
    Elements = {small, mid, large}
    Length <- Lengths
    Memory = 9
    Header = 2
    MaxLen = 2
INVARIANTS
    InMemory
