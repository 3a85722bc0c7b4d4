CONSTANTS
    gzip = gzip
    plain = plain
    page = page
    Requests = {r1, r2}
    Keys = {plain}
    Objects = {o1, o2}
    NoRequest = NoRequest
    NoKey = NoKey
    Nil = Nil
    MaxEntries = 2
    MaxBytes = 3
    Uris = {page}
    UriOf <- MCUriOf
    EntrySize <- MCEntrySize
    MaxVersion = 1
SPECIFICATION FairEdgeSpec
PROPERTIES
    EveryRequestEnds
