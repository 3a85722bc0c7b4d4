CONSTANTS
    gzip = gzip
    plain = plain
    page = page
    Requests = {r1, r2}
    Keys = {gzip, plain}
    Objects = {o1, o2}
    NoRequest = NoRequest
    NoKey = NoKey
    Nil = Nil
    MaxEntries = 2
    MaxBytes = 3
    Uris = {page}
    UriOf <- MCUriOf
    EntrySize <- MCEntrySize
    MaxVersion = 1
SPECIFICATION EdgeSpec
INVARIANT NoStaleAfterWrite
SYMMETRY Symmetry
