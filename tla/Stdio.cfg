\* Two handlers, a cap of three pages, servers of up to four.
SPECIFICATION Spec
CONSTANTS
    d1 = d1
    d2 = d2
    Handler = {h1, h2}
    Definition = {d1, d2}
    Layouts <- Moving
    PageCap = 3
    NoCursor = NoCursor
INVARIANTS
    TypeOK
    NoOrphans
    ListsAreRecent
    CompleteWhenQuiet
PROPERTIES
    PagingEnds
