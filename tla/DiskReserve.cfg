\* Three jobs of two sizes on a disk that holds two small ones or one large,
\* one of them possibly from a .torrent file, one with a failing statfs, and a
\* limit set by the site.
SPECIFICATION Spec
CONSTANTS
    Tasks = {t1, t2, t3}
    FileTasks = {t3}
    StatErrors = {t2}
    Sizes = {2, 4}
    Capacity = 10
    Limits = {0, 9}
    MinFree = 1
INVARIANTS
    ReservationsBalance
    NoOvercommitUnlessRaced
