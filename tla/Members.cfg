SPECIFICATION Spec
CONSTANTS
    a = a
    b = b
    x = x
    y = y
    i1 = i1
    t1 = t1
    t2 = t2
    Persons = {a, b, x, y}
    InitialAdmins = {a}
    ConfigAdmins = {b}
    Invites = {i1}
    Covers <- Strangers
    Txs = {t1, t2}
    None = None
    Ops = {"reject", "suspend", "identify", "createInvite", "deleteInvite"}
SYMMETRY Symmetry
INVARIANTS
    AnnouncedOnce
    InviteAdmitsOne
    AdminRemains
PROPERTIES
    OnlyAdminsReopen
    ActorsAreAdmins
