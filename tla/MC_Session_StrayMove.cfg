\* A user of the shipped client acts as soon as its battle is announced.
CONSTANTS
    n1 = n1
    n2 = n2
    n3 = n3
    Nicks <- MCNicks2
    Nil = Nil
    FirstFd = 4
    NumConns = 2
    IdMod = 65535
    MaxUserCount = 3
    ChIds = {1, 2}
    MAXHP = 10
    Damages <- MCDamages
    Bonuses <- MCBonuses
    Penalties <- MCPenalties
    FreshChIds = TRUE
    MaxStarts = 2
    MaxMoves = 1
    Picks <- MCPicks
    MaxKills = 1
    ann = ann
    Bob = Bob
    bob = bob
    cat = cat
    Ids = {4, 5, 6}
    Names <- MCNames
    CaseFold <- MCCaseFold
    Scores <- MCScores
    MaxUsers = 3
SPECIFICATION Spec
SYMMETRY NickSymmetry
CHECK_DEADLOCK FALSE
PROPERTY MovesReachOwnBattle
