\* Shipped clients, two challenges in play at once, each fought for up to
\* three turns: the lobby, and battles to a knockout or a forfeit.
CONSTANTS
    n1 = n1
    n2 = n2
    n3 = n3
    Nicks <- MCNicks
    BadNick = BadNick
    Nil = Nil
    FirstFd = 4
    NumConns = 3
    IdMod = 65535
    MaxUserCount = 3
    ChIds = {1, 2}
    MAXHP = 10
    Damages <- MCDamages
    Bonuses <- MCBonuses
    Penalties <- MCPenalties
    MaxSessions = 3
    MaxChallenges = 2
    MaxTurn = 3
    Honest = TRUE
    FreshChIds = TRUE
    Picks <- MCPicks
SPECIFICATION Spec
SYMMETRY NickSymmetry
VIEW LiveView
CHECK_DEADLOCK FALSE
INVARIANT NoCrash
INVARIANT RegistryConsistent
INVARIANT BattleConsistent
INVARIANT TypeOK
PROPERTY ScoreChangesOnlyWhenBattleEnds
PROPERTY ForfeitGoesToOpponent
