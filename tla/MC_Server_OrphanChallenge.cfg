\* Shipped clients: does a challenge outlive its challenger?
CONSTANTS
    n1 = n1
    n2 = n2
    n3 = n3
    Nicks <- MCNicks
    BadNick = BadNick
    Nil = Nil
    FirstFd = 4
    NumConns = 3
    IdMod = 65535
    MaxUserCount = 3
    ChIds = {1, 2}
    MAXHP = 10
    Damages <- MCDamages
    Bonuses <- MCBonuses
    Penalties <- MCPenalties
    MaxSessions = 3
    MaxChallenges = 2
    MaxTurn = 3
    Honest = TRUE
    FreshChIds = TRUE
    Picks <- Acts
SPECIFICATION Spec
SYMMETRY NickSymmetry
CHECK_DEADLOCK FALSE
INVARIANT ChallengerKnown
