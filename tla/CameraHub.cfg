CONSTANTS Sockets = {s1, s2}
          Viewers = {v1}
          MaxHistory = 2
          MaxCommands = 3
          MaxUp = 2
          Nobody = Nobody
SPECIFICATION FairSpec
INVARIANTS OneSession RateIsTrue HistoryIsTrue
PROPERTY RateSettles
CHECK_DEADLOCK FALSE
