SPECIFICATION FairSpec
CONSTANTS
    Manual = {}
    Background = {b1}
    Runners = {r1, r2}
    Heartbeats = {h1, h2, h3}
    NoClientTask = NoClientTask
    MaxBackoffs = 2
PROPERTIES Reconnects
