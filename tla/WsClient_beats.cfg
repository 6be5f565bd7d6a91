SPECIFICATION Spec
CONSTANTS
    Manual = {m1}
    Background = {b1}
    Runners = {r1}
    Heartbeats = {h1, h2, h3, h4}
    NoClientTask = NoClientTask
    MaxBackoffs = 2
INVARIANT OneHeartbeat
