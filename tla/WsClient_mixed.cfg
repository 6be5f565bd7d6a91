SPECIFICATION Spec
CONSTANTS
    Manual = {m1}
    Background = {b1}
    Runners = {r1, r2}
    Heartbeats = {h1, h2, h3, h4, h5}
    NoClientTask = NoClientTask
    MaxBackoffs = 2
SYMMETRY TaskSymmetry
INVARIANTS ConnectedBeats
