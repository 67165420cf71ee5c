CONSTANTS
    Legs = {1, 2}
    Whitelist = {"lan", "mesh", "exit"}
    Exit = "exit"
    Static <- StaticRoutes
    Mesh <- MeshRoutes
    Window = 1
    Environments <- All
SPECIFICATION Spec
INVARIANTS CaughtUp
PROPERTIES TunnelsKept LegsReturn
CHECK_DEADLOCK FALSE
