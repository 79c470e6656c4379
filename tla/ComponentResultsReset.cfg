SPECIFICATION Spec
CONSTANTS
    a = a  b = b  ja = ja  jb = jb  x = x
    Nodes = {a, b}
    Shapes <- AllShapes
    Jobs <- AllJobs
    Sessions = {1, 2, 3, 4}
    Interrupting = {4}
    Scenes <- ResetScenes
    MaxGen = 3
    None = None
CHECK_DEADLOCK FALSE
INVARIANTS ResetPossible
