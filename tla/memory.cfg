SPECIFICATION SceneSpec
CONSTANTS
    m1 = m1
    m2 = m2
    e1 = e1
    e2 = e2
    Ids = {m1, m2}
    Contents = {"x", "xy"}
    Texts = {"px", "py"}
    PiecesOf <- SharedPieces
    Null = null
    Editors = {e1, e2}
    Summarizers = {"worker"}
    MaxVersions = 3
INVARIANTS
    HistoryComplete
    IndexProvenance
PROPERTIES
    ForgottenStaysForgotten
    ImmutableUntouched
