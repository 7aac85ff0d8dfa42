SPECIFICATION DraftSpec
CONSTANTS
    Drafts = {d1, d2}
    AssetIds = {1, 2}
    Contents = {"c1", "c2"}
    Hash <- MCHash
    Shape <- MCShape
    Texts = {"t"}
    Tabs = {tab1, tab2}
    Exports <- MCExports
    MaxHistory = 2
    MaxWrites = 3
    None = None
SYMMETRY Symmetry
INVARIANTS RevisionDeterminesDraft
PROPERTIES KeepsCopies
CHECK_DEADLOCK FALSE
