SPECIFICATION Spec
CONSTANTS
    Small = {"t1"}
    Large = {"t2"}
    Rects = {"window"}
    Aliases = {"color", "depth"}
    Lapses = {}
    None = None
INVARIANTS
    PassesAreLegal
    LayoutsAgree
    DrawsSeeTheState
    AliasesAreCurrent
