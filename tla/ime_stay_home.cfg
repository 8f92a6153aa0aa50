\* a statement of the documentation the code does not keep
SPECIFICATION Spec
CONSTANTS
    c1 = c1
    c2 = c2
    l1 = l1
    Clients = {c1, c2}
    Letters = {l1}
    Events = {"switch"}
    MaxEdits = 1
    None = None
    Maint = Maint
INVARIANT LettersStayHome
