SPECIFICATION Spec
CONSTANTS
    Image = {i1}
    EditImage = {i2}
    Uri = {u1}
    Field = {description}
    Text = {x, y}
    Account = {a1}
    Editor = {e1, e2}
    None = None
SYMMETRY Symmetric
INVARIANTS
    TypeOK
    ReferencesResolve
    VerdictTravels
    ObjectMatchesRow
PROPERTIES
    FlagChangedByAdmin
    RowKeepsTexts
