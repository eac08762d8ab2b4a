CONSTANTS
    None = None
    Id = {c1, c2, c3, c4, c5, c6}
    MaxOpen = 5
    MaxRushed = 4
    MaxThrown = 1
SPECIFICATION Spec
INVARIANTS TypeOK MeetsItsScreen ParentsOutliveForms WindowsAreInitialised OneMain NeverTrapped TopAnswers
SYMMETRY Symmetry
CHECK_DEADLOCK FALSE
