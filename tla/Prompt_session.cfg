SPECIFICATION Spec
CONSTANTS
    c1 = c1
    c2 = c2
    Cursors = {c1, c2}
    Home = c1
    MaxLines = 2
CHECK_DEADLOCK FALSE
INVARIANTS
    OneReader
    LinesRunInOrder
    LabelIsCurrent
    SomethingIsOnItsWay
PROPERTIES
    OffersAreFresh
    NotKilledUnderThePager
    NobodyHangs
