\* Two goroutines at a time, two models, one request that may be served late.
SPECIFICATION Spec
CONSTANTS
    m1 = m1
    m2 = m2
    m3 = m3
    Slots = {w1, w2}
    Packages <- MCPackages
    Default = Default
    NoModel = NoModel
    Nobody = Nobody
    MaxLate = 1
SYMMETRY MCSymmetry
INVARIANTS TypeOK RecordTruthful RoutedPromptGetsItsModel NamedModelHasPrompt
