SPECIFICATION OrderSpec
CONSTANT Graphs <- GraphsAll
INVARIANTS OrderInvariant CyclesBrokenWell OutputRight
PROPERTY SearchAdvances
