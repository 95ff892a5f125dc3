\* Stairs along lines, begun at two sectors, and stairs along the specials.
CONSTANTS
    s1 = s1
    s2 = s2
    s3 = s3
    s4 = s4
    s5 = s5
    Nobody = Nobody
    Sectors = {s1, s2, s3, s4, s5}
    Lines <- ThreeSteps
    Path <- SpecialSteps
    BuildStarts = {s1, s4}
    GenStarts = {s2}
    PlainFloors = {s3, s5}
    Resets = {FALSE}
SPECIFICATION StairsFairSpec
INVARIANTS ChainIsLinked
PROPERTIES StairsComplete
