SPECIFICATION FamSpec
CONSTANTS
    Families = {f1}
    Variants = {s1}
    Assets = {a1}
    Owner <- OwnerOf
    Dimensions <- SomeDimensions
    Forms <- SomeForms
    Writers = {w1, w2}
    Granters = {}
    MaxManifests = 1
    MaxGrants = 0
CHECK_DEADLOCK FALSE
INVARIANT ShownManifestIsComplete
