SPECIFICATION RefSpec
CONSTANTS
    Requests = {r1}
    Tokens = {}
    Masks <- SomeMasks
    Texts = {"a"}
    MaxReferences = 2
    MaxPictures = 1
    Width = 3
    Height = 2
CHECK_DEADLOCK FALSE
INVARIANT PublishedItemsShow
