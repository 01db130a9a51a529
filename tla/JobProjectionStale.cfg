SPECIFICATION Spec
CONSTANTS
    text = text
    image = image
    c1 = c1
    c2 = c2
    c3 = c3
    Items = {text, image}
    TextItems = {text}
    Clients = {c1, c2, c3}
    Nobody = Nobody
    NoItem = NoItem
    MaxExecutions = 2
INVARIANT NoStaleRunning
