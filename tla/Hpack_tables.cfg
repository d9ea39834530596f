CONSTANTS
    c1 = c1
    c2 = c2
    Conn = {c1, c2}
    Width = 24
    Peer <- TwoPeers
    Spelling <- Texts
    Lower <- LowerCase
    Field <- Fields
    Response <- Responses
    Malformed <- Broken
    Coded = {"~"}
    Layout <- Layouts
    TableSize = 72
    Update = {0, 40}
    MaxInteger = 4200
SPECIFICATION Spec
INVARIANTS
    TypeOK
    DecodesWhatWasSent
    TablesAgree
    FailsOnlyByThese
    IntegersRoundTrip
    HuffmanRoundTrips
