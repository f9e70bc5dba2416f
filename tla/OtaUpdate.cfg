SPECIFICATION Spec
CONSTANTS
    Sectors = 3
    File <- Files
    Announced <- FilesAnnounced
    Sent <- FilesSent
    Intact <- FilesIntact
    Ours <- FilesOurs
    Choices <- NeverSelected
INVARIANTS TypeOK SignedIsComplete GoodUpdateSucceeds DeselectedStays RewriteKeepsCopy
