\* URL lengths around every boundary, with and without other outputs.
SPECIFICATION Spec
CONSTANTS
    None = None
    Utf8 <- MCUtf8
    Urls <- MCUrls
    OwnUrl <- MCOwnUrl
    Invoiced <- MCInvoiced
    PutBodies <- MCPutBodies
    Others <- MCOthers
INVARIANTS AnnouncedExactly CreditedExactly
