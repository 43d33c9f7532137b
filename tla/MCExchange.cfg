CONSTANTS
    None = None
    Patterns = {"fake_role_header", "system_tag", "new_instructions"}
    DefaultMaxTokens = 4096
    DefaultRetryStatuses = {408, 409, 425, 429, 500, 502, 503, 504, 529}
    PriceTable <- MCPriceTable
    Overrides <- MCOverrides
    Calls <- MCCalls
SPECIFICATION Spec
CHECK_DEADLOCK FALSE
INVARIANTS
    TypeOK
    SentSaysTheSame
    MaskedFaithfully
    ReplyReadsTheSame
    EveryTokenPricedOnce
    RetriedOnceReset
