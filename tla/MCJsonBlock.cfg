CONSTANTS
    MaxLength = 6
    Null = Null
SPECIFICATION Spec
INVARIANTS TypeOK IInv FindsFirstObject TruncatedGivesNothing PrefixIsOpen
