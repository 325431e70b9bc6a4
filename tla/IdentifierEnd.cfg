CONSTANTS
    MaxLength = 8
    MaxIdentifier = 6
    SignedUp <- MCSignedUp
    ForbiddenUsernamePrefixes <- MCForbiddenPrefixes
    ForbiddenUsernameSuffixes <- MCForbiddenSuffixes
SPECIFICATION UsernamesSpec
CHECK_DEADLOCK FALSE
INVARIANT IdentifierIsDNS1123
