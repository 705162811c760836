CONSTANTS
    Files = {"main", "mixin"}
    Main = "main"
    Texts <- MCTexts
    Content <- MCContent
    MaxWrites = 3
SPECIFICATION Spec
INVARIANTS TypeOK NothingMissed FingerprintOfFiles ReferencesHold
PROPERTY EventuallyApplied
CHECK_DEADLOCK FALSE
