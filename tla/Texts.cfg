SPECIFICATION TextsSpec
CONSTANTS
    InitBufferSize = 4
    PieceSizes = {0, 1, 2, 7}
    MaxTokens = 12
    MaxLength = 30
    MaxChildren = 3
    InitBlockSize = 4
    InitSize = 2
    Code <- CodeOf
    Strings <- SomeStrings
    MaxKept = 3
    MaxValues = 2
INVARIANT BufferHolds
INVARIANT CutsDontMatter
INVARIANT ToldAsWritten
INVARIANT FollowsGrammar
INVARIANT ReadBack
INVARIANT FindsWhatIsMeant
INVARIANT NamesAreFound
INVARIANT StringsStay
CHECK_DEADLOCK FALSE
