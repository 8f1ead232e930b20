SPECIFICATION Spec
CONSTANTS
    Letters <- MCLetters
    Class <- MCClass
    Values = {v0, v1}
    Default = v0
    Null = Null
    MaxKey = 2
    MaxText = 3
PROPERTY
    EraseOfOthers
