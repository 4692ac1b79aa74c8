SPECIFICATION TextSpec
CONSTANTS
    Phones = {iphone, ipad}
    Placeholder = placeholder
    NoAssert = noAssert
    MaxText = 2
    MaxFields = 3
INVARIANTS
    FreshField
    KeyboardAgrees
