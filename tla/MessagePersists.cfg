SPECIFICATION Spec
CONSTANTS
    page1 = page1
    page2 = page2
    hook = hook
    Pages <- TwoPages
    Hooks <- OneHook
    Nobody = Nobody
    MaxMessages = 2
    MaxFaults = 1
PROPERTY Persists
