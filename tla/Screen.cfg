SPECIFICATION Spec
CONSTANTS
    FadeIn = 1
    Held = 2
    Life = 3
    Suppress = 1
    Settings <- MCSettings
    Viewports = {4, 9}
    Users <- MCUsers
    Batch = 2
INVARIANTS TypeOK SamplesGoWithPreview SpeakersAreShown BlockOnScreen
 
