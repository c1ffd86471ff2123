SPECIFICATION Spec
CONSTANTS
    MaxSize = 6
INVARIANTS
    MainPathIfEscaped
    UrlRoundTrip
    
