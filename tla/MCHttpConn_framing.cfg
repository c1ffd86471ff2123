SPECIFICATION Spec
CONSTANTS
    Kinds = {"get", "getbody", "post", "length", "short", "fails", "blank", "text", "chunked", "coded", "garbled"}
    MaxRequests = 3
    MaxPackage = 12
    Cuts = {"anywhere", "lines", "whole", "bodies"}
INVARIANTS
    TypeOK
    HandledInOrder
    
    
    
