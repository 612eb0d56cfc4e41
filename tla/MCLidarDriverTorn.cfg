SPECIFICATION Spec
CONSTANT MaxFrame = 2
INVARIANT GrabbedScanIsWhole
