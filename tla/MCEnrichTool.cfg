SPECIFICATION Spec
CONSTANTS
    Bytes <- MCBytes
    Alias <- MCAlias
    Originals <- AllOriginals
    Images <- MCImages
    Deleted = {1}
    Memfd = {2}
    MaxRuns = 2
INVARIANTS SliceKept FilesAreWholeOrDebris ManifestIsTrue LayoutsAgree
CHECK_DEADLOCK FALSE
