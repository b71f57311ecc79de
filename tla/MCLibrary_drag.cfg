\* parseDragInfo against the files setupDragInfo wrote.
CONSTANTS
    Args <- MCArgs
    NullKey = NullKey
    MaxSteps <- MCMaxSteps
SPECIFICATION Spec
INVARIANT DragFilesKept
