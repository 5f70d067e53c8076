\* Two workers, and worker crashes, on an empty release dir.
CONSTANTS
    Workers = {w1, w2}
    Platforms = {"darwin", "linux"}
    ZipBinaries <- MCZipBinaries
    Chunks = 2
SPECIFICATION Spec
INVARIANT ReturnsCompleteBinary
