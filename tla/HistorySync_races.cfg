SPECIFICATION Spec
CONSTANTS
    r1 = r1
    r2 = r2
    Runs = {r1, r2}
    NoRun = NoRun
    MaxId = 1
    PageSize = 2
    VideoIds = {1}
    PhotoIds = {}
    Exports = {{1}}
    SeedTop = 1
    SeedVideos = {}
    SeedPhotos = {}
    SeedComplete = FALSE
    Hazards = {"delete", "rebackfill", "clear", "clearWhileSyncing", "import", "crash", "timeout", "handlerAbort"}
SYMMETRY RunsSymmetry
VIEW CountsView
INVARIANT TypeOK
INVARIANT OneRunWrites
