SPECIFICATION Spec
CONSTANTS
    r1 = r1
    r2 = r2
    Runs = {r1, r2}
    NoRun = NoRun
    MaxId = 4
    PageSize = 2
    VideoIds = {1, 4}
    PhotoIds = {3}
    Exports = {}
    SeedTop = 3
    SeedVideos = {}
    SeedPhotos = {}
    SeedComplete = FALSE
    Hazards = {"rebackfill", "clear", "crash", "timeout", "probe", "cursorRead", "incremental", "backfill", "torn"}
SYMMETRY RunsSymmetry
VIEW ControlView
INVARIANT BottomCovered
