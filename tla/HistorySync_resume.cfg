SPECIFICATION Spec
CONSTANTS
    r1 = r1
    r2 = r2
    Runs = {r1, r2}
    NoRun = NoRun
    MaxId = 4
    PageSize = 2
    VideoIds = {1, 4}
    PhotoIds = {2, 3}
    Exports = {}
    SeedTop = 3
    SeedVideos = {}
    SeedPhotos = {}
    SeedComplete = FALSE
    Hazards = {"rebackfill", "probe", "backfill", "toggle", "clear"}
SYMMETRY RunsSymmetry
INVARIANT NoGap
INVARIANT CleanRunCatchesUp

 
