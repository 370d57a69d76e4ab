SPECIFICATION Spec
CONSTANTS
    r1 = r1
    r2 = r2
    Runs = {r1, r2}
    NoRun = NoRun
    MaxId = 3
    PageSize = 1
    VideoIds = {1,2,3}
    PhotoIds = {}
    Exports = {}
    SeedTop = 1
    SeedVideos = {1}
    SeedPhotos = {}
    SeedComplete = TRUE
    Hazards = {"timeout"}
SYMMETRY RunsSymmetry
INVARIANT CleanRunCatchesUp
