SPECIFICATION FairSpec
CONSTANTS
    r1 = r1
    r2 = r2
    Runs = {r1, r2}
    NoRun = NoRun
    MaxId = 3
    PageSize = 1
    VideoIds = {1, 3}
    PhotoIds = {2}
    Exports = {}
    SeedTop = 1
    SeedVideos = {1}
    SeedPhotos = {}
    SeedComplete = FALSE
    Hazards = {"rebackfill"}
PROPERTY EventuallyStored
PROPERTY SyncTerminates
