SPECIFICATION UploadSpec
CONSTANTS
    Uploads = {u1, u2, u3}
    Suffixes = {mp4, mov}
    Mp4 = mp4
    NoFile = no_file
INVARIANTS
    UploadTypeOK
    VideoPlayable
    NothingLeftBehind
SYMMETRY Symmetry
\* All requests have ended.
CHECK_DEADLOCK FALSE
