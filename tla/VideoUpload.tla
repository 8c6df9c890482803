------------------------------ MODULE VideoUpload ------------------------------
(* Uploading a camera's video: CameraService.upload_video with               *)
(* utils/video.py, the camera's row, and the files the upload directory      *)
(* keeps for the camera.  A video is identified with the upload that sent it.*)
EXTENDS Naturals, FiniteSets

CONSTANTS Uploads,   \* the upload requests; each sends one video
          Suffixes,  \* _ALLOWED_VIDEO_SUFFIXES
          Mp4,       \* the suffix ".mp4"
          NoFile     \* a stream_url that is no file of the upload directory

ASSUME SuffixAssumption == Mp4 \in Suffixes

VARIABLES
    pc,        \* where each request is
    suffix,    \* of the file it sends
    seen,      \* the stream_url its session loaded
    handle,    \* the file it has open
    row,       \* the committed stream_url
    write,     \* the stream_url it assigned to the row it loaded
    lock,      \* the request whose UPDATE holds the row's lock
    disk,      \* the camera's files: name -> file
    content,   \* file -> whose bytes are in it, and whether they are all there
    ffmpeg,    \* shutil.which("ffmpeg") finds it
    alone,     \* history: the requests that nothing overlapped so far
    mess,      \* history: an overlap or a failure no later upload has made good
    last       \* history: the last upload committed, and its path

request == <<pc, suffix, seen, handle, write>>
files == <<disk, content>>
history == <<alone, mess, last>>
uploadVars == <<request, row, lock, files, ffmpeg, history>>

Name == [staged: BOOLEAN, suffix: Suffixes]
\* {camera_id}.mp4 and {camera_id}_upload{suffix}
Target == [staged |-> FALSE, suffix |-> Mp4]
Staged(s) == [staged |-> TRUE, suffix |-> s]

File == Uploads \X {"raw", "encoded"}
Stages == {"idle", "loaded", "writing", "flush", "commit", "ended"}
Uploading == {u \in Uploads : pc[u] \in {"loaded", "writing", "flush", "commit"}}

\* A file that holds one video, and all of it.
Intact(f) == content[f].whole /\ Cardinality(content[f].by) = 1

\* CameraDetailRead.has_video, and the test of stream_camera_video.
HasVideo == row # NoFile /\ row \in DOMAIN disk

\* A directory without some names, and with one more.
Without(d, names) == [n \in DOMAIN d \ names |-> d[n]]
With(d, n, f) == [m \in DOMAIN d \cup {n} |-> IF m = n THEN f ELSE d[m]]

UploadInit ==
    /\ pc = [u \in Uploads |-> "idle"]
    /\ suffix = [u \in Uploads |-> Mp4]
    /\ seen = [u \in Uploads |-> NoFile]
    /\ write = [u \in Uploads |-> NoFile]
    /\ handle = [u \in Uploads |-> <<u, "raw">>]
    /\ row = NoFile
    /\ lock = {}
    /\ disk = [n \in {} |-> <<>>]
    /\ content = [f \in File |-> [by |-> {}, whole |-> FALSE]]
    /\ ffmpeg \in BOOLEAN
    /\ alone = {}
    /\ mess = FALSE
    /\ last = {}

-----------------------------------------------------------------------------
(* upload_video                                                              *)

\* _require, and the file's suffix is allowed.
Receive(u) ==
    /\ pc[u] = "idle"
    /\ pc' = [pc EXCEPT ![u] = "loaded"]
    /\ seen' = [seen EXCEPT ![u] = row]
    /\ \E s \in Suffixes : suffix' = [suffix EXCEPT ![u] = s]
    /\ alone' = IF Uploading = {} THEN alone \cup {u} ELSE alone \ Uploading
    /\ mess' = (mess \/ Uploading # {})
    /\ UNCHANGED <<handle, write, row, lock, files, ffmpeg, last>>

\* temp_target.open("wb"): truncates a file that is there already.
Stage(u) ==
    LET name == Staged(suffix[u])
        f == IF name \in DOMAIN disk THEN disk[name] ELSE <<u, "raw">>
    IN  /\ pc[u] = "loaded"
        /\ pc' = [pc EXCEPT ![u] = "writing"]
        /\ handle' = [handle EXCEPT ![u] = f]
        /\ disk' = With(disk, name, f)
        /\ content' = [content EXCEPT ![f] = [by |-> {u}, whole |-> FALSE]]
        /\ UNCHANGED <<suffix, seen, write, row, lock, ffmpeg, history>>

\* A chunk written into a file that another upload has truncated since.
Chunk(u) ==
    /\ pc[u] = "writing"
    /\ content' = [content EXCEPT ![handle[u]] =
                     [by |-> content[handle[u]].by \cup {u}, whole |-> FALSE]]
    /\ UNCHANGED <<request, row, lock, disk, ffmpeg, history>>

\* The request ends without a commit.
Abandon(u) ==
    /\ pc' = [pc EXCEPT ![u] = "ended"]
    /\ UNCHANGED <<suffix, seen, handle, write, row>>

\* Mutant: the staged file is not unlinked.
TooBigStays(u) ==
    /\ pc[u] = "writing"
    /\ Abandon(u)
    /\ mess' = (mess \/ row = Staged(suffix[u]))
    /\ UNCHANGED <<lock, files, ffmpeg, alone, last>>

\* written > max_bytes: the staged name is unlinked and the request refused.
TooBig(u) ==
    /\ pc[u] = "writing"
    /\ Abandon(u)
    /\ disk' = Without(disk, {Staged(suffix[u])})
    /\ mess' = (mess \/ row = Staged(suffix[u]))
    /\ UNCHANGED <<lock, content, ffmpeg, alone, last>>

\* out.write raises (the disk is full): the staged file stays as it is.
WriteFails(u) ==
    /\ pc[u] = "writing"
    /\ Abandon(u)
    /\ mess' = TRUE
    /\ UNCHANGED <<lock, files, ffmpeg, alone, last>>

\* The loop of normalize_uploaded_video: every other file of the camera goes.
Cleaned(d, source) == Without(d, DOMAIN d \ {source, Target})

\* Mutant: the raw file is not renamed.
KeepRawUnrenamed(u, d, c) ==
    /\ disk' = IF ffmpeg THEN Without(d, {Target}) ELSE d
    /\ content' = c
    /\ write' = [write EXCEPT ![u] = IF suffix[u] = Mp4 THEN Target ELSE Staged(suffix[u])]

\* Mutant: only the renamed file is returned, and nothing for another suffix.
KeepRawUnreturned(u, d, c) ==
    /\ suffix[u] = Mp4 => Staged(Mp4) \in DOMAIN d
    /\ disk' = IF suffix[u] = Mp4
               THEN With(Without(d, {Staged(Mp4)}), Target, d[Staged(Mp4)]) ELSE d
    /\ content' = c
    /\ write' = [write EXCEPT ![u] = IF suffix[u] = Mp4 THEN Target ELSE NoFile]

\* transcode_to_h264_mp4 returns FALSE: the destination is gone (unless there
\* is no ffmpeg).  The raw file is kept, under the target's name if its
\* suffix is right.
KeepRaw(u, d, c) ==
    LET source == Staged(suffix[u])
        rest == IF ffmpeg THEN Without(d, {Target}) ELSE d
    IN  /\ suffix[u] = Mp4 => source \in DOMAIN d
        /\ disk' = IF suffix[u] = Mp4
                   THEN With(Without(rest, {source}), Target, d[source]) ELSE rest
        /\ content' = c
        /\ write' = [write EXCEPT ![u] = IF suffix[u] = Mp4 THEN Target ELSE source]

\* ffmpeg -y rewrites the target where it is; the staged file is unlinked.
Encode(u, d, c) ==
    LET source == Staged(suffix[u])
        f == IF Target \in DOMAIN d THEN d[Target] ELSE <<u, "encoded">>
    IN  /\ ffmpeg /\ source \in DOMAIN d
        /\ disk' = With(Without(d, {source}), Target, f)
        /\ content' = [c EXCEPT ![f] = c[d[source]]]
        /\ write' = [write EXCEPT ![u] = Target]

\* The bytes of the last chunk of u have been written.
Completed(u) ==
    LET by == content[handle[u]].by \cup {u}
    IN  [content EXCEPT ![handle[u]] = [by |-> by, whole |-> by = {u}]]

\* The last chunk.  normalize_uploaded_video, which awaits nothing (the event
\* loop waits for ffmpeg), and the assignment to the row's object.
Normalise(u) ==
    /\ pc[u] = "writing"
    /\ pc' = [pc EXCEPT ![u] = "flush"]
    /\ LET d == Cleaned(disk, Staged(suffix[u]))
           c == Completed(u)
       IN  Encode(u, d, c) \/ KeepRaw(u, d, c)
    /\ UNCHANGED <<suffix, seen, handle, row, lock, ffmpeg, history>>

\* source.replace finds that another upload has unlinked the staged file.
NormaliseRaises(u) ==
    /\ pc[u] = "writing"
    /\ suffix[u] = Mp4
    /\ Staged(Mp4) \notin DOMAIN disk
    /\ Abandon(u)
    /\ disk' = Without(Cleaned(disk, Staged(Mp4)), IF ffmpeg THEN {Target} ELSE {})
    /\ content' = Completed(u)
    /\ mess' = TRUE
    /\ UNCHANGED <<lock, ffmpeg, alone, last>>

\* session.flush(): an attribute that is as it was loaded is not written.  An
\* UPDATE waits for the row's lock.
FlushUpload(u) ==
    /\ pc[u] = "flush"
    /\ write[u] # seen[u] => lock = {}
    /\ lock' = IF write[u] # seen[u] THEN {u} ELSE lock
    /\ pc' = [pc EXCEPT ![u] = "commit"]
    /\ UNCHANGED <<suffix, seen, handle, write, row, files, ffmpeg, history>>

\* get_db commits.
CommitUpload(u) ==
    /\ pc[u] = "commit"
    /\ pc' = [pc EXCEPT ![u] = "ended"]
    /\ row' = IF u \in lock THEN write[u] ELSE row
    /\ lock' = lock \ {u}
    /\ last' = {[upload |-> u, path |-> write[u]]}
    /\ mess' = IF u \in alone THEN FALSE ELSE TRUE
    /\ UNCHANGED <<suffix, seen, handle, write, files, ffmpeg, alone>>

\* The flush or the commit fails; get_db rolls back, the files stay replaced.
Lose(u) ==
    /\ pc[u] \in {"flush", "commit"}
    /\ Abandon(u)
    /\ lock' = lock \ {u}
    /\ mess' = TRUE
    /\ UNCHANGED <<files, ffmpeg, alone, last>>

-----------------------------------------------------------------------------
\* update_camera points the camera at a stream; its read and its UPDATE have
\* no other await between them.
UpdateCamera ==
    /\ row # NoFile
    /\ lock = {}
    /\ row' = NoFile
    /\ alone' = alone \ Uploading
    /\ mess' = (mess \/ Uploading # {})
    /\ UNCHANGED <<request, lock, files, ffmpeg, last>>

\* The backend ends and starts again, maybe from another image.
Restart ==
    /\ Uploading # {}
    /\ pc' = [u \in Uploads |-> IF u \in Uploading THEN "ended" ELSE pc[u]]
    /\ lock' = {}
    /\ ffmpeg' \in BOOLEAN
    /\ mess' = TRUE
    /\ UNCHANGED <<suffix, seen, handle, write, row, files, alone, last>>

UploadNext ==
    \/ \E u \in Uploads :
          \/ Receive(u) \/ Stage(u) \/ Chunk(u)
          \/ TooBig(u) \/ WriteFails(u)
          \/ Normalise(u) \/ NormaliseRaises(u)
          \/ FlushUpload(u) \/ CommitUpload(u) \/ Lose(u)
    \/ UpdateCamera
    \/ Restart

UploadSpec == UploadInit /\ [][UploadNext]_uploadVars

-----------------------------------------------------------------------------
UploadTypeOK ==
    /\ pc \in [Uploads -> Stages]
    /\ suffix \in [Uploads -> Suffixes]
    /\ seen \in [Uploads -> Name \cup {NoFile}]
    /\ write \in [Uploads -> Name \cup {NoFile}]
    /\ handle \in [Uploads -> File]
    /\ row \in Name \cup {NoFile}
    /\ lock \in SUBSET Uploads
    /\ DOMAIN disk \subseteq Name
    /\ disk \in [DOMAIN disk -> File]
    /\ content \in [File -> [by: SUBSET Uploads, whole: BOOLEAN]]
    /\ ffmpeg \in BOOLEAN
    /\ alone \in SUBSET Uploads
    /\ mess \in BOOLEAN
    /\ last \in SUBSET [upload: Uploads, path: Name]

\* No upload stands between replacing the files and committing the row, none
\* is staging over the very file the row names, and what overlaps and
\* failures left behind has been made good by a later upload.
Settled ==
    /\ ~mess
    /\ \A u \in Uploading :
          /\ pc[u] \in {"loaded", "writing"}
          /\ pc[u] = "writing" => row # Staged(suffix[u])

\* A camera whose source is an uploaded file has that file, all of it, and it
\* is the video of the last upload that was confirmed (stream_camera_video and
\* the worker open the row's path): while the next upload is being received,
\* after it was refused for its size, whether ffmpeg worked or not, and again as
\* soon as one undisturbed upload follows whatever failed.
VideoPlayable ==
    Settled /\ row # NoFile =>
        /\ HasVideo /\ Intact(disk[row])
        /\ \A l \in last : row = l.path /\ content[disk[row]].by = {l.upload}

\* Uploads leave one file per camera, but for those being received: whatever
\* was left behind goes with the next undisturbed upload.  Only without ffmpeg
\* an older {camera_id}.mp4 may stay beside a raw file of another suffix.
NothingLeftBehind ==
    Settled => DOMAIN disk \subseteq {l.path : l \in last}
                   \cup {Staged(suffix[u]) : u \in {v \in Uploads : pc[v] = "writing"}}
                   \cup (IF ffmpeg THEN {} ELSE {Target})
================================================================================
