-------------------------------- MODULE Console --------------------------------
(* The tabs of one browser on the Live and the Cameras page, and the requests  *)
(* their handlers make: api.ts, AuthContext and the pages over the routes of   *)
(* auth and cameras.  A handler is a row of calls that awaits each answer;     *)
(* between two of them anything may happen: another tab acts, a worker ends,   *)
(* the token expires, the operator goes to another page (the handler runs on,  *)
(* its page is gone) or reloads (the handler is gone).                         *)
(*                                                                             *)
(* A request is one step here; what one does inside the server, and how two of *)
(* them interleave there, is in CameraService and VideoUpload.  A call under   *)
(* way when a tab is reloaded counts as not sent.                              *)
EXTENDS Naturals, Sequences, FiniteSets

CONSTANTS Tabs, Cameras, None,
          Unborn, Deleted,  \* a camera without a row: not created yet, or deleted
          CallsMayFail,  \* the network or the database may fail a call
          MaxClicks      \* bound on what the operator does on the pages

Users == {"admin", "viewer"}
Modes == {"restricted_area", "helmet"}
CameraRow == [mode : Modes, active : BOOLEAN]

\* What list_cameras may answer: the rows of some cameras.
Copies == UNION {[S -> CameraRow] : S \in SUBSET Cameras}

ASSUME BoundAssumption == MaxClicks \in Nat /\ CallsMayFail \in BOOLEAN
ASSUME NoneAssumption == None \notin Tabs \cup Cameras \cup Users \cup Modes /\ None \notin Copies
ASSUME NoRowAssumption == Unborn \notin CameraRow /\ Deleted \notin CameraRow /\ Unborn # Deleted

VARIABLES
    rows,      \* camera -> Unborn, Deleted, or its row
    worker,    \* camera -> the mode its running worker has, or None
    token,     \* localStorage: whose token, None without a valid one; all tabs have it
    user,      \* tab -> AuthContext's user, or None
    page,      \* tab -> "boot", "login", "live" or "cameras"
    loading,   \* tab -> whether the page waits for its first list
    list,      \* tab -> the page's copy of the cameras
    busy,      \* tab -> the camera a handler is busy with, or None
    error,     \* tab -> whether the page shows an error
    jobs,      \* tab -> the handlers under way
    clicks,    \* what the operator did so far
    last_by,   \* history: camera -> tab whose page's handler changed it last, or None
    behind,    \* history: tab -> whether its page got an older list after a newer one
    missed     \* history: cameras whose mode was changed without a restart

server == <<rows, worker>>
session == <<token, user>>
view == <<page, loading, list, busy, error>>
history == <<last_by, behind, missed>>
vars == <<server, session, view, jobs, clicks, history>>

Other(mode) == CHOOSE m \in Modes : m # mode

\* Mutant: the column has no default.
NewRowModeless == [mode |-> None, active |-> FALSE]

\* The row of create_camera.
NewRow == [mode |-> "restricted_area", active |-> FALSE]
Exists(c) == rows[c] \notin {Unborn, Deleted}

\* list_cameras: _to_detail reports a camera without a worker as inactive.
Reported == [c \in {d \in Cameras : Exists(d)} |->
                [rows[c] EXCEPT !.active = @ /\ worker[c] # None]]

NoList == [c \in {} |-> None]

\* The server has been running, and the cameras there are have workers.
Init ==
    /\ rows \in [Cameras -> {Unborn, [NewRow EXCEPT !.active = TRUE]}]
    /\ worker = [c \in Cameras |-> IF Exists(c) THEN rows[c].mode ELSE None]
    /\ token = None
    /\ user = [t \in Tabs |-> None]
    /\ page = [t \in Tabs |-> "boot"]
    /\ loading = [t \in Tabs |-> FALSE]
    /\ list = [t \in Tabs |-> NoList]
    /\ busy = [t \in Tabs |-> None]
    /\ error = [t \in Tabs |-> FALSE]
    /\ jobs = [t \in Tabs |-> {}]
    /\ clicks = 0
    /\ last_by = [c \in Cameras |-> None]
    /\ behind = [t \in Tabs |-> FALSE]
    /\ missed = {}

-----------------------------------------------------------------------------
(* The handlers                                                              *)

\* Mutant: the worker is restarted before the row has the new mode.
ModeCallsRestartFirst(restart) ==
    IF restart THEN <<"deactivate", "activate", "put", "list">> ELSE <<"put", "list">>

\* changeMode restarts the worker if the page's copy says that one runs.
ModeCalls(restart) ==
    IF restart THEN <<"put", "deactivate", "activate", "list">> ELSE <<"put", "list">>

\* Mutant: remove does not load the cameras again.
CallsUnlisted(kind, active) ==
    CASE kind = "mount"   -> <<"list">>
      [] kind = "mode"    -> ModeCalls(active)
      [] kind = "toggle"  -> <<IF active THEN "deactivate" ELSE "activate", "list">>
      [] kind = "remove"  -> <<"delete">>
      [] kind = "replace" -> <<"upload", "list">>
      [] kind = "create"  -> <<"post", "upload", "list">>

Calls(kind, active) ==
    CASE kind = "mount"   -> <<"list">>
      [] kind = "mode"    -> ModeCalls(active)
      [] kind = "toggle"  -> <<IF active THEN "deactivate" ELSE "activate", "list">>
      [] kind = "remove"  -> <<"delete", "list">>
      [] kind = "replace" -> <<"upload", "list">>
      [] kind = "create"  -> <<"post", "upload", "list">>

\* `answer` is the list the server sent, until the page has it; it is `older`
\* once the server answered another handler of the page.
Job(kind, c, mode, active) ==
    [kind |-> kind, cam |-> c, mode |-> mode, restart |-> active,
     todo |-> Calls(kind, active), answer |-> None, older |-> FALSE, mounted |-> TRUE]

Click == clicks < MaxClicks /\ clicks' = clicks + 1

Mounted(t) == {j \in jobs[t] : j.mounted}

\* hasRole("admin"): the buttons are there.
CanManage(t) == user[t] = "admin" /\ ~loading[t]

Start(t, job) ==
    /\ Click
    /\ jobs' = [jobs EXCEPT ![t] = @ \cup {job}]
    /\ UNCHANGED <<server, session, page, loading, list, history>>

\* The camera is selected, and the choice of its mode is on.
ModeSelect(t, c) ==
    /\ page[t] = "live" /\ CanManage(t) /\ busy[t] = None
    /\ c \in DOMAIN list[t]

ChangeMode(t, c) ==
    /\ ModeSelect(t, c)
    /\ Start(t, Job("mode", c, Other(list[t][c].mode), list[t][c].active))
    /\ busy' = [busy EXCEPT ![t] = c]
    /\ error' = [error EXCEPT ![t] = FALSE]

\* Only the buttons of the camera that the page was busy with last are off.
CameraButtons(t, c) ==
    /\ page[t] = "cameras" /\ CanManage(t) /\ busy[t] # c
    /\ c \in DOMAIN list[t]

\* toggle, remove and onReplaceSelected.  remove leaves the error as it is.
OnCamera(t, c, kind) ==
    /\ CameraButtons(t, c)
    /\ Start(t, Job(kind, c, None, list[t][c].active))
    /\ busy' = [busy EXCEPT ![t] = c]
    /\ error' = [error EXCEPT ![t] = IF kind = "remove" THEN @ ELSE FALSE]

\* create of a file camera; the id is the one the row will get.
CreateCamera(t, c) ==
    /\ page[t] = "cameras" /\ CanManage(t)
    /\ rows[c] = Unborn
    /\ \A u \in Tabs : \A j \in jobs[u] : j.cam # c
    /\ Start(t, Job("create", c, None, FALSE))
    /\ error' = [error EXCEPT ![t] = FALSE]
    /\ UNCHANGED busy

\* The page no longer answers for what its handlers did.
Disown(t) == [c \in Cameras |-> IF last_by[c] = t THEN None ELSE last_by[c]]

\* The Add Camera button hides an error, and the page stays as it was.
OpenForm(t) ==
    /\ page[t] = "cameras" /\ CanManage(t) /\ error[t]
    /\ error' = [error EXCEPT ![t] = FALSE]
    /\ last_by' = Disown(t)
    /\ UNCHANGED <<server, session, page, loading, list, busy, jobs, clicks, behind, missed>>

-----------------------------------------------------------------------------
(* A call of a handler: what the server does, and what the page does then    *)

ValidToken == token # None

\* get_current_user, require_roles, _require and the supervisor's refusals but
\* for that of a camera too many.
Admitted(call, c) ==
    /\ ValidToken
    /\ call # "list" => token = "admin"
    /\ call \in {"put", "activate", "deactivate", "delete", "upload"} => Exists(c)
    /\ call = "activate" => worker[c] = None

\* A list for a page that is gone changes nothing, and is left out.
Pending(js) == {j \in js : j.mounted \/ j.todo # <<"list">>}

\* A handler after its first call.
Rest(job) == Pending({[job EXCEPT !.todo = Tail(@)]})
Put(t, job, next) == jobs' = [jobs EXCEPT ![t] = (@ \ {job}) \cup next]

RowAfter(job, call) ==
    CASE call = "put"        -> [rows EXCEPT ![job.cam].mode = job.mode]
      [] call = "deactivate" -> [rows EXCEPT ![job.cam].active = FALSE]
      [] call = "activate"   -> [rows EXCEPT ![job.cam].active = TRUE]
      [] call = "delete"     -> [rows EXCEPT ![job.cam] = Deleted]
      [] call = "post"       -> [rows EXCEPT ![job.cam] = NewRow]
      [] OTHER               -> rows

WorkerAfter(job, call) ==
    CASE call \in {"deactivate", "delete"} -> [worker EXCEPT ![job.cam] = None]
      [] call = "activate" -> [worker EXCEPT ![job.cam] = rows[job.cam].mode]
      [] OTHER -> worker

\* Cameras whose worker still runs in a mode changed without a restart.
MissedAfter(job, call) ==
    {c \in missed : worker'[c] # None}
        \cup (IF call = "put" /\ ~job.restart /\ worker[job.cam] # None THEN {job.cam} ELSE {})

\* A page that is gone is told nothing, and no list of it can be wrong.
LastBy(t, job) == [last_by EXCEPT ![job.cam] = IF job.mounted THEN t ELSE None]

\* Nor does the page tell of a deletion that fails, or whose list does.
LastByCaught(t, job, by) ==
    IF job.kind = "remove" /\ by[job.cam] = t THEN [by EXCEPT ![job.cam] = None] ELSE by

\* The restart of a mode change that ends here will not come.
Unfinished(ending) ==
    {j.cam : j \in {i \in ending : i.kind = "mode" /\ i.restart /\ i.todo # <<"list">>
                                   /\ worker[i.cam] # None}}

NotBusy(t, job) ==
    IF job.mounted /\ job.kind \notin {"mount", "create"} THEN [busy EXCEPT ![t] = None] ELSE busy

\* The catch of a handler; there is none for the first list, nor in remove.
Caught(t, job) ==
    /\ Put(t, job, {})
    /\ error' = [error EXCEPT ![t] = @ \/ (job.mounted /\ job.kind \notin {"mount", "remove"})]
    /\ busy' = NotBusy(t, job)
    /\ UNCHANGED <<session, page, loading, list, clicks, behind>>

\* A call that is answered well.
Succeeds(t, job) ==
    LET call == Head(job.todo) IN
    /\ call # "list"
    /\ Admitted(call, job.cam)
    /\ rows' = RowAfter(job, call)
    /\ worker' = WorkerAfter(job, call)
    /\ missed' = MissedAfter(job, call)
    /\ last_by' = IF server' = server THEN last_by ELSE LastBy(t, job)
    /\ IF Len(job.todo) > 1
       THEN Put(t, job, Rest(job)) /\ UNCHANGED busy
       ELSE Put(t, job, {}) /\ busy' = NotBusy(t, job)
    /\ UNCHANGED <<session, page, loading, list, error, clicks, behind>>

Outdated(js) == {[j EXCEPT !.older = j.answer # None] : j \in js}

ListAnswered(t, job) ==
    /\ Head(job.todo) = "list" /\ job.answer = None
    /\ Admitted("list", job.cam)
    /\ jobs' = [jobs EXCEPT ![t] = Outdated(@ \ {job}) \cup {[job EXCEPT !.answer = Reported]}]
    /\ UNCHANGED <<server, session, view, clicks, history>>

\* Lists arrive in any order.
ListArrives(t, job) ==
    /\ job.answer # None
    /\ Put(t, job, {})
    /\ list' = [list EXCEPT ![t] = job.answer]
    /\ loading' = [loading EXCEPT ![t] = FALSE]
    /\ busy' = NotBusy(t, job)
    /\ behind' = [behind EXCEPT ![t] = job.older]
    /\ UNCHANGED <<server, session, page, error, clicks, last_by, missed>>

\* 403, 404, 409 (of activate also for a camera too many), and of an upload a
\* file that is refused or a 401, which uploadCameraVideo treats like any other.
Refused(t, job) ==
    /\ job.answer = None
    /\ \/ ValidToken /\ ~Admitted(Head(job.todo), job.cam)
       \/ ValidToken /\ Head(job.todo) \in {"activate", "upload"}
       \/ ~ValidToken /\ Head(job.todo) = "upload"
    /\ Caught(t, job)
    /\ missed' = missed \cup Unfinished({job})
    /\ last_by' = LastByCaught(t, job, last_by)
    /\ UNCHANGED server

\* The call does not reach the server, or its answer gets lost; or the commit
\* fails, and only the worker is started or stopped.
Fails(t, job) ==
    LET call == Head(job.todo) IN
    /\ CallsMayFail
    /\ job.answer = None
    /\ \/ UNCHANGED server /\ last_by' = LastByCaught(t, job, last_by)
       \/ /\ call # "list" /\ Admitted(call, job.cam)
          /\ rows' \in {rows, RowAfter(job, call)}
          /\ worker' = WorkerAfter(job, call)
          /\ last_by' = LastByCaught(t, job, LastBy(t, job))
    /\ missed' = {c \in MissedAfter(job, call) \cup Unfinished({job}) \cup
                      (IF call = "put" /\ job.restart THEN {job.cam} ELSE {}) : worker'[c] # None}
    /\ Caught(t, job)

-----------------------------------------------------------------------------
(* Pages and sessions                                                        *)

Blank(t, p) ==
    /\ page' = [page EXCEPT ![t] = p]
    /\ list' = [list EXCEPT ![t] = NoList]
    /\ busy' = [busy EXCEPT ![t] = None]
    /\ error' = [error EXCEPT ![t] = FALSE]
    /\ last_by' = Disown(t)
    /\ behind' = [behind EXCEPT ![t] = FALSE]

\* The effect of a page that appears: it loads its list.  What other pages of
\* the tab began runs on.
Enter(t, p) ==
    /\ Blank(t, p)
    /\ loading' = [loading EXCEPT ![t] = TRUE]
    /\ jobs' = [jobs EXCEPT ![t] = Pending({[j EXCEPT !.mounted = FALSE] : j \in @})
                                      \cup {Job("mount", None, None, FALSE)}]

\* A document is loaded anew: window.location, F5, or another address.
Load(t, p) ==
    /\ Blank(t, p)
    /\ loading' = [loading EXCEPT ![t] = FALSE]
    /\ user' = [user EXCEPT ![t] = None]
    /\ jobs' = [jobs EXCEPT ![t] = {}]
    /\ missed' = missed \cup Unfinished(jobs[t])
    /\ UNCHANGED server

Navigate(t, p) ==
    /\ page[t] \in {"live", "cameras"} \ {p}
    /\ Click
    /\ Enter(t, p)
    /\ UNCHANGED <<server, session, missed>>

Reload(t) ==
    /\ page[t] \in {"live", "cameras"}
    /\ Click
    /\ Load(t, "boot")
    /\ UNCHANGED token

Logout(t) ==
    /\ page[t] \in {"live", "cameras"}
    /\ Click
    /\ Load(t, "login")
    /\ token' = None

\* request: a 401 takes the token from all tabs and this one to the login page.
Unauthorized(t, job) ==
    /\ job.answer = None
    /\ ~ValidToken /\ Head(job.todo) # "upload"
    /\ Load(t, "login")
    /\ token' = None
    /\ UNCHANGED clicks

\* AuthProvider's effect: /auth/me tells who the token's user is.
Boot(t, p) ==
    /\ page[t] = "boot"
    /\ ValidToken
    /\ user' = [user EXCEPT ![t] = token]
    /\ Enter(t, p)
    /\ UNCHANGED <<server, token, clicks, missed>>

\* Without its answer the token is dropped, and ProtectedRoute shows the login.
BootRefused(t) ==
    /\ page[t] = "boot"
    /\ ~ValidToken \/ CallsMayFail
    /\ token' = None
    /\ Blank(t, "login")
    /\ UNCHANGED <<server, user, loading, jobs, clicks, missed>>

\* AuthService.login, of a user whose password is right and account enabled.
SignIn(t, u) ==
    /\ token' = u
    /\ user' = [user EXCEPT ![t] = u]

Login(t, u, p) ==
    /\ page[t] = "login"
    /\ SignIn(t, u)
    /\ Enter(t, p)
    /\ UNCHANGED <<server, clicks, missed>>

\* Another password, a disabled account, too many attempts, or a call that
\* fails.  Of all calls only this one's 401 leaves the token alone.
LoginRefused(t) ==
    /\ page[t] = "login"
    /\ error' = [error EXCEPT ![t] = TRUE]
    /\ UNCHANGED <<server, session, page, loading, list, busy, jobs, clicks, history>>

TokenExpires ==
    /\ ValidToken
    /\ token' = None
    /\ UNCHANGED <<server, user, view, jobs, clicks, history>>

\* The file ended, or the process died.
WorkerEnds(c) ==
    /\ worker[c] # None
    /\ worker' = [worker EXCEPT ![c] = None]
    /\ missed' = missed \ {c}
    /\ last_by' = [last_by EXCEPT ![c] = None]
    /\ UNCHANGED <<rows, session, view, jobs, clicks, behind>>

Next ==
    \/ \E t \in Tabs, c \in Cameras :
          \/ ChangeMode(t, c)
          \/ \E kind \in {"toggle", "remove", "replace"} : OnCamera(t, c, kind)
          \/ CreateCamera(t, c)
    \/ \E t \in Tabs : \E job \in jobs[t] :
          \/ Succeeds(t, job) \/ ListAnswered(t, job) \/ ListArrives(t, job)
          \/ Refused(t, job) \/ Fails(t, job) \/ Unauthorized(t, job)
    \/ \E t \in Tabs : \E p \in {"live", "cameras"} :
          \/ Navigate(t, p) \/ Boot(t, p)
          \/ \E u \in Users : Login(t, u, p)
    \/ \E t \in Tabs : OpenForm(t) \/ Reload(t) \/ Logout(t) \/ BootRefused(t) \/ LoginRefused(t)
    \/ TokenExpires
    \/ \E c \in Cameras : WorkerEnds(c)

Spec == Init /\ [][Next]_vars

-----------------------------------------------------------------------------
TypeOK ==
    /\ rows \in [Cameras -> {Unborn, Deleted} \cup CameraRow]
    /\ worker \in [Cameras -> Modes \cup {None}]
    /\ token \in Users \cup {None}
    /\ user \in [Tabs -> Users \cup {None}]
    /\ page \in [Tabs -> {"boot", "login", "live", "cameras"}]
    /\ loading \in [Tabs -> BOOLEAN]
    /\ list \in [Tabs -> Copies]
    /\ busy \in [Tabs -> Cameras \cup {None}]
    /\ error \in [Tabs -> BOOLEAN]
    /\ \A t \in Tabs : \A job \in jobs[t] :
          /\ job.todo # <<>>
          /\ job.answer # None => job.todo = <<"list">>
    /\ clicks \in 0..MaxClicks
    /\ last_by \in [Cameras -> Tabs \cup {None}]
    /\ behind \in [Tabs -> BOOLEAN]
    /\ missed \in SUBSET Cameras

\* A page at rest that shows no error shows what its own handlers did, however
\* many of them ran at once: a camera that one of them created or changed is listed
\* as the server has it, and one that was deleted is no longer listed.  Excepted are
\*   - a page that got an older list after a newer one: nothing orders them;
\*   - a camera that another tab, a handler of a page that is gone, or the end of
\*     its worker changed since;
\*   - a deletion that failed, or after which the list did: remove has no catch,
\*     and the page shows the camera on without a word;
\*   - what was done before Add Camera was opened on an error, which hides it.
\* With an error shown nothing is said: the mode change of a camera that was
\* stopped and could not be started again leaves it shown as live beside it.
OwnWritesShown ==
    \A t \in Tabs, c \in Cameras :
        /\ last_by[c] = t
        /\ Mounted(t) = {} /\ ~error[t] /\ ~behind[t]
        => IF Exists(c) THEN c \in DOMAIN list[t] /\ list[t][c] = Reported[c]
           ELSE c \notin DOMAIN list[t]

\* A worker runs in another mode than its camera's row says only until the
\* restart that some handler still has to make, however the handlers of several
\* tabs interleave; unless the mode was changed without a restart, by a page
\* whose copy of the camera said that none was running, or by a handler that
\* was cut off before it.
ModeReachesWorker ==
    \A c \in Cameras \ missed :
        worker[c] # None /\ worker[c] # rows[c].mode =>
            \E t \in Tabs : \E job \in jobs[t] :
                job.kind = "mode" /\ job.cam = c /\ job.restart /\ job.todo # <<"list">>
================================================================================
