\* Two messages beside the one that made the first task, two more tasks, two files, two threads.
CONSTANTS
    t1 = t1
    m1 = m1
    Tasks = {t1, t2, t3}
    Messages = {m1, m2, m3}
    Uploads = {u1, u2}
    Threads = {h1, h2}
    Home = h1
    MaxEvents = 2
    None = None
SYMMETRY Symmetry
SPECIFICATION MCSpec
INVARIANTS
    TypeOK
    FollowUpKept
    FollowUpHeeded
    UploadNotLost
    AttachedOnce
    ThreadsStaySeparate
    NewTaskIsFollowed
    OneContinuation

\* When every message is handled and every task has ended, nothing is left to do.
CHECK_DEADLOCK FALSE
