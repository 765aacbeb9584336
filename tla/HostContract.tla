---------------------------- MODULE HostContract ----------------------------
(***************************************************************************)
(* The handles of HostHandle seen through the contract of clyntis.h.       *)
(***************************************************************************)
EXTENDS HostHandle

Life(h) ==
    IF h >= next THEN "unborn"
    ELSE IF h \notin registry THEN "destroyed"
    ELSE IF worker[h] \in Exited THEN "joined"
    ELSE IF stop[h] THEN "stopped"
    ELSE IF running[h] THEN "started" ELSE "created"

\* The call of a thread as its host sees it.
Seen(c) ==
    [fn |-> c.fn, h |-> c.h, status |-> c.status,
     at |-> IF c.at = "idle" THEN "idle"
            ELSE IF c.fn = "start" /\ c.reply = "ok" THEN "granted" ELSE "pending"]

Api == INSTANCE CApi WITH
    life <- [h \in Handle |-> Life(h)],
    granted <- {h \in Handle : running[h]},
    callbacks <- [h \in Handle |-> Running(h)],
    calls <- [t \in Thread |-> Seen(call[t])],
    descriptor <- {h \in Handle : fd[h]},
    told <- {h \in Handle : changed[h]},
    reading <- {h \in Handle : reader[h] # "none"},
    readable <- [h \in Handle |-> Readable(h)]

\* The handles of host.rs keep the contract of clyntis.h, however calls, the
\* worker, callbacks, timeouts and panics interleave: one start succeeds, a
\* failed one leaves nothing that may still start, stop and destroy return when
\* no callback runs or will run, destroyed handles stay invalid, packets come out
\* once and in order, log lines that did not fit are kept.
Contract == Api!Spec
=============================================================================
