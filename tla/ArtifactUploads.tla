--------------------------- MODULE ArtifactUploads ---------------------------
(***************************************************************************)
(* The keyed artifact store and the one-time upload URLs: a grant is       *)
(* issued, claimed by one request for the time of its upload, consumed     *)
(* when the upload has been stored and handed back otherwise; expired      *)
(* grants are swept.  Both trees live in one sled database, which writes   *)
(* its log in the background: a crash keeps a prefix of the writes.        *)
(***************************************************************************)
EXTENDS Naturals, FiniteSets

CONSTANTS
    Tokens,         \* upload URLs
    Uploads,        \* upload requests
    Ttl,            \* the lifetime of a grant
    SweepInterval,  \* UPLOAD_SWEEP_INTERVAL_SECS
    MaxNow,         \* bound on the clock
    None            \* an absent value

VARIABLES
    now,      \* the wall clock
    uploads,  \* the trees: outstanding grants and the uploads that were stored
    disk,     \* the trees as far as they have been written to disk
    sweep,    \* LAST_UPLOAD_SWEEP
    upload,   \* the upload requests
    crash     \* whether the server restarted, and the claims it found on disk

uploadVars == <<now, uploads, disk, sweep, upload, crash>>

NoTrees == [grants |-> [t \in Tokens |-> None], issued |-> {}, stored |-> {}]

UploadStart(wants) ==
    /\ now = 0
    /\ uploads = NoTrees
    /\ disk = NoTrees
    /\ sweep = 0
    /\ upload = [u \in Uploads |-> [stage |-> "idle", token |-> wants[u], expires |-> 0,
                                 status |-> None]]
    /\ crash = [restarted |-> FALSE, cut |-> {}]

Tick ==
    /\ now < MaxNow
    /\ now' = now + 1
    /\ UNCHANGED <<uploads, disk, sweep, upload, crash>>

Expired(grant) == grant.expires <= now

-----------------------------------------------------------------------------
(* ArtifactStore *)

\* put: the upload becomes the value of its key.
PutArtifact(trees, u) == [trees EXCEPT !.stored = @ \cup {u}]

-----------------------------------------------------------------------------
(* UploadGrants *)

\* purge_expired: reserved grants are swept as well.
PurgeExpired(grants) ==
    [t \in Tokens |-> IF grants[t] # None /\ Expired(grants[t]) THEN None ELSE grants[t]]

SweepDue == now - sweep >= SweepInterval

\* issue: sweep if due, then store the grant.
IssueUpload(t) ==
    /\ t \notin uploads.issued
    /\ sweep' = IF SweepDue THEN now ELSE sweep
    /\ LET kept == IF SweepDue THEN PurgeExpired(uploads.grants) ELSE uploads.grants
       IN uploads' = [uploads EXCEPT
              !.grants = [kept EXCEPT ![t] = [expires |-> now + Ttl, reserved |-> FALSE]],
              !.issued = @ \cup {t}]
    /\ UNCHANGED <<now, disk, upload, crash>>

\* reserve reads the grant and checks it ...
LookUp(u) ==
    /\ upload[u].stage = "idle"
    /\ LET g == uploads.grants[upload[u].token] IN
       upload' = [upload EXCEPT ![u] =
          IF g = None \/ (g # None /\ (g.reserved \/ Expired(g)))
          THEN [@ EXCEPT !.stage = "answered", !.status = 404]
          ELSE [@ EXCEPT !.stage = "checked", !.expires = g.expires]]
    /\ UNCHANGED <<now, uploads, disk, sweep, crash>>

\* ... and claims it if it has not changed since.
Reserve(u) ==
    /\ upload[u].stage = "checked"
    /\ LET t == upload[u].token IN
       IF uploads.grants[t] = [expires |-> upload[u].expires, reserved |-> FALSE]
       THEN /\ upload' = [upload EXCEPT ![u].stage = "reserved"]
            /\ uploads' = [uploads EXCEPT !.grants[t].reserved = TRUE]
       ELSE /\ upload' = [upload EXCEPT ![u].stage = "answered", ![u].status = 404]
            /\ UNCHANGED uploads
    /\ UNCHANGED <<now, disk, sweep, crash>>

\* The body has arrived and is stored.
StoreUpload(u) ==
    /\ upload[u].stage = "reserved"
    /\ uploads' = PutArtifact(uploads, u)
    /\ upload' = [upload EXCEPT ![u].stage = "stored"]
    /\ UNCHANGED <<now, disk, sweep, crash>>

\* UploadReservation::complete, and the answer.
CompleteUpload(u) ==
    /\ upload[u].stage = "stored"
    /\ uploads' = [uploads EXCEPT !.grants[upload[u].token] = None]
    /\ upload' = [upload EXCEPT ![u].stage = "answered", ![u].status = 200]
    /\ UNCHANGED <<now, disk, sweep, crash>>

\* Drop of a reservation that was not completed.
HandBack(u) ==
    uploads' = [uploads EXCEPT !.grants[upload[u].token] = [expires |-> upload[u].expires, reserved |-> FALSE]]

\* The body is too large or never arrives, or the mime type is bad.
DropUpload(u) ==
    /\ upload[u].stage = "reserved"
    /\ \E status \in {413, 400, None} :
          upload' = [upload EXCEPT ![u].stage = "answered", ![u].status = status]
    /\ HandBack(u)
    /\ UNCHANGED <<now, disk, sweep, crash>>

-----------------------------------------------------------------------------
(* sled, and a restart *)

FlushTrees ==
    /\ disk # uploads
    /\ disk' = uploads
    /\ UNCHANGED <<now, uploads, sweep, upload, crash>>

\* The requests in flight are lost; LAST_UPLOAD_SWEEP starts at 0 again.
Restart ==
    /\ ~crash.restarted
    /\ uploads' = disk
    /\ crash' = [restarted |-> TRUE,
                 cut |-> {t \in Tokens : disk.grants[t] # None /\ disk.grants[t].reserved}]
    /\ upload' = [u \in Uploads |-> IF upload[u].stage \in {"idle", "answered"} THEN upload[u]
                    ELSE [upload[u] EXCEPT !.stage = "lost"]]
    /\ sweep' = 0
    /\ UNCHANGED <<now, disk>>

RequestStep(u) == Reserve(u) \/ StoreUpload(u) \/ CompleteUpload(u)

UploadNext ==
    \/ Tick
    \/ \E t \in Tokens : IssueUpload(t)
    \/ \E u \in Uploads : LookUp(u) \/ RequestStep(u) \/ DropUpload(u)
    \/ FlushTrees \/ Restart

-----------------------------------------------------------------------------
(* Properties *)

\* A URL stores one upload: however requests with one token race, a sweep
\* removes the claimed grant, a dropped claim puts it back and a crash cuts
\* the log, no two uploads of a token are in the store, and a request that
\* was refused has stored nothing.
UploadsSingle ==
    /\ \A u, v \in Uploads : (u # v /\ {u, v} \subseteq uploads.stored) =>
                                upload[u].token # upload[v].token
    /\ \A u \in Uploads : (upload[u].stage = "answered" /\ upload[u].status # 200) =>
                                u \notin uploads.stored

\* An upload that is refused or abandoned leaves its URL usable: a live grant
\* is marked reserved only while a request holds it, or after a crash that
\* interrupted such a request.
TokensReturned ==
    \A t \in Tokens : (uploads.grants[t] # None /\ uploads.grants[t].reserved) =>
        \/ \E u \in Uploads : upload[u].token = t /\ upload[u].stage \in {"reserved", "stored"}
        \/ t \in crash.cut
=============================================================================
