------------------------------- MODULE Media --------------------------------
(***************************************************************************)
(* The upload pipeline of MediaService over the object store: a session    *)
(* signs one PUT, and finalize scans what really landed in the bucket.     *)
(* An object is named by the media document that owns its key.             *)
(***************************************************************************)
EXTENDS Naturals, FiniteSets

CONSTANTS
    Uploads,     \* ids of media documents, one for each upload session
    Targets,     \* what a media is attached to
    NoTarget,
    Disguised,   \* uploads whose bytes are not of the declared type
    Oversized    \* uploads declared larger than MEDIA_MAX_SIZE_BYTES

ASSUME MediaAssumption ==
    NoTarget \notin Targets /\ Disguised \subseteq Uploads /\ Oversized \subseteq Uploads

VARIABLES
    media,    \* the media documents, status "NONE" before createUploadSession
    bucket    \* the media whose object is stored

store == <<media, bucket>>

MediaDoc == [status: {"NONE", "PENDING_UPLOAD", "READY", "REJECTED"}, target: Targets \cup {NoTarget}]

\* createUploadSession refuses what the declared size or type forbids.
Allowed(m) == m \notin Oversized

CreateUploadSession(m, target) ==
    /\ media' = [media EXCEPT ![m] = [status |-> "PENDING_UPLOAD", target |-> target]]
    /\ UNCHANGED bucket

\* The signed PUT.
PutObject(m) == bucket' = bucket \cup {m} /\ UNCHANGED media

\* Mutant: the declared type is believed.
BelieveType(m) == IF m \in bucket THEN "READY" ELSE "missing"

\* The two scans of finalize.
Verdict(m) == IF m \notin bucket THEN "missing"
              ELSE IF m \in Disguised THEN "REJECTED" ELSE "READY"

Settle(m, status) == media' = [media EXCEPT ![m].status = status] /\ UNCHANGED bucket

\* Best effort: a failing deletion is logged and swallowed.
DeleteObject(m) == bucket' \in {bucket, bucket \ {m}} /\ UNCHANGED media

\* listReadyIdsForTarget.
ReadyFor(target) == {m \in Uploads : media[m].status = "READY" /\ media[m].target = target}

MediaInit == media = [m \in Uploads |-> [status |-> "NONE", target |-> NoTarget]] /\ bucket = {}

MediaTypeOK == media \in [Uploads -> MediaDoc] /\ bucket \subseteq Uploads
=============================================================================
