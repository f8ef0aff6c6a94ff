---------------------------- MODULE OneTimeKeys ----------------------------
(***************************************************************************)
(* One-time and fallback keys of one device and algorithm.  The keys are   *)
(* kept twice: as a bucket in KV, which is read, changed and written back  *)
(* whole, and as rows in D1, which are changed one statement at a time.    *)
(* /keys/upload writes D1 and then KV; /keys/claim, of a client or of      *)
(* another server, goes through the store chain: a free key of the bucket, *)
(* marked in KV and then in D1, or else a free row of D1, or else the      *)
(* fallback key.  The key reaches the claimer with the answer, a step      *)
(* later: other devices of the request are claimed from in between.        *)
(*                                                                         *)
(* Requests run concurrently in separate workers.  A worker may stop after *)
(* any statement, a D1 statement may fail without effect, and KV, which is *)
(* eventually consistent, may return a bucket that has been replaced.      *)
(***************************************************************************)
EXTENDS Naturals, FiniteSets

CONSTANTS Key,      \* one-time keys, by key id
          Batch,    \* the sets of keys that the device uploads
          Request,  \* requests in progress at once
          MaxReplaced,     \* bound: replaced buckets that KV may return at once
          MaxDisturbances  \* bound: see Disturb

ASSUME BatchAssumption == Batch \subseteq SUBSET Key

VARIABLES
    bucket,    \* KV: a key is absent, free or claimed
    replaced,  \* earlier buckets that KV may still return
    row,       \* D1, one_time_keys: the same
    fallback,  \* D1, fallback_keys: absent, free or claimed (used)
    run,       \* per request: what it is about to do, and what it has read
    handed,    \* keys that have been given to a claim
    twice,     \* keys that have been given to two
    dropped,   \* keys that were marked for a claim which never answered
    disturbances  \* how many of the disturbances below have happened

history == <<handed, twice, dropped>>
vars == <<bucket, replaced, row, fallback, run, history, disturbances>>

Status == {"absent", "free", "claimed"}
Bucket == [Key -> Status]
Free(b) == {k \in Key : b[k] = "free"}
Empty == [k \in Key |-> "absent"]

Place == {"idle", "load_claim", "save", "mark", "rollback", "database", "fallback", "answer",
          "load_upload", "backup", "store", "put_fallback", "purge_keys", "purge_fallback"}

\* keys: the key to claim, or the batch; view: the bucket as it was read.
Run == [at : Place, keys : SUBSET Key, view : Bucket, fallback : BOOLEAN]
Idle == [at |-> "idle", keys |-> {}, view |-> Empty, fallback |-> FALSE]

Busy(r) == run[r].at # "idle"
At(r, place) == run[r].at = place
GoTo(r, place) == run' = [run EXCEPT ![r].at = place]
Finish(r) == run' = [run EXCEPT ![r] = Idle]

\* A disturbance: a request begins while another is in progress, KV returns a
\* bucket that has been replaced, or a key is uploaded after it was given away.
Disturb(what) ==
    /\ disturbances' = disturbances + IF what THEN 1 ELSE 0
    /\ disturbances' <= MaxDisturbances

Claimed(b, keys) == [k \in Key |-> IF k \in keys THEN "claimed" ELSE b[k]]
Renewed(b, keys) == [k \in Key |-> IF k \in keys THEN "free" ELSE b[k]]

Give(keys) ==
    /\ twice' = twice \cup (handed \cap keys)
    /\ handed' = handed \cup keys
    /\ UNCHANGED dropped

Init ==
    /\ bucket = Empty /\ replaced = {} /\ row = Empty /\ fallback = "absent"
    /\ run = [r \in Request |-> Idle]
    /\ handed = {} /\ twice = {} /\ dropped = {} /\ disturbances = 0

-----------------------------------------------------------------------------
(* KV.                                                                      *)

SaveBucket(b) ==
    /\ bucket' = b
    /\ replaced' = (replaced \cup {bucket}) \ {b}
    /\ Cardinality(replaced') <= MaxReplaced

\* The last bucket that was put has reached every reader.
Converge ==
    /\ replaced # {}
    /\ replaced' = {}
    /\ UNCHANGED <<bucket, row, fallback, run, history, disturbances>>

Begin(r, place, keys, withFallback) ==
    /\ ~Busy(r)
    /\ run' = [run EXCEPT ![r] = [at |-> place, keys |-> keys, view |-> Empty,
                                  fallback |-> withFallback]]
    /\ Disturb(\E q \in Request : Busy(q))
    /\ UNCHANGED <<bucket, replaced, row, fallback, history>>

-----------------------------------------------------------------------------
(* claimOneTimeKeyFromStoreChain, and claimKeyFromStores for other servers. *)

BeginClaim(r) == Begin(r, "load_claim", {}, FALSE)

Picked(r, b, k) ==
    run' = [run EXCEPT ![r] = [at |-> "save", keys |-> {k}, view |-> b, fallback |-> FALSE]]

\* The first key of the bucket that is not claimed: any of them here.
LoadForClaim(r) ==
    /\ At(r, "load_claim")
    /\ \E b \in {bucket} \cup replaced :
         /\ \/ \E k \in Free(b) : Picked(r, b, k)
            \/ Free(b) = {} /\ GoTo(r, "database")
         /\ Disturb(b # bucket)
    /\ UNCHANGED <<bucket, replaced, row, fallback, history>>

\* Slip: D1 is marked before KV.
SaveClaimLater(r) ==
    /\ At(r, "save")
    /\ row' = Claimed(row, run[r].keys)
    /\ GoTo(r, "mark")
    /\ UNCHANGED <<bucket, replaced, fallback, history, disturbances>>

SaveClaim(r) ==
    /\ At(r, "save")
    /\ SaveBucket(Claimed(run[r].view, run[r].keys))
    /\ GoTo(r, "mark")
    /\ UNCHANGED <<row, fallback, history, disturbances>>

\* Slip: D1 is not told.
GiveUnmarked(r) ==
    /\ At(r, "mark")
    /\ GoTo(r, "answer")
    /\ UNCHANGED <<bucket, replaced, row, fallback, history, disturbances>>

\* markStoredOneTimeKeyClaimed: a row that exists is marked.
MarkClaimed(r) ==
    /\ At(r, "mark")
    /\ row' = [k \in Key |-> IF k \in run[r].keys /\ row[k] # "absent"
                             THEN "claimed" ELSE row[k]]
    /\ GoTo(r, "answer")
    /\ UNCHANGED <<bucket, replaced, fallback, history, disturbances>>

MarkFails(r) ==
    /\ At(r, "mark")
    /\ GoTo(r, "rollback")
    /\ UNCHANGED <<bucket, replaced, row, fallback, history, disturbances>>

\* The bucket is put back as it was read, and the claim fails.
Rollback(r) ==
    /\ At(r, "rollback")
    /\ SaveBucket(run[r].view)
    /\ Finish(r)
    /\ UNCHANGED <<row, fallback, history, disturbances>>

\* The claim of request r took k: it is on its way to the claimer.
Taken(r, k) ==
    run' = [run EXCEPT ![r] = [at |-> "answer", keys |-> {k}, view |-> Empty, fallback |-> FALSE]]

\* Slip: the fallback key is looked up before the rows of D1.
FallbackFirst(r) ==
    /\ At(r, "database")
    /\ \/ fallback = "free" /\ fallback' = "claimed" /\ Finish(r) /\ UNCHANGED row
       \/ /\ fallback # "free" /\ UNCHANGED fallback
          /\ \/ \E k \in Free(row) : row' = Claimed(row, {k}) /\ Taken(r, k)
             \/ Free(row) = {} /\ Finish(r) /\ UNCHANGED row
    /\ UNCHANGED <<bucket, replaced, history, disturbances>>

\* claimUnclaimedOneTimeKey: the oldest free row, in one statement.
ClaimRow(r) ==
    /\ At(r, "database")
    /\ \/ \E k \in Free(row) : row' = Claimed(row, {k}) /\ Taken(r, k)
       \/ Free(row) = {} /\ GoTo(r, "fallback") /\ UNCHANGED row
    /\ UNCHANGED <<bucket, replaced, fallback, history, disturbances>>

\* The keys claimed for the devices of the request are returned.
AnswerClaim(r) ==
    /\ At(r, "answer")
    /\ Give(run[r].keys)
    /\ Finish(r)
    /\ UNCHANGED <<bucket, replaced, row, fallback, disturbances>>

\* claimFallbackKey: one that was used is not given again.
ClaimFallback(r) ==
    /\ At(r, "fallback")
    /\ fallback' = IF fallback = "free" THEN "claimed" ELSE fallback
    /\ Finish(r)
    /\ UNCHANGED <<bucket, replaced, row, history, disturbances>>

-----------------------------------------------------------------------------
(* uploadClientKeys: the bucket is read, the keys are written to D1 in one  *)
(* batch, the merged bucket is put, and the fallback key is written.        *)

BeginUpload(r) ==
    \E keys \in Batch, withFallback \in BOOLEAN :
        Begin(r, "load_upload", keys, withFallback)

\* Without one_time_keys the bucket is only counted; an empty object of them
\* has it written back.
Loaded(r, b) ==
    \E next \in {"backup", "put_fallback"} :
        /\ next = "put_fallback" => run[r].keys = {}
        /\ run' = [run EXCEPT ![r] = [at |-> next, keys |-> run[r].keys, view |-> b,
                                      fallback |-> run[r].fallback]]

LoadForUpload(r) ==
    /\ At(r, "load_upload")
    /\ \E b \in {bucket} \cup replaced :
         /\ Loaded(r, b)
         /\ Disturb(b # bucket)
    /\ UNCHANGED <<bucket, replaced, row, fallback, history>>

\* upsertOneTimeKeyBackups: a key that was claimed is free again.
Backup(r) ==
    /\ At(r, "backup")
    /\ row' = Renewed(row, run[r].keys)
    /\ GoTo(r, "store")
    /\ Disturb(run[r].keys \cap handed # {})
    /\ UNCHANGED <<bucket, replaced, fallback, history>>

StoreBucket(r) ==
    /\ At(r, "store")
    /\ SaveBucket(Renewed(run[r].view, run[r].keys))
    /\ GoTo(r, "put_fallback")
    /\ UNCHANGED <<row, fallback, history, disturbances>>

PutFallback(r) ==
    /\ At(r, "put_fallback")
    /\ fallback' = IF run[r].fallback THEN "free" ELSE fallback
    /\ Finish(r)
    /\ UNCHANGED <<bucket, replaced, row, history, disturbances>>

-----------------------------------------------------------------------------
(* An administrator purges the user: the rows of D1 are deleted, table by   *)
(* table.  The bucket in KV stays.                                          *)

BeginPurge(r) == Begin(r, "purge_keys", {}, FALSE)

PurgeKeys(r) ==
    /\ At(r, "purge_keys")
    /\ row' = Empty
    /\ GoTo(r, "purge_fallback")
    /\ UNCHANGED <<bucket, replaced, fallback, history, disturbances>>

PurgeFallback(r) ==
    /\ At(r, "purge_fallback")
    /\ fallback' = "absent"
    /\ Finish(r)
    /\ UNCHANGED <<bucket, replaced, row, history, disturbances>>

-----------------------------------------------------------------------------
\* A statement fails, or the worker stops: the request is over.  A claim that
\* was about to answer, be it that the claim of a later device failed, drops
\* the key that it has marked.
Stop(r) ==
    /\ Busy(r)
    /\ dropped' = IF At(r, "answer") THEN dropped \cup run[r].keys ELSE dropped
    /\ Finish(r)
    /\ UNCHANGED <<bucket, replaced, row, fallback, handed, twice, disturbances>>

Claim(r) == \/ LoadForClaim(r) \/ SaveClaim(r) \/ MarkClaimed(r) \/ MarkFails(r)
            \/ Rollback(r) \/ ClaimRow(r) \/ ClaimFallback(r) \/ AnswerClaim(r)
Upload(r) == LoadForUpload(r) \/ Backup(r) \/ StoreBucket(r) \/ PutFallback(r)
Purge(r) == PurgeKeys(r) \/ PurgeFallback(r)

Next == \/ \E r \in Request : \/ BeginClaim(r) \/ BeginUpload(r) \/ BeginPurge(r)
                              \/ Claim(r) \/ Upload(r) \/ Purge(r) \/ Stop(r)
        \/ Converge

Spec == Init /\ [][Next]_vars

-----------------------------------------------------------------------------
(* Properties.                                                              *)

(* The tables have the values of their columns, and a request's keys are    *)
(* keys of this device.                                                     *)
TypeOK ==
    /\ bucket \in Bucket /\ replaced \subseteq Bucket /\ row \in Bucket
    /\ fallback \in Status
    /\ run \in [Request -> Run]
    /\ handed \subseteq Key /\ twice \subseteq handed /\ dropped \subseteq Key
    /\ disturbances \in Nat

(* A one-time key is given away once: whatever statements fail and workers  *)
(* stop, it takes overlapping requests, a stale read or a repeated upload   *)
(* to give it to two claims (claimStoredOneTimeKeyWithMirrorMark,           *)
(* claimUnclaimedOneTimeKey).                                               *)
GivenOnce == disturbances = 0 => twice = {}

OnItsWay(k) == \E r \in Request : At(r, "answer") /\ k \in run[r].keys

(* A key is lost in one way only: its claim ends between the mark in D1 and *)
(* the answer (Stop).  Wherever else a claim fails or stops, its key is     *)
(* free in D1 and will be given to another claim, even if KV counts it as   *)
(* claimed and however requests overlap.                                    *)
NoKeyIsLost ==
    \A k \in Key : row[k] = "claimed" => k \in handed \cup dropped \/ OnItsWay(k)

(* The fallback key is used when one-time keys are exhausted, in KV and in  *)
(* D1 (claimFallbackKey comes last in the chain).                           *)
FallbackIsLast ==
    [][fallback = "free" /\ fallback' = "claimed" /\ disturbances = 0
          => Free(bucket) = {} /\ Free(row) = {}]_vars

\* In every order of requests.
NeverTwice == twice = {}

=============================================================================
