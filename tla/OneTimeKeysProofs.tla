------------------------ MODULE OneTimeKeysProofs ------------------------
(***************************************************************************)
(* Proofs about OneTimeKeys: the types, that no key is lost, that a key is *)
(* given once and that the fallback key comes last.                        *)
(*                                                                         *)
(* That no key is lost is inductive with the types: the mark puts the key  *)
(* on its way, and only the answer and a stop take it from there.  That a  *)
(* key is given once needs to know where the one request in progress is:   *)
(* between the write to KV and the write to D1 the bucket already counts   *)
(* the key as claimed and D1 does not, what a rollback puts back must not  *)
(* set free a key that was given before, and a key about to be returned is *)
(* free nowhere.                                                           *)
(***************************************************************************)
EXTENDS OneTimeKeys, TLAPS

USE BatchAssumption DEF history

(* One action per conjunct, for the step proofs below.                     *)
LEMMA StepCases ==
    ASSUME Next
    PROVE  \/ Converge
           \/ \E r \in Request :
                \/ BeginClaim(r) \/ BeginUpload(r) \/ BeginPurge(r)
                \/ LoadForClaim(r) \/ SaveClaim(r) \/ MarkClaimed(r) \/ MarkFails(r)
                \/ Rollback(r) \/ ClaimRow(r) \/ ClaimFallback(r) \/ AnswerClaim(r)
                \/ LoadForUpload(r) \/ Backup(r) \/ StoreBucket(r) \/ PutFallback(r)
                \/ PurgeKeys(r) \/ PurgeFallback(r) \/ Stop(r)
  BY DEF Next, Claim, Upload, Purge

-----------------------------------------------------------------------------
(* Types.                                                                   *)

LEMMA BucketOperators ==
    ASSUME NEW b \in Bucket, NEW keys \in SUBSET Key
    PROVE  /\ Claimed(b, keys) \in Bucket
           /\ Renewed(b, keys) \in Bucket
           /\ Free(b) \in SUBSET Key
           /\ Empty \in Bucket
  BY DEF Claimed, Renewed, Free, Empty, Bucket, Status

LEMMA SaveTyped ==
    ASSUME TypeOK, NEW b \in Bucket, SaveBucket(b)
    PROVE  bucket' \in Bucket /\ replaced' \subseteq Bucket
  BY DEF TypeOK, SaveBucket

LEMMA RunTyped ==
    ASSUME TypeOK, NEW r \in Request, NEW place \in Place
    PROVE  /\ GoTo(r, place) => run' \in [Request -> Run]
           /\ Finish(r) => run' \in [Request -> Run]
<1>1. Idle \in Run
  BY BucketOperators DEF Idle, Run, Place, Empty, Bucket, Status
<1> QED BY <1>1 DEF TypeOK, GoTo, Finish, Run

LEMMA RequestTyped ==
    ASSUME TypeOK, NEW r \in Request
    PROVE  run[r].keys \subseteq Key /\ run[r].view \in Bucket
  BY DEF TypeOK, Run

LEMMA GiveTyped ==
    ASSUME TypeOK, NEW keys \in SUBSET Key, Give(keys)
    PROVE  handed' \subseteq Key /\ twice' \subseteq handed' /\ dropped' \subseteq Key
  BY DEF TypeOK, Give

LEMMA DisturbTyped ==
    ASSUME TypeOK, NEW what \in BOOLEAN, Disturb(what)
    PROVE  disturbances' \in Nat
  BY DEF TypeOK, Disturb

LEMMA TypeInit == Init => TypeOK
  BY DEF Init, TypeOK, Bucket, Empty, Status, Idle, Run, Place

LEMMA BeginTyped ==
    ASSUME TypeOK, NEW r \in Request, NEW place \in Place, NEW keys \in SUBSET Key,
           NEW withFallback \in BOOLEAN, Begin(r, place, keys, withFallback)
    PROVE  TypeOK'
<1>1. Empty \in Bucket
  BY DEF Empty, Bucket, Status
<1>2. run' \in [Request -> Run]
  BY <1>1 DEF TypeOK, Begin, Run
<1>3. disturbances' \in Nat
  BY DisturbTyped DEF Begin
<1> QED BY <1>2, <1>3 DEF TypeOK, Begin

LEMMA TypeStep == TypeOK /\ [Next]_vars => TypeOK'
<1> SUFFICES ASSUME TypeOK, [Next]_vars PROVE TypeOK'
  OBVIOUS
<1>1. CASE UNCHANGED vars
  BY <1>1 DEF vars, TypeOK
<1>2. CASE Converge
  BY <1>2 DEF Converge, TypeOK
<1>3. ASSUME NEW r \in Request,
             BeginClaim(r) \/ BeginUpload(r) \/ BeginPurge(r)
      PROVE  TypeOK'
  <2>1. CASE BeginClaim(r)
    BY <2>1, BeginTyped DEF BeginClaim, Place
  <2>2. CASE BeginUpload(r)
    BY <2>2, BeginTyped DEF BeginUpload, Place
  <2>3. CASE BeginPurge(r)
    BY <2>3, BeginTyped DEF BeginPurge, Place
  <2> QED BY <1>3, <2>1, <2>2, <2>3
<1>4. ASSUME NEW r \in Request, LoadForClaim(r) PROVE TypeOK'
  <2>1. PICK b \in {bucket} \cup replaced :
          /\ \/ \E k \in Free(b) : Picked(r, b, k)
             \/ Free(b) = {} /\ GoTo(r, "database")
          /\ Disturb(b # bucket)
    BY <1>4 DEF LoadForClaim
  <2>2. b \in Bucket
    BY DEF TypeOK
  <2>3. run' \in [Request -> Run]
    <3>1. CASE \E k \in Free(b) : Picked(r, b, k)
      BY <3>1, <2>2 DEF Picked, TypeOK, Run, Place, Free
    <3>2. CASE GoTo(r, "database")
      BY <3>2, RunTyped DEF Place
    <3> QED BY <2>1, <3>1, <3>2
  <2>4. disturbances' \in Nat
    BY <2>1, DisturbTyped
  <2> QED BY <1>4, <2>3, <2>4 DEF TypeOK, LoadForClaim
<1>5. ASSUME NEW r \in Request, SaveClaim(r) PROVE TypeOK'
  <2>1. bucket' \in Bucket /\ replaced' \subseteq Bucket
    BY <1>5, SaveTyped, BucketOperators, RequestTyped DEF SaveClaim
  <2>2. run' \in [Request -> Run]
    BY <1>5, RunTyped DEF SaveClaim, Place
  <2> QED BY <1>5, <2>1, <2>2 DEF TypeOK, SaveClaim
<1>6. ASSUME NEW r \in Request, MarkClaimed(r) PROVE TypeOK'
  <2>1. row' \in Bucket
    BY <1>6 DEF MarkClaimed, TypeOK, Bucket, Status
  <2>2. run' \in [Request -> Run]
    BY <1>6, RunTyped DEF MarkClaimed, Place
  <2> QED BY <1>6, <2>1, <2>2 DEF TypeOK, MarkClaimed
<1>7. ASSUME NEW r \in Request, MarkFails(r) PROVE TypeOK'
  <2>1. run' \in [Request -> Run]
    BY <1>7, RunTyped DEF MarkFails, Place
  <2> QED BY <1>7, <2>1 DEF TypeOK, MarkFails
<1>8. ASSUME NEW r \in Request, Rollback(r) PROVE TypeOK'
  <2>1. bucket' \in Bucket /\ replaced' \subseteq Bucket
    BY <1>8, SaveTyped, RequestTyped DEF Rollback
  <2>2. run' \in [Request -> Run]
    BY <1>8, RunTyped DEF Rollback, Place
  <2> QED BY <1>8, <2>1, <2>2 DEF TypeOK, Rollback
<1>9. ASSUME NEW r \in Request, ClaimRow(r) PROVE TypeOK'
  <2>1. ASSUME NEW k \in Free(row), row' = Claimed(row, {k}), Taken(r, k)
        PROVE  TypeOK'
    <3>1. {k} \in SUBSET Key
      BY DEF Free
    <3>2. row' \in Bucket
      BY <2>1, <3>1, BucketOperators DEF TypeOK
    <3>3. run' \in [Request -> Run]
      BY <2>1, <3>1, BucketOperators DEF Taken, TypeOK, Run, Place
    <3> QED BY <1>9, <3>2, <3>3 DEF TypeOK, ClaimRow
  <2>2. CASE GoTo(r, "fallback") /\ UNCHANGED row
    <3>1. run' \in [Request -> Run]
      BY <2>2, RunTyped DEF Place
    <3> QED BY <1>9, <2>2, <3>1 DEF TypeOK, ClaimRow
  <2> QED BY <1>9, <2>1, <2>2 DEF ClaimRow
<1>10. ASSUME NEW r \in Request, ClaimFallback(r) PROVE TypeOK'
  <2>1. run' \in [Request -> Run]
    BY <1>10, RunTyped DEF ClaimFallback, Place
  <2> QED BY <1>10, <2>1 DEF TypeOK, ClaimFallback, Status
<1>11. ASSUME NEW r \in Request, LoadForUpload(r) PROVE TypeOK'
  <2>1. PICK b \in {bucket} \cup replaced :
          /\ Loaded(r, b)
          /\ Disturb(b # bucket)
    BY <1>11 DEF LoadForUpload
  <2>2. b \in Bucket
    BY DEF TypeOK
  <2>3. run' \in [Request -> Run]
    BY <2>1, <2>2 DEF Loaded, TypeOK, Run, Place
  <2>4. disturbances' \in Nat
    BY <2>1, DisturbTyped
  <2> QED BY <1>11, <2>3, <2>4 DEF TypeOK, LoadForUpload
<1>12. ASSUME NEW r \in Request, Backup(r) PROVE TypeOK'
  <2>1. row' \in Bucket
    BY <1>12, BucketOperators, RequestTyped DEF Backup, TypeOK
  <2>2. run' \in [Request -> Run]
    BY <1>12, RunTyped DEF Backup, Place
  <2>3. disturbances' \in Nat
    BY <1>12, DisturbTyped DEF Backup
  <2> QED BY <1>12, <2>1, <2>2, <2>3 DEF TypeOK, Backup
<1>13. ASSUME NEW r \in Request, StoreBucket(r) PROVE TypeOK'
  <2>1. bucket' \in Bucket /\ replaced' \subseteq Bucket
    BY <1>13, SaveTyped, BucketOperators, RequestTyped DEF StoreBucket
  <2>2. run' \in [Request -> Run]
    BY <1>13, RunTyped DEF StoreBucket, Place
  <2> QED BY <1>13, <2>1, <2>2 DEF TypeOK, StoreBucket
<1>14. ASSUME NEW r \in Request, PutFallback(r) \/ PurgeFallback(r) PROVE TypeOK'
  <2>1. run' \in [Request -> Run]
    BY <1>14, RunTyped DEF PutFallback, PurgeFallback, Place
  <2> QED BY <1>14, <2>1 DEF TypeOK, PutFallback, PurgeFallback, Status
<1>15. ASSUME NEW r \in Request, PurgeKeys(r) PROVE TypeOK'
  <2>1. run' \in [Request -> Run]
    BY <1>15, RunTyped DEF PurgeKeys, Place
  <2> QED BY <1>15, <2>1, BucketOperators DEF TypeOK, PurgeKeys
<1>16. ASSUME NEW r \in Request, Stop(r) PROVE TypeOK'
  <2>1. run' \in [Request -> Run]
    BY <1>16, RunTyped DEF Stop, Place
  <2> QED BY <1>16, <2>1, RequestTyped DEF TypeOK, Stop
<1>17. ASSUME NEW r \in Request, AnswerClaim(r) PROVE TypeOK'
  <2>1. handed' \subseteq Key /\ twice' \subseteq handed' /\ dropped' \subseteq Key
    BY <1>17, GiveTyped, RequestTyped DEF AnswerClaim
  <2>2. run' \in [Request -> Run]
    BY <1>17, RunTyped DEF AnswerClaim, Place
  <2> QED BY <1>17, <2>1, <2>2 DEF TypeOK, AnswerClaim
<1> QED
  BY StepCases, <1>1, <1>2, <1>3, <1>4, <1>5, <1>6, <1>7, <1>8, <1>9, <1>10, <1>11,
     <1>12, <1>13, <1>14, <1>15, <1>16, <1>17

(* The tables and the requests in progress keep their types in every       *)
(* instance, whatever keys are uploaded and however requests overlap.      *)
THEOREM TypeCorrect == Spec => []TypeOK
  BY TypeInit, TypeStep, PTL DEF Spec

-----------------------------------------------------------------------------
(* No key is lost.                                                          *)

LEMMA ReadBack ==
    ASSUME NEW b, NEW keys, NEW k \in Key
    PROVE  /\ Claimed(b, keys)[k] = IF k \in keys THEN "claimed" ELSE b[k]
           /\ Renewed(b, keys)[k] = IF k \in keys THEN "free" ELSE b[k]
           /\ Empty[k] = "absent"
  BY DEF Claimed, Renewed, Empty

\* A request that does not finish keeps its key on the way, and a request that
\* is not about to answer has none there.
LEMMA StaysOnItsWay ==
    ASSUME TypeOK, NEW k \in Key, OnItsWay(k), NEW r \in Request, NEW new,
           run' = [run EXCEPT ![r] = new], ~At(r, "answer") \/ k \notin run[r].keys
    PROVE  OnItsWay(k)'
<1>1. PICK q \in Request : At(q, "answer") /\ k \in run[q].keys
  BY DEF OnItsWay
<1>2. q # r
  BY <1>1
<1>3. run'[q] = run[q]
  BY <1>2 DEF TypeOK
<1> QED BY <1>1, <1>3 DEF OnItsWay, At

\* What each step that is not the answer or a stop does to the requests.
LEMMA OneMoves ==
    ASSUME TypeOK, NEW r \in Request,
           \/ BeginClaim(r) \/ BeginUpload(r) \/ BeginPurge(r)
           \/ LoadForClaim(r) \/ SaveClaim(r) \/ MarkClaimed(r) \/ MarkFails(r)
           \/ Rollback(r) \/ ClaimRow(r) \/ ClaimFallback(r)
           \/ LoadForUpload(r) \/ Backup(r) \/ StoreBucket(r) \/ PutFallback(r)
           \/ PurgeKeys(r) \/ PurgeFallback(r)
    PROVE  /\ ~At(r, "answer")
           /\ \E new : run' = [run EXCEPT ![r] = new]
           /\ UNCHANGED <<handed, dropped>>
<1>1. CASE BeginClaim(r) \/ BeginUpload(r) \/ BeginPurge(r)
  BY <1>1 DEF BeginClaim, BeginUpload, BeginPurge, Begin, Busy, At
<1>2. CASE LoadForClaim(r)
  BY <1>2 DEF LoadForClaim, Picked, GoTo, At
<1>3. CASE SaveClaim(r) \/ MarkClaimed(r) \/ MarkFails(r) \/ Rollback(r)
  BY <1>3 DEF SaveClaim, MarkClaimed, MarkFails, Rollback, GoTo, Finish, At
<1>4. CASE ClaimRow(r)
  BY <1>4 DEF ClaimRow, Taken, GoTo, At
<1>5. CASE LoadForUpload(r)
  BY <1>5 DEF LoadForUpload, Loaded, At
<1>6. CASE \/ ClaimFallback(r) \/ Backup(r) \/ StoreBucket(r) \/ PutFallback(r)
           \/ PurgeKeys(r) \/ PurgeFallback(r)
  BY <1>6 DEF ClaimFallback, Backup, StoreBucket, PutFallback, PurgeKeys, PurgeFallback,
              GoTo, Finish, At
<1> QED BY <1>1, <1>2, <1>3, <1>4, <1>5, <1>6

LEMMA LostStep == TypeOK /\ NoKeyIsLost /\ [Next]_vars => NoKeyIsLost'
<1> SUFFICES ASSUME TypeOK, NoKeyIsLost, [Next]_vars,
                    NEW k \in Key, row'[k] = "claimed"
             PROVE  k \in handed' \cup dropped' \/ OnItsWay(k)'
  BY DEF NoKeyIsLost
<1> DEFINE Kept == k \in handed' \cup dropped' \/ OnItsWay(k)'
<1>1. CASE Converge \/ UNCHANGED vars
  BY <1>1 DEF Converge, vars, NoKeyIsLost, OnItsWay, At
<1>2. ASSUME NEW r \in Request, AnswerClaim(r) PROVE Kept
  <2>1. row[k] = "claimed"
    BY <1>2 DEF AnswerClaim
  <2>2. run' = [run EXCEPT ![r] = Idle] /\ handed' = handed \cup run[r].keys
        /\ dropped' = dropped
    BY <1>2 DEF AnswerClaim, Give, Finish
  <2>3. CASE k \in run[r].keys \/ k \in handed \cup dropped
    BY <2>2, <2>3
  <2>4. CASE k \notin run[r].keys /\ OnItsWay(k)
    BY <2>2, <2>4, StaysOnItsWay
  <2> QED BY <2>1, <2>3, <2>4 DEF NoKeyIsLost
<1>3. ASSUME NEW r \in Request, Stop(r) PROVE Kept
  <2>1. row[k] = "claimed"
    BY <1>3 DEF Stop
  <2>2. run' = [run EXCEPT ![r] = Idle] /\ handed' = handed
        /\ dropped' = IF At(r, "answer") THEN dropped \cup run[r].keys ELSE dropped
    BY <1>3 DEF Stop, Finish
  <2>3. CASE (At(r, "answer") /\ k \in run[r].keys) \/ k \in handed \cup dropped
    BY <2>2, <2>3
  <2>4. CASE (~At(r, "answer") \/ k \notin run[r].keys) /\ OnItsWay(k)
    BY <2>2, <2>4, StaysOnItsWay
  <2> QED BY <2>1, <2>3, <2>4 DEF NoKeyIsLost
<1>4. ASSUME NEW r \in Request,
             \/ BeginClaim(r) \/ BeginUpload(r) \/ BeginPurge(r)
             \/ LoadForClaim(r) \/ SaveClaim(r) \/ MarkClaimed(r) \/ MarkFails(r)
             \/ Rollback(r) \/ ClaimRow(r) \/ ClaimFallback(r)
             \/ LoadForUpload(r) \/ Backup(r) \/ StoreBucket(r) \/ PutFallback(r)
             \/ PurgeKeys(r) \/ PurgeFallback(r)
      PROVE  Kept
  <2>1. /\ ~At(r, "answer")
        /\ \E new : run' = [run EXCEPT ![r] = new]
        /\ UNCHANGED <<handed, dropped>>
    BY <1>4, OneMoves
  <2>2. CASE row[k] = "claimed"
    BY <2>1, <2>2, StaysOnItsWay DEF NoKeyIsLost
  <2>3. CASE row[k] # "claimed"
    <3>1. row' # row
      BY <2>3
    <3>2. MarkClaimed(r) \/ ClaimRow(r) \/ Backup(r) \/ PurgeKeys(r)
      BY <1>4, <3>1
         DEF BeginClaim, BeginUpload, BeginPurge, Begin, LoadForClaim, SaveClaim, MarkFails,
             Rollback, ClaimFallback, LoadForUpload, StoreBucket, PutFallback, PurgeFallback
    <3>3. CASE MarkClaimed(r)
      <4>1. k \in run[r].keys /\ GoTo(r, "answer")
        BY <2>3, <3>3 DEF MarkClaimed
      <4>2. run'[r].at = "answer" /\ run'[r].keys = run[r].keys
        BY <4>1 DEF GoTo, TypeOK, Run
      <4> QED BY <4>1, <4>2 DEF OnItsWay, At
    <3>4. CASE ClaimRow(r)
      <4>1. PICK c \in Free(row) : row' = Claimed(row, {c}) /\ Taken(r, c)
        BY <3>1, <3>4 DEF ClaimRow
      <4>2. k = c
        BY <2>3, <4>1, ReadBack
      <4>3. run'[r].at = "answer" /\ run'[r].keys = {c}
        BY <4>1 DEF Taken, TypeOK, Run
      <4> QED BY <4>2, <4>3 DEF OnItsWay, At
    <3>5. CASE Backup(r)
      BY <2>3, <3>5, ReadBack DEF Backup
    <3>6. CASE PurgeKeys(r)
      BY <3>6, ReadBack DEF PurgeKeys
    <3> QED BY <3>2, <3>3, <3>4, <3>5, <3>6
  <2> QED BY <2>2, <2>3
<1> QED
  BY StepCases, <1>1, <1>2, <1>3, <1>4

(* A key that D1 counts as claimed was given to a claim, is on its way to  *)
(* one, or belonged to a claim that ended between the mark and the answer: *)
(* however requests overlap and whatever KV returns, no other place where  *)
(* a worker stops or a statement fails loses one.                          *)
THEOREM NoneLost == Spec => []NoKeyIsLost
<1>1. Init => NoKeyIsLost
  BY ReadBack DEF Init, NoKeyIsLost
<1> QED
  BY <1>1, TypeCorrect, LostStep, PTL DEF Spec

-----------------------------------------------------------------------------
(* A key is given once.                                                     *)

Given(b) == {k \in handed : b[k] = "free"}

(* What is known of request r from what it is about to do.                  *)
Claiming(r) ==
    At(r, "save") => /\ run[r].view = bucket
                     /\ run[r].keys \subseteq Free(bucket)

Marking(r) ==
    At(r, "mark") \/ At(r, "rollback") =>
        /\ bucket = Claimed(run[r].view, run[r].keys)
        /\ run[r].keys \cap handed = {}
        /\ Given(run[r].view) = {}

Exhausted(r) ==
    /\ At(r, "database") \/ At(r, "fallback") => Free(bucket) = {}
    /\ At(r, "fallback") => Free(row) = {}

Uploading(r) ==
    /\ At(r, "backup") \/ At(r, "store") => run[r].view = bucket
    /\ At(r, "store") => run[r].keys \cap handed = {}

Answering(r) ==
    At(r, "answer") => /\ run[r].keys \cap handed = {}
                       /\ run[r].keys \cap Free(bucket) = {}
                       /\ run[r].keys \cap Free(row) = {}

Known(r) == Claiming(r) /\ Marking(r) /\ Exhausted(r) /\ Uploading(r) /\ Answering(r)

Alone == \A q, r \in Request : Busy(q) /\ Busy(r) => q = r

Quiet ==
    /\ twice = {}
    /\ Alone
    /\ Given(bucket) = {} /\ Given(row) = {}
    /\ \A r \in Request : Known(r)

IInv == disturbances = 0 => Quiet

LEMMA QuietInit == Init => IInv
  BY DEF Init, IInv, Quiet, Alone, Given, Known, Claiming, Marking, Exhausted, Uploading, Answering, Idle, At, Busy

\* A request that is over knows nothing.
LEMMA OverKnowsNothing ==
    ASSUME NEW r \in Request, run[r].at = "idle"
    PROVE  Known(r)
  BY DEF Known, Claiming, Marking, Exhausted, Uploading, Answering, At

\* A step of request r that leaves its disturbances alone: the others are idle.
LEMMA StepAlone ==
    ASSUME TypeOK, Quiet, NEW r \in Request, Busy(r),
           NEW new \in Run, run' = [run EXCEPT ![r] = new],
           twice' = {}, Given(bucket)' = {}, Given(row)' = {},
           Known(r)'
    PROVE  Quiet'
<1>1. \A q \in Request : q # r => run'[q] = run[q] /\ run[q].at = "idle"
  BY DEF TypeOK, Quiet, Alone, Busy
<1>2. Alone'
  BY <1>1 DEF Alone, Busy
<1>3. ASSUME NEW q \in Request, q # r
      PROVE  Known(q)'
  BY <1>1, <1>3 DEF Known, Claiming, Marking, Exhausted, Uploading, Answering, At
<1> QED BY <1>2, <1>3 DEF Quiet

LEMMA NotDisturbed ==
    ASSUME TypeOK, NEW what \in BOOLEAN, Disturb(what), disturbances' = 0
    PROVE  disturbances = 0 /\ ~what
  BY DEF TypeOK, Disturb

LEMMA BeginQuiet ==
    ASSUME TypeOK, IInv, NEW r \in Request, NEW place, NEW keys, NEW withFallback,
           place \in {"load_claim", "load_upload", "purge_keys"},
           Begin(r, place, keys, withFallback), disturbances' = 0
    PROVE  Quiet'
<1>1. disturbances = 0 /\ ~(\E q \in Request : Busy(q))
  BY NotDisturbed DEF Begin
<1>2. Quiet
  BY <1>1 DEF IInv
<1>3. /\ run'[r].at = place
      /\ \A q \in Request : q # r => run'[q].at = "idle"
  BY <1>1 DEF Begin, Busy, TypeOK
<1>4. Alone'
  BY <1>3 DEF Alone, Busy
<1>5. ASSUME NEW q \in Request
      PROVE  Known(q)'
  BY <1>3 DEF Known, Claiming, Marking, Exhausted, Uploading, Answering, At
<1> QED BY <1>2, <1>4, <1>5 DEF Begin, Quiet, Given

\* What GoTo and Finish put at r.
LEMMA Moved ==
    ASSUME TypeOK, NEW r \in Request, NEW place \in Place
    PROVE  /\ GoTo(r, place) =>
                \E new \in Run : /\ run' = [run EXCEPT ![r] = new]
                                 /\ run'[r] = new
                                 /\ new = [run[r] EXCEPT !.at = place]
                                 /\ new.at = place /\ new.keys = run[r].keys
                                 /\ new.view = run[r].view
           /\ Finish(r) =>
                \E new \in Run : /\ run' = [run EXCEPT ![r] = new]
                                 /\ run'[r].at = "idle"
<1>1. Idle \in Run
  BY BucketOperators DEF Idle, Run, Place, Empty, Bucket, Status
<1>2. ASSUME GoTo(r, place)
      PROVE  \E new \in Run : /\ run' = [run EXCEPT ![r] = new]
                              /\ run'[r] = new
                              /\ new = [run[r] EXCEPT !.at = place]
                              /\ new.at = place /\ new.keys = run[r].keys
                              /\ new.view = run[r].view
  <2> DEFINE new == [run[r] EXCEPT !.at = place]
  <2>1. new \in Run /\ new.at = place /\ new.keys = run[r].keys /\ new.view = run[r].view
    BY DEF TypeOK, Run
  <2>2. run' = [run EXCEPT ![r] = new] /\ run'[r] = new
    BY <1>2 DEF GoTo, TypeOK
  <2> QED BY <2>1, <2>2
<1>3. ASSUME Finish(r)
      PROVE  \E new \in Run : run' = [run EXCEPT ![r] = new] /\ run'[r].at = "idle"
  BY <1>1, <1>3 DEF Finish, TypeOK, Idle
<1> QED BY <1>2, <1>3

\* A request is over, and what it leaves is in order.
LEMMA FinishQuiet ==
    ASSUME TypeOK, Quiet, NEW r \in Request, Busy(r), Finish(r),
           twice' = {}, Given(bucket)' = {}, Given(row)' = {}
    PROVE  Quiet'
<1>1. PICK new \in Run : run' = [run EXCEPT ![r] = new] /\ run'[r].at = "idle"
  BY Moved DEF Place
<1>2. Known(r)'
  BY <1>1 DEF Known, Claiming, Marking, Exhausted, Uploading, Answering, At
<1> QED BY <1>1, <1>2, StepAlone

LEMMA QuietStep ==
    ASSUME TypeOK, Quiet, NEW r \in Request, disturbances = 0, disturbances' = 0,
           \/ LoadForClaim(r) \/ SaveClaim(r) \/ MarkClaimed(r) \/ MarkFails(r)
           \/ Rollback(r) \/ ClaimRow(r) \/ ClaimFallback(r) \/ AnswerClaim(r)
           \/ LoadForUpload(r) \/ Backup(r) \/ StoreBucket(r) \/ PutFallback(r)
           \/ PurgeKeys(r) \/ PurgeFallback(r) \/ Stop(r)
    PROVE  Quiet'
<1>0. /\ run[r].keys \in SUBSET Key /\ run[r].view \in Bucket
      /\ Given(bucket) = {} /\ Given(row) = {} /\ twice = {}
      /\ Claiming(r) /\ Marking(r) /\ Exhausted(r) /\ Uploading(r) /\ Answering(r)
  BY RequestTyped DEF Quiet, Known
<1>1. CASE LoadForClaim(r)
  <2>1. Busy(r)
    BY <1>1 DEF LoadForClaim, At, Busy
  <2>2. (\E k \in Free(bucket) : Picked(r, bucket, k)) \/ (Free(bucket) = {} /\ GoTo(r, "database"))
    BY <1>1, NotDisturbed DEF LoadForClaim
  <2>3. twice' = {} /\ Given(bucket)' = {} /\ Given(row)' = {}
    BY <1>0, <1>1 DEF LoadForClaim, Given
  <2>4. ASSUME NEW k \in Free(bucket), Picked(r, bucket, k) PROVE Quiet'
    <3> DEFINE new == [at |-> "save", keys |-> {k}, view |-> bucket, fallback |-> FALSE]
    <3>1. new \in Run /\ run' = [run EXCEPT ![r] = new] /\ run'[r] = new
      BY <2>4 DEF Picked, TypeOK, Run, Place, Free
    <3>2. Known(r)'
      BY <3>1, <1>1 DEF LoadForClaim, Known, Claiming, Marking, Exhausted, Uploading, Answering, At, Free
    <3> HIDE DEF new
    <3> QED BY <2>1, <2>3, <3>1, <3>2, StepAlone
  <2>5. CASE Free(bucket) = {} /\ GoTo(r, "database")
    <3>1. PICK new \in Run : /\ run' = [run EXCEPT ![r] = new]
                             /\ run'[r].at = "database"
      BY <2>5, Moved DEF Place
    <3>2. Known(r)'
      BY <3>1, <2>5, <1>1 DEF LoadForClaim, Known, Claiming, Marking, Exhausted, Uploading, Answering, At, Free
    <3> QED BY <2>1, <2>3, <3>1, <3>2, StepAlone
  <2> QED BY <2>2, <2>4, <2>5
<1>2. CASE SaveClaim(r)
  <2>1. Busy(r) /\ At(r, "save")
    BY <1>2 DEF SaveClaim, At, Busy
  <2>2. /\ run[r].view = bucket /\ run[r].keys \subseteq Free(bucket)
        /\ bucket' = Claimed(bucket, run[r].keys)
    BY <1>0, <1>2, <2>1 DEF Claiming, SaveClaim, SaveBucket
  <2>3. twice' = {} /\ Given(bucket)' = {} /\ Given(row)' = {}
    <3>1. Given(bucket)' \subseteq Given(bucket)
      BY <2>2, <1>2, ReadBack DEF TypeOK, Given, SaveClaim
    <3> QED BY <1>0, <1>2, <3>1 DEF SaveClaim, Given
  <2>4. PICK new \in Run : /\ run' = [run EXCEPT ![r] = new] /\ run'[r].at = "mark"
                           /\ run'[r].keys = run[r].keys /\ run'[r].view = run[r].view
    BY <1>2, Moved DEF SaveClaim, Place
  <2>5. run[r].keys \cap handed = {}
    BY <1>0, <2>2 DEF Given, Free
  <2>6. Known(r)'
    BY <1>0, <1>2, <2>2, <2>4, <2>5
       DEF SaveClaim, Known, Claiming, Marking, Exhausted, Uploading, Answering, At, Given
  <2> QED BY <2>1, <2>3, <2>4, <2>6, StepAlone
<1>3. CASE MarkClaimed(r)
  <2>1. Busy(r) /\ At(r, "mark")
    BY <1>3 DEF MarkClaimed, At, Busy
  <2>2. /\ bucket = Claimed(run[r].view, run[r].keys)
        /\ run[r].keys \cap handed = {}
    BY <1>0, <2>1 DEF Marking
  <2>3. /\ UNCHANGED <<bucket, handed, twice>>
        /\ row' = [k \in Key |-> IF k \in run[r].keys /\ row[k] # "absent"
                                 THEN "claimed" ELSE row[k]]
    BY <1>3 DEF MarkClaimed
  <2>4. Given(bucket)' = {} /\ Given(row)' = {}
    <3>1. Given(row)' \subseteq Given(row)
      BY <2>3 DEF Given, TypeOK
    <3> QED BY <1>0, <2>3, <3>1 DEF Given
  <2>5. PICK new \in Run : /\ run' = [run EXCEPT ![r] = new] /\ run'[r].at = "answer"
                           /\ run'[r].keys = run[r].keys /\ run'[r].view = run[r].view
    BY <1>3, Moved DEF MarkClaimed, Place
  <2>6. /\ run[r].keys \cap Free(bucket) = {}
        /\ run[r].keys \cap Free(row)' = {}
    BY <1>0, <2>2, <2>3, ReadBack DEF Free
  <2>7. Known(r)'
    BY <2>2, <2>3, <2>5, <2>6
       DEF Known, Claiming, Marking, Exhausted, Uploading, Answering, At, Free
  <2> QED BY <1>0, <2>1, <2>3, <2>4, <2>5, <2>7, StepAlone
<1>4. CASE MarkFails(r)
  <2>1. Busy(r) /\ At(r, "mark")
    BY <1>4 DEF MarkFails, At, Busy
  <2>2. PICK new \in Run : /\ run' = [run EXCEPT ![r] = new] /\ run'[r].at = "rollback"
                           /\ run'[r].keys = run[r].keys /\ run'[r].view = run[r].view
    BY <1>4, Moved DEF MarkFails, Place
  <2>3. Known(r)'
    BY <1>0, <1>4, <2>1, <2>2 DEF MarkFails, Known, Claiming, Marking, Exhausted, Uploading, Answering, At, Given
  <2> QED BY <1>0, <1>4, <2>1, <2>2, <2>3, StepAlone DEF MarkFails, Given
<1>5. CASE Rollback(r)
  <2>1. Busy(r) /\ At(r, "rollback")
    BY <1>5 DEF Rollback, At, Busy
  <2>2. bucket' = run[r].view /\ Given(run[r].view) = {}
    BY <1>0, <1>5, <2>1 DEF Marking, Rollback, SaveBucket
  <2> QED BY <1>0, <1>5, <2>1, <2>2, FinishQuiet DEF Rollback, Given
<1>6. CASE ClaimRow(r)
  <2>1. Busy(r) /\ At(r, "database")
    BY <1>6 DEF ClaimRow, At, Busy
  <2>2. Free(bucket) = {}
    BY <1>0, <2>1 DEF Exhausted
  <2>3. ASSUME NEW k \in Free(row), row' = Claimed(row, {k}), Taken(r, k)
        PROVE  Quiet'
    <3>1. k \in Key /\ k \notin handed
      BY <1>0 DEF Given, Free
    <3>2. UNCHANGED <<bucket, handed, twice>>
      BY <1>6 DEF ClaimRow
    <3>3. Given(bucket)' = {} /\ Given(row)' = {} /\ k \notin Free(row)'
      BY <1>0, <2>3, <3>1, <3>2, ReadBack DEF Given, Free, TypeOK
    <3> DEFINE new == [at |-> "answer", keys |-> {k}, view |-> Empty, fallback |-> FALSE]
    <3>4. new \in Run /\ run' = [run EXCEPT ![r] = new] /\ run'[r] = new
      BY <2>3, <3>1, BucketOperators DEF Taken, TypeOK, Run, Place
    <3>5. new.at = "answer" /\ new.keys = {k}
      OBVIOUS
    <3>6. Known(r)'
      BY <2>2, <3>1, <3>2, <3>3, <3>4, <3>5
         DEF Known, Claiming, Marking, Exhausted, Uploading, Answering, At, Free
    <3> HIDE DEF new
    <3> QED BY <1>0, <2>1, <3>2, <3>3, <3>4, <3>6, StepAlone
  <2>4. CASE Free(row) = {} /\ GoTo(r, "fallback") /\ UNCHANGED row
    <3>1. PICK new \in Run : /\ run' = [run EXCEPT ![r] = new]
                             /\ run'[r].at = "fallback"
      BY <2>4, Moved DEF Place
    <3>2. Known(r)'
      BY <1>6, <2>2, <2>4, <3>1
         DEF ClaimRow, Known, Claiming, Marking, Exhausted, Uploading, Answering, At, Free
    <3> QED BY <1>0, <1>6, <2>1, <2>4, <3>1, <3>2, StepAlone DEF ClaimRow, Given
  <2> QED BY <1>6, <2>3, <2>4 DEF ClaimRow
<1>7. CASE LoadForUpload(r)
  <2>1. Busy(r) /\ Loaded(r, bucket)
    BY <1>7, NotDisturbed DEF LoadForUpload, At, Busy
  <2>2. PICK next \in {"backup", "put_fallback"} :
          run' = [run EXCEPT ![r] = [at |-> next, keys |-> run[r].keys, view |-> bucket,
                                     fallback |-> run[r].fallback]]
    BY <2>1 DEF Loaded
  <2> DEFINE new == [at |-> next, keys |-> run[r].keys, view |-> bucket,
                     fallback |-> run[r].fallback]
  <2>3. new \in Run /\ run' = [run EXCEPT ![r] = new] /\ run'[r] = new
    BY <1>0, <2>2 DEF TypeOK, Run, Place
  <2>4. Known(r)'
    BY <1>7, <2>3 DEF LoadForUpload, Known, Claiming, Marking, Exhausted, Uploading, Answering, At
  <2> HIDE DEF new
  <2> QED BY <1>0, <1>7, <2>1, <2>3, <2>4, StepAlone DEF LoadForUpload, Given
<1>8. CASE Backup(r)
  <2>1. Busy(r) /\ At(r, "backup")
    BY <1>8 DEF Backup, At, Busy
  <2>2. run[r].keys \cap handed = {}
    BY <1>8, NotDisturbed DEF Backup
  <2>3. Given(row)' = {}
    BY <1>0, <1>8, <2>2, ReadBack DEF Backup, Given, TypeOK
  <2>4. PICK new \in Run : /\ run' = [run EXCEPT ![r] = new] /\ run'[r].at = "store"
                           /\ run'[r].keys = run[r].keys /\ run'[r].view = run[r].view
    BY <1>8, Moved DEF Backup, Place
  <2>5. Known(r)'
    BY <1>0, <1>8, <2>1, <2>2, <2>4 DEF Backup, Known, Claiming, Marking, Exhausted, Uploading, Answering, At
  <2> QED BY <1>0, <1>8, <2>1, <2>3, <2>4, <2>5, StepAlone DEF Backup, Given
<1>9. CASE StoreBucket(r)
  <2>1. Busy(r) /\ At(r, "store")
    BY <1>9 DEF StoreBucket, At, Busy
  <2>2. bucket' = Renewed(bucket, run[r].keys) /\ run[r].keys \cap handed = {}
    BY <1>0, <1>9, <2>1 DEF Uploading, StoreBucket, SaveBucket
  <2>3. Given(bucket)' = {}
    BY <1>0, <1>9, <2>2, ReadBack DEF StoreBucket, Given, TypeOK
  <2>4. PICK new \in Run : run' = [run EXCEPT ![r] = new] /\ run'[r].at = "put_fallback"
    BY <1>9, Moved DEF StoreBucket, Place
  <2>5. Known(r)'
    BY <2>4 DEF Known, Claiming, Marking, Exhausted, Uploading, Answering, At
  <2> QED BY <1>0, <1>9, <2>1, <2>3, <2>4, <2>5, StepAlone DEF StoreBucket, Given
<1>10. CASE PurgeKeys(r)
  <2>1. Busy(r)
    BY <1>10 DEF PurgeKeys, At, Busy
  <2>2. Given(row)' = {}
    BY <1>10, ReadBack DEF PurgeKeys, Given, TypeOK
  <2>3. PICK new \in Run : run' = [run EXCEPT ![r] = new] /\ run'[r].at = "purge_fallback"
    BY <1>10, Moved DEF PurgeKeys, Place
  <2>4. Known(r)'
    BY <2>3 DEF Known, Claiming, Marking, Exhausted, Uploading, Answering, At
  <2> QED BY <1>0, <1>10, <2>1, <2>2, <2>3, <2>4, StepAlone DEF PurgeKeys, Given
<1>11. CASE ClaimFallback(r) \/ PutFallback(r) \/ PurgeFallback(r) \/ Stop(r)
  <2>1. Busy(r) /\ Finish(r) /\ UNCHANGED <<bucket, row, handed, twice>>
    BY <1>11 DEF ClaimFallback, PutFallback, PurgeFallback, Stop, At, Busy
  <2> QED BY <1>0, <2>1, FinishQuiet DEF Given
<1>12. CASE AnswerClaim(r)
  <2>1. Busy(r) /\ At(r, "answer") /\ Finish(r) /\ UNCHANGED <<bucket, row>>
    BY <1>12 DEF AnswerClaim, At, Busy
  <2>2. /\ twice' = twice \cup (handed \cap run[r].keys)
        /\ handed' = handed \cup run[r].keys
    BY <1>12 DEF AnswerClaim, Give
  <2>3. /\ run[r].keys \cap handed = {}
        /\ run[r].keys \cap Free(bucket) = {}
        /\ run[r].keys \cap Free(row) = {}
    BY <1>0, <2>1 DEF Answering
  <2>4. twice' = {}
    BY <1>0, <2>2, <2>3
  <2>5. Given(bucket)' = {} /\ Given(row)' = {}
    BY <1>0, <2>1, <2>2, <2>3 DEF Given, Free, TypeOK
  <2> QED BY <2>1, <2>4, <2>5, FinishQuiet
<1> QED
  BY <1>1, <1>2, <1>3, <1>4, <1>5, <1>6, <1>7, <1>8, <1>9, <1>10, <1>11, <1>12

LEMMA ConvergeQuiet == IInv /\ (Converge \/ UNCHANGED vars) => IInv'
  BY DEF IInv, Converge, vars, Quiet, Given, Alone, Busy, At,
         Known, Claiming, Marking, Exhausted, Uploading, Answering, Free

LEMMA DisturbancesStay ==
    ASSUME TypeOK, [Next]_vars, disturbances' = 0
    PROVE  disturbances = 0
<1>1. CASE UNCHANGED disturbances
  BY <1>1
<1>2. ASSUME NEW what \in BOOLEAN, Disturb(what) PROVE disturbances = 0
  BY <1>2, NotDisturbed
<1>3. ASSUME NEW r \in Request,
             \/ BeginClaim(r) \/ BeginUpload(r) \/ BeginPurge(r)
             \/ LoadForClaim(r) \/ LoadForUpload(r) \/ Backup(r)
      PROVE  \E what \in BOOLEAN : Disturb(what)
  BY <1>3 DEF BeginClaim, BeginUpload, BeginPurge, Begin, LoadForClaim, LoadForUpload, Backup
<1>4. ASSUME NEW r \in Request,
             \/ SaveClaim(r) \/ MarkClaimed(r) \/ MarkFails(r) \/ Rollback(r) \/ ClaimRow(r)
             \/ ClaimFallback(r) \/ AnswerClaim(r) \/ StoreBucket(r) \/ PutFallback(r)
             \/ PurgeKeys(r) \/ PurgeFallback(r) \/ Stop(r)
      PROVE  UNCHANGED disturbances
  BY <1>4 DEF SaveClaim, MarkClaimed, MarkFails, Rollback, ClaimRow, ClaimFallback, AnswerClaim,
              StoreBucket, PutFallback, PurgeKeys, PurgeFallback, Stop
<1>5. CASE Converge \/ UNCHANGED vars
  BY <1>1, <1>5 DEF Converge, vars
<1> QED BY StepCases, <1>1, <1>2, <1>3, <1>4, <1>5

LEMMA InductiveStep == TypeOK /\ IInv /\ [Next]_vars => IInv'
<1> SUFFICES ASSUME TypeOK, IInv, [Next]_vars, disturbances' = 0 PROVE Quiet'
  BY DEF IInv
<1>1. disturbances = 0 /\ Quiet
  BY DisturbancesStay DEF IInv
<1>2. CASE Converge \/ UNCHANGED vars
  BY <1>2, ConvergeQuiet DEF IInv
<1>3. ASSUME NEW r \in Request, BeginClaim(r) \/ BeginUpload(r) \/ BeginPurge(r)
      PROVE  Quiet'
  <2>1. PICK place \in {"load_claim", "load_upload", "purge_keys"} :
          \E keys \in SUBSET Key, withFallback \in BOOLEAN : Begin(r, place, keys, withFallback)
    BY <1>3 DEF BeginClaim, BeginUpload, BeginPurge
  <2> QED BY <2>1, BeginQuiet
<1> QED BY StepCases, <1>1, <1>2, <1>3, QuietStep

LEMMA Inductive == Spec => []IInv
  BY QuietInit, InductiveStep, TypeCorrect, PTL DEF Spec

(* A key is given to one claim, wherever a worker stops and whatever D1    *)
(* refuses, as long as requests do not overlap, KV returns what was put    *)
(* last and the device uploads no key again.                               *)
THEOREM KeysGivenOnce == Spec => []GivenOnce
<1>1. IInv => GivenOnce
  BY DEF IInv, Quiet, GivenOnce
<1> QED BY Inductive, <1>1, PTL

-----------------------------------------------------------------------------
(* The fallback key.                                                        *)

LEMMA FallbackStep ==
    ASSUME TypeOK, IInv, [Next]_vars,
           fallback = "free", fallback' = "claimed", disturbances = 0
    PROVE  Free(bucket) = {} /\ Free(row) = {}
<1>1. ASSUME NEW r \in Request, ClaimFallback(r)
      PROVE  Free(bucket) = {} /\ Free(row) = {}
  BY <1>1 DEF ClaimFallback, IInv, Quiet, Known, Exhausted, At
<1>2. ASSUME NEW r \in Request,
             \/ BeginClaim(r) \/ BeginUpload(r) \/ BeginPurge(r)
             \/ LoadForClaim(r) \/ SaveClaim(r) \/ MarkClaimed(r) \/ MarkFails(r)
             \/ Rollback(r) \/ ClaimRow(r) \/ LoadForUpload(r) \/ Backup(r)
             \/ StoreBucket(r) \/ PutFallback(r) \/ PurgeKeys(r) \/ PurgeFallback(r)
             \/ AnswerClaim(r) \/ Stop(r)
      PROVE  fallback' # "claimed"
  BY <1>2 DEF BeginClaim, BeginUpload, BeginPurge, Begin, LoadForClaim, SaveClaim, MarkClaimed,
              MarkFails, Rollback, ClaimRow, LoadForUpload, Backup, StoreBucket,
              PutFallback, PurgeKeys, PurgeFallback, AnswerClaim, Stop
<1>3. CASE Converge \/ UNCHANGED vars
  BY <1>3 DEF Converge, vars
<1> QED BY StepCases, <1>1, <1>2, <1>3

(* The fallback key is given when no one-time key is left in KV or in D1.  *)
THEOREM FallbackComesLast == Spec => FallbackIsLast
<1>1. TypeOK /\ IInv /\ [Next]_vars =>
        [fallback = "free" /\ fallback' = "claimed" /\ disturbances = 0
            => Free(bucket) = {} /\ Free(row) = {}]_vars
  BY FallbackStep
<1> QED BY TypeCorrect, Inductive, <1>1, PTL DEF Spec, FallbackIsLast

=============================================================================
