---------------------------- MODULE ItemImages -----------------------------
(***************************************************************************)
(* Item photos across two systems with no common transaction: the bucket   *)
(* that an instance makes sure of while it boots                           *)
(* (ObjectStorageService.onModuleInit, ensureBucket), and the upload that  *)
(* re-encodes, stores and then links a picture (ItemImageService.replace). *)
(* A picture is named by the digest of what the encoder made of it.        *)
(***************************************************************************)
EXTENDS Integers, Absent

CONSTANTS Instances,
          Pictured,           \* menu items
          Digests,
          Attempts,           \* READINESS_ATTEMPTS
          Elsewhere,          \* a URL a manager typed in
          MaxFaults,          \* bound: storage calls that fail a process
          MaxRestarts         \* bound: processes that die

\* None stands for an image_url that is null.
ASSUME UrlsAssumption == None \notin Digests /\ Elsewhere \notin Digests

VARIABLES autoCreateBucket, \* S3_AUTO_CREATE_BUCKET, fixed at deployment
          bucket,     \* "absent", "private" or "public"
          objects,    \* digests stored in the bucket
          imageUrl,   \* item -> menu_items.image_url
          boot,       \* instance -> where its boot stands
          attempt,    \* instance -> the attempt it is making
          upload,     \* instance -> the upload it is serving
          faults,     \* instance -> storage calls that failed it since its start
          restarts    \* processes that died so far

imageVars == <<autoCreateBucket, bucket, objects, imageUrl, boot, attempt, upload,
          faults, restarts>>

\* What no call of the storage touches.
deployed == <<autoCreateBucket, restarts>>

NoUpload == [at |-> "idle", item |-> None, digest |-> None]

ImagesTypeOK ==
    /\ autoCreateBucket \in BOOLEAN /\ restarts \in 0..MaxRestarts
    /\ bucket \in {"absent", "private", "public"}
    /\ objects \subseteq Digests
    /\ imageUrl \in [Pictured -> Digests \cup {None, Elsewhere}]
    /\ boot \in [Instances -> {"head", "create", "policy", "up", "refused"}]
    /\ attempt \in [Instances -> 1..Attempts]
    /\ upload \in [Instances -> [at : {"idle", "put", "update"},
                                 item : Pictured \cup {None},
                                 digest : Digests \cup {None}]]
    /\ faults \in [Instances -> 0..MaxFaults]

\* The operator provisioned a public bucket, or none.
ImagesInit ==
    /\ autoCreateBucket \in BOOLEAN /\ restarts = 0
    /\ bucket \in {"absent", "public"} /\ objects = {}
    /\ imageUrl = [m \in Pictured |-> None]
    /\ boot = [i \in Instances |-> "head"]
    /\ attempt = [i \in Instances |-> 1]
    /\ upload = [i \in Instances |-> NoUpload]
    /\ faults = [i \in Instances |-> 0]

Go(i, to) == boot' = [boot EXCEPT ![i] = to]

\* onModuleInit's catch: the next attempt starts over, the last one refuses.
attemptFails(i) ==
    IF attempt[i] < Attempts
    THEN Go(i, "head") /\ attempt' = [attempt EXCEPT ![i] = @ + 1]
    ELSE Go(i, "refused") /\ UNCHANGED attempt

\* A call of the storage that fails this instance.
Fault(i) == faults[i] < MaxFaults /\ faults' = [faults EXCEPT ![i] = @ + 1]

\* ensureBucket, HeadBucket: an error of any kind leads to the creation.
headBucket(i) ==
    /\ boot[i] = "head"
    /\ \/ bucket # "absent" /\ Go(i, "up") /\ UNCHANGED <<attempt, faults>>
       \/ /\ bucket = "absent" /\ UNCHANGED faults
          /\ IF autoCreateBucket
             THEN Go(i, "create") /\ UNCHANGED attempt ELSE attemptFails(i)
       \/ /\ Fault(i)
          /\ IF autoCreateBucket
             THEN Go(i, "create") /\ UNCHANGED attempt ELSE attemptFails(i)
    /\ UNCHANGED <<deployed, bucket, objects, imageUrl, upload>>

\* ensureBucket, CreateBucket: a bucket that is already ours is no error.
createBucket(i) ==
    /\ boot[i] = "create"
    /\ \/ /\ bucket' = IF bucket = "absent" THEN "private" ELSE bucket
          /\ Go(i, "policy") /\ UNCHANGED <<attempt, faults>>
       \/ Fault(i) /\ attemptFails(i) /\ UNCHANGED bucket
    /\ UNCHANGED <<deployed, objects, imageUrl, upload>>

allowPublicReads(i) ==
    /\ boot[i] = "policy"
    /\ \/ bucket' = "public" /\ Go(i, "up") /\ UNCHANGED <<attempt, faults>>
       \/ Fault(i) /\ attemptFails(i) /\ UNCHANGED bucket
    /\ UNCHANGED <<deployed, objects, imageUrl, upload>>

\* MUTANT of replace: the URL, which the digest determines, is written first.
replaceLinkingFirst(i, m, d) ==
    /\ boot[i] = "up" /\ upload[i] = NoUpload
    /\ upload' = [upload EXCEPT ![i] = [at |-> "put", item |-> m, digest |-> d]]
    /\ imageUrl' = [imageUrl EXCEPT ![m] = d]
    /\ UNCHANGED <<deployed, bucket, objects, boot, attempt, faults>>

\* replace, up to the encoded image: the item exists and the file decodes.
\* Uploads that fail here leave no trace.
replace(i, m, d) ==
    /\ boot[i] = "up" /\ upload[i] = NoUpload
    /\ upload' = [upload EXCEPT ![i] = [at |-> "put", item |-> m, digest |-> d]]
    /\ UNCHANGED <<deployed, bucket, objects, imageUrl, boot, attempt, faults>>

put(i) ==
    /\ upload[i].at = "put"
    /\ \/ /\ objects' = objects \cup {upload[i].digest}
          /\ upload' = [upload EXCEPT ![i].at = "update"]
          /\ UNCHANGED faults
       \/ Fault(i) /\ upload' = [upload EXCEPT ![i] = NoUpload] /\ UNCHANGED objects
    /\ UNCHANGED <<deployed, bucket, imageUrl, boot, attempt>>

\* items.update with the stored URL.
link(i) ==
    /\ upload[i].at = "update"
    /\ imageUrl' = [imageUrl EXCEPT ![upload[i].item] = upload[i].digest]
    /\ upload' = [upload EXCEPT ![i] = NoUpload]
    /\ UNCHANGED <<deployed, bucket, objects, boot, attempt, faults>>

\* A manager's PATCH clears the picture or points it somewhere else.
update(m, url) ==
    /\ url \in {None, Elsewhere}
    /\ imageUrl' = [imageUrl EXCEPT ![m] = url]
    /\ UNCHANGED <<deployed, bucket, objects, boot, attempt, upload, faults>>

\* The process dies, during its boot or an upload, and is started again.
Restart(i) ==
    /\ restarts < MaxRestarts /\ restarts' = restarts + 1
    /\ faults' = [faults EXCEPT ![i] = 0]
    /\ Go(i, "head")
    /\ attempt' = [attempt EXCEPT ![i] = 1]
    /\ upload' = [upload EXCEPT ![i] = NoUpload]
    /\ UNCHANGED <<autoCreateBucket, bucket, objects, imageUrl>>

Boots(i) == headBucket(i) \/ createBucket(i) \/ allowPublicReads(i)

ImagesNext ==
    \/ \E i \in Instances :
          \/ Boots(i) \/ put(i) \/ link(i) \/ Restart(i)
          \/ \E m \in Pictured, d \in Digests : replace(i, m, d)
    \/ \E m \in Pictured, url \in {None, Elsewhere} : update(m, url)

ImagesSpec == ImagesInit /\ [][ImagesNext]_imageVars

(***************************************************************************)
(* Whatever is interleaved, fails or dies, an item never shows one of our  *)
(* URLs without the picture being in the bucket.                           *)
(***************************************************************************)
LinkedIsStored ==
    \A m \in Pictured : imageUrl[m] \in Digests => imageUrl[m] \in objects

(***************************************************************************)
(* Once every instance serves, the pictures that items show load: the      *)
(* bucket the application created is readable ("what makes the URL this    *)
(* service hands back actually load in a browser").                        *)
(***************************************************************************)
\* Not guaranteed by the code: the README tells how it fails.
ShownPicturesLoad ==
    (\A i \in Instances : boot[i] = "up")
        => \A m \in Pictured : imageUrl[m] \in Digests => bucket = "public"
=============================================================================
