------------------------------- MODULE Deploy -------------------------------
(***************************************************************************)
(* The receiver's deploy job, scripts/deploy/deploy.py with util.py: one   *)
(* CI job after another on a runner whose deploy directory persists.  A    *)
(* job moves the build from /artifacts into TEMP_DIR, syncs the local      *)
(* cache with the bucket, regenerates releases_v1.json from TEMP_DIR,      *)
(* copies TEMP_DIR into the cache, uploads, and removes TEMP_DIR.  A job   *)
(* can fail between any two of these steps (a network error, the KeyError *)
(* of line 174); what it wrote to disk stays.                              *)
(*                                                                         *)
(* One zip per build stands for the build's packages (one OS and arch);   *)
(* PackageFormat's parse of its name is the record [v, ch, cv]; a file on  *)
(* disk or in the bucket adds d, the version directory it is under.  A     *)
(* version is a sequence of dot-separated parts, a part a sequence of      *)
(* digits, so compare_versions compares them as the strings they are.     *)
(***************************************************************************)
EXTENDS Integers, FiniteSets, SequencesExt

CONSTANTS
    Channels,            \* release channels, "stable" among them
    Builds,              \* the builds CI hands to successive jobs, in order
    InitialArtifact,     \* the release in the bucket before the first job
    CacheVersionAmount,  \* CACHE_VERSION_AMOUNT; negative keeps every version
    MaxRuns,             \* jobs started: builds and reruns together
    MaxCrashes,          \* jobs that fail at an arbitrary step
    NoCv,                \* a channel without channelCurrentVersions entry
    NoArtifact,          \* no entry, or no current artifact_version
    NoManifest           \* releases_v1.json not in the local cache

VARIABLES
    pc,              \* the step the running job is at; "idle" between jobs
    artifacts,       \* /artifacts
    temp,            \* TEMP_DIR
    cache,           \* LOCAL_CACHE_DIR/electron: the artifacts it holds
    cacheManifest,   \* LOCAL_CACHE_DIR/electron/releases_v1.json
    bucket,          \* the bucket's artifacts
    bucketManifest,  \* the bucket's electron/releases_v1.json
    av,              \* artifact_version of the running job
    pending,         \* upload_local_cache's files still to upload
    next,            \* index of the next build CI hands over
    runs, crashes,   \* jobs started and jobs failed
    last             \* how the last job ended

vars == <<pc, artifacts, temp, cache, cacheManifest, bucket, bucketManifest,
          av, pending, next, runs, crashes, last>>

Artifacts == {InitialArtifact} \cup Range(Builds)

\* Build a's zip under the version directory d.
FileOf(a, d) == [v |-> a.v, ch |-> a.ch, cv |-> a.cv, d |-> d]

\* What PackageFormat parses from a file's name (util.py line 143 on).
BuildOf(f) == [v |-> f.v, ch |-> f.ch, cv |-> f.cv]

Files == {FileOf(a, b.v) : a \in Artifacts, b \in Artifacts}

-----------------------------------------------------------------------------
(* util.compare_versions (lines 176-186): part by part, as strings.       *)

\* Python's < on two str: by character, a proper prefix first.
RECURSIVE StrLess(_, _)
StrLess(a, b) ==
    IF a = <<>> THEN b # <<>>
    ELSE IF b = <<>> THEN FALSE
    ELSE IF Head(a) # Head(b) THEN Head(a) < Head(b)
    ELSE StrLess(Tail(a), Tail(b))

\* range(len(x_parts)) indexes y_parts too: a shorter y is an IndexError.
compare_versions(x, y) ==
    LET RECURSIVE From(_)
        From(i) == IF i > Len(x) THEN 0
                   ELSE IF StrLess(x[i], y[i]) THEN -1
                   ELSE IF StrLess(y[i], x[i]) THEN 1
                   ELSE From(i + 1)
    IN  From(1)

\* S3Client.get_versions() (lines 38-47): the bucket's versions sorted by
\* compare_versions, highest first, cut to CACHE_VERSION_AMOUNT.  The
\* listing is taken when the job starts; only this job writes the bucket
\* and it does so after the last read of the listing but one (line 89).
get_versions ==
    LET vs == {f.d : f \in bucket}
    IN  IF CacheVersionAmount < 0 THEN vs
        ELSE {v \in vs : Cardinality({w \in vs : compare_versions(w, v) > 0})
                            < CacheVersionAmount}

-----------------------------------------------------------------------------
Init ==
    /\ pc = "idle"
    /\ artifacts = {} /\ temp = {} /\ cache = {}
    /\ cacheManifest = NoManifest
    /\ bucket = {FileOf(InitialArtifact, InitialArtifact.v)}
    /\ bucketManifest =
          [current |-> InitialArtifact.v,
           chv |-> [c \in Channels |-> NoCv],
           rel |-> [c \in Channels |->
                      IF c = InitialArtifact.ch
                      THEN FileOf(InitialArtifact, InitialArtifact.v)
                      ELSE NoArtifact]]
    /\ av = NoArtifact
    /\ pending = [manifest |-> FALSE, files |-> {}]
    /\ next = 1 /\ runs = 0 /\ crashes = 0 /\ last = "none"

\* CI starts a job, with the next build placed in /artifacts next to what
\* a failed job left there, or as a rerun with nothing new built.
StartRun ==
    /\ pc = "idle" /\ runs < MaxRuns
    /\ \/ /\ next <= Len(Builds)
          /\ artifacts' = artifacts \cup {Builds[next]}
          /\ next' = next + 1
       \/ UNCHANGED <<artifacts, next>>
    /\ runs' = runs + 1
    /\ pc' = "ensure"
    /\ UNCHANGED <<temp, cache, cacheManifest, bucket, bucketManifest, av,
                   pending, crashes, last>>

\* ensure_files_exist (lines 25-31, called at 236-245): the manifest is
\* downloaded only when the cache has none.
ensure_files_exist ==
    /\ pc = "ensure"
    /\ cacheManifest' = IF cacheManifest = NoManifest THEN bucketManifest
                        ELSE cacheManifest
    /\ pc' = "copy"
    /\ UNCHANGED <<artifacts, temp, cache, bucket, bucketManifest, av,
                   pending, next, runs, crashes, last>>

\* shutil.copytree(..., dirs_exist_ok=True): merges into what is there.
CopyTreeReplace(dst, src) == src
CopyTree(dst, src) == dst \cup src

\* copy_artifacts_to_local_cache (lines 33-54): the version is the cached
\* manifest's currentVersion when /artifacts is empty, else that of the
\* first zip os.listdir gives, and all of /artifacts is copied under
\* TEMP_DIR/<that version> and emptied.
copy_artifacts_to_local_cache ==
    /\ pc = "copy"
    /\ IF artifacts = {}
       THEN /\ av' = [v |-> cacheManifest.current, ch |-> "stable", cv |-> NoCv]
            /\ UNCHANGED temp
       ELSE \E a \in artifacts :
               /\ av' = a
               /\ temp' = CopyTree(temp, {FileOf(b, a.v) : b \in artifacts})
    /\ artifacts' = {}
    /\ pc' = "sync"
    /\ UNCHANGED <<cache, cacheManifest, bucket, bucketManifest, pending,
                   next, runs, crashes, last>>

\* sync_local_cache (lines 56-75): cached files of versions get_versions()
\* does not list are purged, then every bucket file not kept is downloaded.
sync_local_cache ==
    /\ pc = "sync"
    /\ cache' = {f \in cache : f.d \in get_versions} \cup bucket
    /\ pc' = "gen"
    /\ UNCHANGED <<artifacts, temp, cacheManifest, bucket, bucketManifest,
                   av, pending, next, runs, crashes, last>>

(* generate_releases_json (lines 159-227).                                 *)

\* Line 173 without its version check.
OlderReleaseUnchecked(m) == FALSE

\* Line 173, first operand: an older version is not released.
OlderRelease(m) == compare_versions(av.v, m.current) < 0

\* Line 174: channel_current_versions[channel] of a channel it lacks.
ChannelUnknown(m) == av.ch # "stable" /\ m.chv[av.ch] = NoCv

\* Line 174, second operand, for a channel it has.
OlderChannelRelease(m) == av.ch # "stable" /\ av.cv < m.chv[av.ch]

\* PackageFormat(rel_path).channel (line 183): the file's own channel.
EntryChannelOfJob(a) == av.ch
EntryChannel(a) == a.ch

\* Line 213 over every file of channel c: the highest channel version,
\* starting from the manifest's (0 when absent).
NextCv(m, c) ==
    Max({a.cv : a \in {b \in temp : EntryChannel(b) = c}}
        \cup {IF m.chv[c] = NoCv THEN 0 ELSE m.chv[c]})

\* Lines 178-224: os.walk(TEMP_DIR) visits the version directories in
\* directory order, so of several zips of one channel any may come last
\* and keep the entry (lines 205-210).  currentVersion: line 215's
\* max(...) is a non-empty string, so a stable job always sets it.
Regenerated(m, entry) ==
    [current |-> IF av.ch = "stable" THEN av.v ELSE m.current,
     chv |-> [c \in Channels |->
                IF c = "stable" \/ entry[c] = NoArtifact THEN m.chv[c]
                ELSE NextCv(m, c)],
     rel |-> [c \in Channels |->
                IF entry[c] = NoArtifact THEN m.rel[c] ELSE entry[c]]]

generate_releases_json ==
    /\ pc = "gen"
    /\ LET m == cacheManifest IN
       \/ /\ OlderRelease(m) \/ (~ChannelUnknown(m) /\ OlderChannelRelease(m))
          /\ pc' = "upload"
          /\ UNCHANGED <<cacheManifest, last>>
       \/ /\ ~OlderRelease(m) /\ ChannelUnknown(m)
          /\ pc' = "idle" /\ last' = "crashed"
          /\ UNCHANGED cacheManifest
       \/ /\ ~OlderRelease(m) /\ ~ChannelUnknown(m) /\ ~OlderChannelRelease(m)
          /\ \E entry \in [Channels -> temp \cup {NoArtifact}] :
                /\ \A c \in Channels :
                      IF \E a \in temp : EntryChannel(a) = c
                      THEN entry[c] # NoArtifact /\ EntryChannel(entry[c]) = c
                      ELSE entry[c] = NoArtifact
                /\ cacheManifest' = Regenerated(m, entry)
          /\ pc' = "upload"
          /\ UNCHANGED last
    /\ UNCHANGED <<artifacts, temp, cache, bucket, bucketManifest, av,
                   pending, next, runs, crashes>>

\* upload_local_cache without line 79's copy of TEMP_DIR into the cache.
upload_local_cache_no_copy ==
    /\ pc = "upload"
    /\ pending' = [manifest |-> TRUE, files |-> cache \ bucket]
    /\ pc' = "put"
    /\ UNCHANGED <<artifacts, temp, cache, cacheManifest, bucket,
                   bucketManifest, av, next, runs, crashes, last>>

\* upload_local_cache (lines 77-90): TEMP_DIR is copied into the cache;
\* what the bucket lacks is to be uploaded, and the manifest always.
upload_local_cache ==
    /\ pc = "upload"
    /\ cache' = cache \cup temp
    /\ pending' = [manifest |-> TRUE, files |-> (cache \cup temp) \ bucket]
    /\ pc' = "put"
    /\ UNCHANGED <<artifacts, temp, cacheManifest, bucket, bucketManifest,
                   av, next, runs, crashes, last>>

\* S3Client.upload_file (lines 57-80), one file per step.  os.walk is
\* top-down: electron/releases_v1.json is listed before any file in a
\* version directory below it, so the manifest goes up first.
upload_file ==
    /\ pc = "put"
    /\ \/ /\ pending.manifest
          /\ bucketManifest' = cacheManifest
          /\ pending' = [pending EXCEPT !.manifest = FALSE]
          /\ UNCHANGED bucket
       \/ /\ ~pending.manifest
          /\ \E a \in pending.files :
                /\ bucket' = bucket \cup {a}
                /\ pending' = [pending EXCEPT !.files = @ \ {a}]
          /\ UNCHANGED bucketManifest
    /\ UNCHANGED <<pc, artifacts, temp, cache, cacheManifest, av, next,
                   runs, crashes, last>>

\* Lines 258-259: the job ends by removing TEMP_DIR.
Cleanup ==
    /\ pc = "put" /\ ~pending.manifest /\ pending.files = {}
    /\ temp' = {}
    /\ av' = NoArtifact
    /\ pc' = "idle" /\ last' = "ok"
    /\ UNCHANGED <<artifacts, cache, cacheManifest, bucket, bucketManifest,
                   pending, next, runs, crashes>>

\* The job fails between two steps; every file it wrote stays, its
\* locals go with the process.
Crash ==
    /\ pc \notin {"idle"} /\ crashes < MaxCrashes
    /\ crashes' = crashes + 1
    /\ pc' = "idle" /\ last' = "crashed"
    /\ av' = NoArtifact
    /\ pending' = [manifest |-> FALSE, files |-> {}]
    /\ UNCHANGED <<artifacts, temp, cache, cacheManifest, bucket,
                   bucketManifest, next, runs>>

Next ==
    \/ StartRun \/ ensure_files_exist \/ copy_artifacts_to_local_cache
    \/ sync_local_cache \/ generate_releases_json \/ upload_local_cache
    \/ upload_file \/ Cleanup \/ Crash

Spec == Init /\ [][Next]_vars

-----------------------------------------------------------------------------
(* Properties                                                              *)

\* The value of a version part read as a decimal number.
PartValue(p) == FoldLeft(LAMBDA acc, d : 10 * acc + d, 0, p)

\* Reference order of versions: part by part, as numbers.
VersionBelow(x, y) ==
    \E i \in 1..Len(x) :
        /\ \A j \in 1..(i - 1) : PartValue(x[j]) = PartValue(y[j])
        /\ PartValue(x[i]) < PartValue(y[i])

Manifests ==
    [current : {a.v : a \in Artifacts},
     chv : [Channels -> Nat \cup {NoCv}],
     rel : [Channels -> Files \cup {NoArtifact}]]

\* The types, and: the entry of a channel is a build of that channel
\* (generate_releases_json files each zip under PackageFormat's channel).
TypeOK ==
    /\ pc \in {"idle", "ensure", "copy", "sync", "gen", "upload", "put"}
    /\ artifacts \subseteq Artifacts /\ temp \subseteq Files
    /\ cache \subseteq Files /\ bucket \subseteq Files
    /\ cacheManifest \in Manifests \cup {NoManifest}
    /\ bucketManifest \in Manifests
    /\ \A m \in {bucketManifest, cacheManifest} \ {NoManifest} :
          \A c \in Channels : m.rel[c] # NoArtifact => m.rel[c].ch = c
    /\ pending.files \subseteq cache
    /\ next \in 1..(Len(Builds) + 1)
    /\ runs \in 0..MaxRuns /\ crashes \in 0..MaxCrashes

\* Across failed jobs and reruns, a build handed to CI is never lost: it
\* is in /artifacts, still in TEMP_DIR, or in the bucket (copy moves it,
\* only the end of a whole job removes TEMP_DIR).
NoArtifactLost ==
    \A i \in 1..(next - 1) :
        Builds[i] \in artifacts \cup {BuildOf(f) : f \in temp \cup bucket}

\* After a job that ran to its end, every release entry of the published
\* releases_v1.json names an artifact that is in the bucket.
DeployedManifestResolves ==
    (pc = "idle" /\ last = "ok") =>
        \A c \in Channels :
            bucketManifest.rel[c] # NoArtifact =>
                bucketManifest.rel[c] \in bucket

\* No upload of releases_v1.json moves its currentVersion to a lower
\* version (line 173's check, against later builds of older lines).
PublishedVersionNeverRegresses ==
    [][~VersionBelow(bucketManifest'.current, bucketManifest.current)]_vars

\* After a job that ran to its end, the published currentVersion is the
\* highest stable version built (what clients update to).
CurrentVersionIsHighest ==
    (pc = "idle" /\ last = "ok") =>
        \A i \in 1..(next - 1) :
            Builds[i].ch = "stable" =>
                ~VersionBelow(bucketManifest.current, Builds[i].v)

\* After a job that ran to its end, the published stable download is the
\* build of the published currentVersion.
StableUrlIsCurrent ==
    (pc = "idle" /\ last = "ok") =>
        bucketManifest.rel["stable"].v = bucketManifest.current
=============================================================================
