---------------------------- MODULE LegacyDeploy ----------------------------
(***************************************************************************)
(* The first deploy job, src/receivers/electron/scripts/deploy.py: list   *)
(* the bucket when the script loads (lines 52-56), move /artifacts into    *)
(* TEMP_DIR/<version>, sync the local cache with the listing, copy         *)
(* TEMP_DIR into the cache, rename the current version's files with        *)
(* -rc<N> when RELEASE_CANDIDATE is set, upload what the listing lacks,    *)
(* remove TEMP_DIR.  Jobs follow one another on a runner whose deploy      *)
(* directory persists, and a job can fail between any two steps.          *)
(*                                                                         *)
(* One zip per build.  A file is [d, v, sfx]: the version directory it is *)
(* under, the version in its name, and the -rc<N> suffixes added to its    *)
(* name.  A version is a sequence of parts, a part a sequence of digits.   *)
(***************************************************************************)
EXTENDS Integers, FiniteSets, SequencesExt

CONSTANTS
    Builds,              \* versions CI builds for successive jobs, in order
    InitialVersion,      \* the release in the bucket before the first job
    CacheVersionAmount,  \* CACHE_VERSION_AMOUNT; negative keeps every version
    ReleaseCandidate,    \* bool(RELEASE_CANDIDATE)
    RcVersion,           \* RELEASE_CANDIDATE_VERSION
    MaxRuns,             \* jobs started: builds and reruns together
    MaxCrashes,          \* jobs that fail at an arbitrary step
    None                 \* current_version when nothing was built

ASSUME ReleaseCandidate \in BOOLEAN /\ MaxRuns \in Nat /\ MaxCrashes \in Nat

VARIABLES
    pc,          \* the step the running job is at; "idle" between jobs
    artifacts,   \* /artifacts: the versions of the builds in it
    temp,        \* TEMP_DIR's files
    cache,       \* LOCAL_CACHE_DIR/electron's files
    bucket,      \* the bucket's files
    listing,     \* bucket_files: the listing taken when the script loaded
    cv,          \* current_version
    pending,     \* local_files still to go through the upload loop
    next, runs, crashes,
    last         \* how the last job ended

vars == <<pc, artifacts, temp, cache, bucket, listing, cv, pending, next,
          runs, crashes, last>>

\* The zip CI builds for version v, under TEMP_DIR/<d>.
BuildZip(d, v) == [d |-> d, v |-> v, sfx |-> <<>>]

-----------------------------------------------------------------------------
\* Python's < on two str: by character, a proper prefix first.
RECURSIVE StrLess(_, _)
StrLess(a, b) ==
    IF a = <<>> THEN b # <<>>
    ELSE IF b = <<>> THEN FALSE
    ELSE IF Head(a) # Head(b) THEN Head(a) < Head(b)
    ELSE StrLess(Tail(a), Tail(b))

\* compare_versions (lines 23-33): the dot parts compared as strings.
compare_versions(x, y) ==
    LET RECURSIVE From(_)
        From(i) == IF i > Len(x) THEN 0
                   ELSE IF StrLess(x[i], y[i]) THEN -1
                   ELSE IF StrLess(y[i], x[i]) THEN 1
                   ELSE From(i + 1)
    IN  From(1)

\* bucket_versions (lines 54-55): the listing's version directories,
\* highest first by compare_versions, cut to CACHE_VERSION_AMOUNT.
bucket_versions ==
    LET vs == {f.d : f \in listing}
    IN  IF CacheVersionAmount < 0 THEN vs
        ELSE {v \in vs : Cardinality({w \in vs : compare_versions(w, v) > 0})
                            < CacheVersionAmount}

\* Lines 114-117: "-rc<N>" inserted before the extension.
RcName(f) == [f EXCEPT !.sfx = Append(@, RcVersion)]

\* The loop of lines 108-119 over the files in os.walk's order: a file of
\* the current version is renamed in place (replacing a file of that name)
\* and listed under its new name.  Result: the cache and local_files.
RECURSIVE WalkRename(_, _, _)
WalkRename(order, files, local) ==
    IF order = <<>> THEN [files |-> files, local |-> local]
    ELSE LET f == Head(order)
         IN  IF ReleaseCandidate /\ f.d = cv
             THEN WalkRename(Tail(order), (files \ {f}) \cup {RcName(f)},
                             Append(local, RcName(f)))
             ELSE WalkRename(Tail(order), files, Append(local, f))

-----------------------------------------------------------------------------
Init ==
    /\ pc = "idle"
    /\ artifacts = {} /\ temp = {} /\ cache = {}
    /\ bucket = {BuildZip(InitialVersion, InitialVersion)}
    /\ listing = {}
    /\ cv = None
    /\ pending = <<>>
    /\ next = 1 /\ runs = 0 /\ crashes = 0 /\ last = "none"

\* CI starts the script with the next build in /artifacts (next to what a
\* failed job left there) or reruns it with nothing new; at load the
\* script lists the bucket (lines 52-53) and makes TEMP_DIR (line 56).
StartRun ==
    /\ pc = "idle" /\ runs < MaxRuns
    /\ \/ /\ next <= Len(Builds)
          /\ artifacts' = artifacts \cup {Builds[next]}
          /\ next' = next + 1
       \/ UNCHANGED <<artifacts, next>>
    /\ listing' = bucket
    /\ runs' = runs + 1
    /\ pc' = "copy"
    /\ UNCHANGED <<temp, cache, bucket, cv, pending, crashes, last>>

\* copy_artifacts_to_local_cache (lines 60-75): None when /artifacts is
\* empty; else the version in the name of the first zip os.listdir gives,
\* and all of /artifacts copied under TEMP_DIR/<that version>, then
\* emptied.
copy_artifacts_to_local_cache ==
    /\ pc = "copy"
    /\ IF artifacts = {}
       THEN /\ cv' = None
            /\ UNCHANGED <<temp, artifacts>>
       ELSE \E d \in artifacts :
               /\ cv' = d
               /\ temp' = temp \cup {BuildZip(d, v) : v \in artifacts}
               /\ artifacts' = {}
    /\ pc' = "sync"
    /\ UNCHANGED <<cache, bucket, listing, pending, next, runs, crashes, last>>

\* sync_local_cache (lines 77-101): cached files of versions not in
\* bucket_versions are removed, then every listed file not kept is
\* downloaded.
sync_local_cache ==
    /\ pc = "sync"
    /\ cache' = {f \in cache : f.d \in bucket_versions} \cup listing
    /\ pc' = "upload"
    /\ UNCHANGED <<artifacts, temp, bucket, listing, cv, pending, next,
                   runs, crashes, last>>

\* upload_local_cache (lines 103-119): TEMP_DIR is copied into the cache,
\* the cache is walked and renamed; the files the listing lacks are to
\* be uploaded, in walk order.
upload_local_cache ==
    /\ pc = "upload"
    /\ \E order \in SetToSeqs(cache \cup temp) :
          LET w == WalkRename(order, cache \cup temp, <<>>)
          IN  /\ cache' = w.files
              /\ pending' = SelectSeq(w.local, LAMBDA f : f \notin listing)
    /\ pc' = "put"
    /\ UNCHANGED <<artifacts, temp, bucket, listing, cv, next, runs,
                   crashes, last>>

\* Lines 121-130, one file per step: open and put_object.  A listed name
\* that a later rename replaced is gone, and open raises.
upload_file ==
    /\ pc = "put" /\ pending # <<>>
    /\ IF Head(pending) \in cache
       THEN /\ bucket' = bucket \cup {Head(pending)}
            /\ pending' = Tail(pending)
            /\ UNCHANGED <<pc, last>>
       ELSE /\ pc' = "idle" /\ last' = "crashed"
            /\ pending' = <<>>
            /\ UNCHANGED bucket
    /\ UNCHANGED <<artifacts, temp, cache, listing, cv, next, runs, crashes>>

\* Line 150: the job ends by removing TEMP_DIR.
Cleanup ==
    /\ pc = "put" /\ pending = <<>>
    /\ temp' = {}
    /\ pc' = "idle" /\ last' = "ok"
    /\ UNCHANGED <<artifacts, cache, bucket, listing, cv, pending, next,
                   runs, crashes>>

\* The job fails between two steps; files stay, its locals are lost.
Crash ==
    /\ pc # "idle" /\ crashes < MaxCrashes
    /\ crashes' = crashes + 1
    /\ pc' = "idle" /\ last' = "crashed"
    /\ pending' = <<>>
    /\ UNCHANGED <<artifacts, temp, cache, bucket, listing, cv, next, runs>>

Next ==
    \/ StartRun \/ copy_artifacts_to_local_cache \/ sync_local_cache
    \/ upload_local_cache \/ upload_file \/ Cleanup \/ Crash

Spec == Init /\ [][Next]_vars

-----------------------------------------------------------------------------
(* Properties                                                              *)

\* With RELEASE_CANDIDATE set, every build CI handed over is published
\* only under its "-rc<N>" name, once suffixed: upload_local_cache's
\* rename (lines 114-117) is what marks a build as a candidate, across
\* failed jobs and reruns.
RcPublishedAsCandidate ==
    \A f \in bucket :
        f.v \in {Builds[i] : i \in 1..(next - 1)} =>
            f.sfx = IF ReleaseCandidate THEN <<RcVersion>> ELSE <<>>
=============================================================================
