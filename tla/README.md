# TLA+ models of fcast's sender extension and deploy scripts

This directory holds TLA+ models of the code under `src/` and the TLC runs that
check them. The repository has two halves:

* `src/clients/nautilus/fcast_nautilus.py` is a Nautilus context-menu extension.
  It casts a local file to an FCast receiver. It spawns a one-file HTTP server in
  a detached process, then sends the receiver a length-prefixed JSON "Play"
  command that holds the server's URL.
* `src/receivers/electron/scripts/deploy/{deploy.py,util.py}` and the older
  `src/receivers/electron/scripts/deploy.py` are CI scripts. They sync receiver
  build artifacts with an S3 (R2) bucket and a local cache, and they maintain
  the release manifest `releases_v1.json`.

## 1. Inventory

### Components, their state and operations

| Component | Source | State | Operations |
|---|---|---|---|
| MediaServer | `fcast_nautilus.py` 22-110 | listening socket and backlog, the file (re-stat'ed per request), per request: range, bytes sent, open handle | `run_http_server` (bind, `serve_forever`), `do_GET`/`do_HEAD` → `send_file`, `parse_range_header`, `copy_file_range` |
| Cast orchestration | `fcast_nautilus.py` 112-275 | `selected_file_path`, GLib timers, spawned server processes, ports | `get_file_items`, `cast_to_host`, `start_web_server`, `find_free_port`, `get_local_ip_address` (with its dialog) |
| CastNotifier / framing | `fcast_nautilus.py` 277-302 | none (one TCP connection per Play) | `notify_fcast_server`: JSON body, 4-byte little-endian length, opcode 1 |
| Host list | `fcast_nautilus.py` 144-194 | `~/.fcast_hosts.json` (JSON list of `"host:port"`) | `load_hosts`, `save_host`, `add_host`, `on_add_host_response` |
| Local-IP selection | `fcast_nautilus.py` 213-248 | interfaces (external) | subnet prefix filter, then 0 / 1 / several matches |
| Deploy pipeline | `deploy/deploy.py` | `/artifacts`, `TEMP_DIR`, `LOCAL_CACHE_DIR`, the bucket, `releases_v1.json` | `ensure_files_exist`, `copy_artifacts_to_local_cache`, `sync_local_cache`, `generate_releases_json`, `upload_local_cache` (`generate_delta_updates` is disabled) |
| S3 client and CDN | `deploy/util.py` 18-80 | bucket listing taken once at start, CDN cache | `get_versions`, `download_file`, `upload_file` (CDN purge, then put) |
| Package/version parsing | `deploy/util.py` 83-186 | none | `PackageFormat`, `compare_versions` |
| Legacy deploy | `scripts/deploy.py` | same as the deploy pipeline, plus RC renaming | copy, sync, upload with `-rcN` renames |
| Receiver | not in this repository | what it plays | handles Play commands, fetches the URL |

### How they interact

The user right-clicks a file, and Nautilus calls `get_file_items`, which
remembers the file in `selected_file_path`. Activating a host item runs
`cast_to_host` on the GLib main loop. The steps are:

1. Guess the MIME type, and return if there is none.
2. `find_free_port` binds port 0, reads the port and closes the socket.
3. `get_local_ip_address` filters the local IPs by the receiver's /24 prefix. If
   several match, it runs a dialog with `dialog.run()`, which iterates the main
   loop inside the callback.
4. `subprocess.Popen` starts `run_http_server(ip, port, path)` in a new
   interpreter. This happens even when the IP is None.
5. `GLib.timeout_add_seconds(1, callback)` schedules `notify_fcast_server`.

The server process binds whenever its interpreter is up. That can be before or
after the timer fires. The receiver gets the Play command and then fetches the
URL. The server is a single-threaded `http.server.HTTPServer`. It answers one
connection at a time with `send_file`, which streams in 8 KiB chunks. Nothing
stops the server: every cast leaves a process behind.

The deploy scripts run sequentially in CI. They share state through the file
system (the cache persists across CI runs), the bucket and the CDN.

### What is hard

* **Interleaving of processes.** The extension's main loop, each spawned server
  process, other processes that take ports, the receiver and any writer of the
  served file all act independently.
* **Races by timing.** The 1 s timer races the server's bind. The port that
  `find_free_port` releases can be taken before the server binds it.
* **Nested main loops.** Timer callbacks and further casts can run inside
  `dialog.run()`. A dialog opened there must return before the one below it.
* **Partial failure.** A file can be unlinked or truncated between the stat,
  the open and the reads. A client can hang up mid-stream. The receiver can be
  unreachable.
* **Head-of-line blocking.** A client that stops reading blocks the only server
  thread.
* **Deploy.** A crash between steps can leave the CI cache and the bucket
  inconsistent. Upload order and the purge-then-put order of the CDN matter.
  Versions are compared as strings.

### Properties that make each component correct

* **MediaServer.** A complete response carries exactly the requested bytes and
  its Content-Length. No body ever exceeds its Content-Length. A response has one
  status line. Every queued connection is eventually taken up. The server
  implements the spec's response contract (`FileResponse`).
* **Cast orchestration.**
  * The receiver is never told a URL that nobody serves, or no URL at all.
  * The receiver ends on the latest cast.
* **Framing.** The decoded frame gives back the container and URL. The length
  field is the JSON byte length plus 1. (`FrameRoundTrip`)
* **Host list.** It has no duplicates, every saved entry can be cast, and a
  malformed file is not silently overwritten.
* **IP selection.** The chosen IP is on the receiver's /24.
* **Deploy.**
  * The manifest's `currentVersion` is the highest stable version.
  * Every URL in the uploaded manifest names an object in the bucket.
  * After an upload, the CDN does not keep serving the old object.
  * The local cache keeps only the retained versions. The code does not do
    this: `sync_local_cache` purges the versions beyond
    `CACHE_VERSION_AMOUNT` and then downloads every object in the bucket
    listing again. `Deploy` models this, and it is listed as a hazard.

## 2. Modules

| Module | Models | Notes |
|---|---|---|
| `FileResponse` | the spec's promise for one served file (spec 4.1, 8) | abstract: each request is answered atomically with the exact bytes |
| `MediaServer` | `run_http_server`, `CustomHTTPRequestHandler` (22-110) | detailed: single server thread, chunked copy, clients that pause or hang up, a writer that truncates, appends or unlinks; instantiates `FileResponse` as a refinement |
| `MC_MediaServer` | constants for TLC | a 3-byte file `abc`, chunk 2, backlog 2, request sets |
| `CastSession` | `get_file_items`, `cast_to_host`, `start_web_server`, `find_free_port`, the IP dialog, the timer, `notify_fcast_server`, the server's bind; the receiver and other processes as environment | a fetch yields the file of whichever server owns the address; what that server sends is `MediaServer`'s business |
| `MC_CastSession` | constants for TLC | IP choices {none, one, two} |
| `Deploy` | `deploy/deploy.py` (the CI job, step by step) with `util.py`'s `S3Client` listing, `get_versions`, `download_file`/`upload_file` and `compare_versions` | successive jobs on a runner whose deploy directory persists; a job may fail between any two steps |
| `MC_Deploy` | constants for TLC | versions as digit strings (`V(1, 10, 0)`), build sequences |
| `LegacyDeploy` | `scripts/deploy.py` (the first deploy job, step by step) | no manifest. It adds the listing taken when the script loads and the `-rcN` rename in `os.walk` order. A job may fail between any two steps |
| `MC_LegacyDeploy` | constants for TLC | one release candidate after 1.8.0 |

### How the code maps to the models

`MediaServer`:

* Its state is the file inode (`data`, `linked`), the connections with their
  requests and client behaviour, the kernel backlog, what each client received
  (`out`), and the handler thread `h` with `send_file`'s locals.
* `send_file` is split into steps at the points where another actor can make a
  difference:
  * `SendFileHeaders` covers the stat, the parse and the headers (36-59).
  * `SendFileOpen` covers the open and seek (61-64). The file may be gone by
    then.
  * `CopyFileRange` is one iteration of the copy loop (86-91). Its write blocks
    while the client does not read.
* Every exception path ends in `SendError` followed by `CloseConn`.

`CastSession`:

* Its state is `selected_file_path`, the open menu, one record per cast (file,
  port, IP, server state, phase), the stack of open IP dialogs, the FIFO of
  pending timers, the bound sockets, the receiver's inbox and its last fetch.
* The callback runs in one step, `TimerFires`, which calls
  `notify_fcast_server(i)`.
* `run_http_server(i)` is the spawned process binding its address.
* The Play frame is built as `notify_fcast_server` builds it (281-297).
  `JsonDumps` is `json.dumps` of `{container, url}`: insertion order, `", "`
  and `": "` separators, and `None` as `null`. `LittleEndian4` is
  `to_bytes(4, 'little')`. `PlayPacket` is length, then opcode 1, then the
  JSON. A byte string is a sequence. The header bytes are numbers. Each constant
  piece of JSON text, the MIME type, an address and a port is one symbol, so
  lengths count symbols.
* The receiver is not in this repository. It is modelled from spec.md sections
  4.2 and 6:
  * `DecodePlay` reads the little-endian length and then exactly that many
    bytes, the opcode and the payload.
  * `ParsePlay` parses the payload as JSON.
  * `ReceiverPlay` fetches the URL read from the frame, not one taken from the
    sender's state. A frame it cannot read is `"malformed"`.

`Deploy`:

* Its state is what persists on the runner and in the bucket: `/artifacts`,
  `TEMP_DIR`, the cache's artifacts and its `releases_v1.json`, and the bucket's
  artifacts and manifest. It also has the running job's step (`pc`) and
  `artifact_version` (`av`), the files still to upload, and counters for builds,
  jobs and failures.
* A build is one zip, written as the record PackageFormat parses from its path:
  version, channel and channel version. A version is a sequence of parts, and a
  part is a sequence of digit characters. `compare_versions` compares the parts
  as Python compares strings (`StrLess`). The properties use numeric order
  (`VersionBelow`) as the reference.
* A file also has `d`, the version directory it sits under. PackageFormat
  reads the version from the file's name (`BuildOf`), while `get_versions`
  and the purge look at the directory. `copy_artifacts_to_local_cache` copies
  all of `/artifacts` under `TEMP_DIR/<version of the first zip listed>`
  (lines 45-49, `FileOf`), so a build left behind by a failed job can sit in
  another build's directory.
* Each function the script's main block calls is one action. `upload_file` is
  one action per file: the manifest first, because `os.walk` lists
  `electron/releases_v1.json` before the version directories. After that come
  the artifacts, in any order.
* `generate_releases_json` has three outcomes:
  * skip, for an older release (line 173-176),
  * `KeyError`, for a new channel (line 174), which ends the job,
  * regenerate: every zip left in `TEMP_DIR` is filed under its own channel. When
    a channel has several zips, any of them can end up as its entry, because
    `os.walk` order is directory order.
* `Crash` fails the job between two steps. Files stay on disk, and the job's
  locals are lost.

`LegacyDeploy`:

* Its state is `/artifacts`, `TEMP_DIR`, the cache, the bucket, the listing
  `bucket_files` taken when the script loads (lines 52-56), `current_version`
  (`cv`), and the upload loop's remaining `local_files`.
* A file is `[d, v, sfx]`: the version directory it is under, the version in
  its name, and the `-rcN` suffixes its name has gained.
* `upload_local_cache` walks the cache in any order (`SetToSeqs`). `WalkRename`
  renames each file of the current version in place. A rename onto an existing
  name replaces that file, so a listed name can be gone when `upload_file`
  opens it. Then the job raises.
* `compare_versions` and `bucket_versions` are the script's own copies, with
  string comparison of the parts.

## 3. Runs

| Run | Expect | Checks | Shows |
|---|---|---|---|
| `ms_static` | pass | `TypeOK`, `CompleteResponseExact`, `ImplementsFileResponse` | With an unchanging file, every response that a staying client receives is exactly the spec's response, even with chunking, pauses, hang-ups and a full backlog |
| `ms_writer` | pass | `NoOverlongBody`, `QueuedEventuallyServed` | While the file is truncated, extended or unlinked, no body exceeds its Content-Length and the server never hangs. This relies on the EOF break and on clients that read again |
| `ms_past_eof` | violation | `RangeBeyondEofRejected` | `bytes=3-` on a 3-byte file is answered 206 with `Content-Range: bytes 3-2/3` and `Content-Length: 0`, and the copy loop never reads; spec 8 says such a range is rejected |
| `ms_unlink` | violation | `SingleStatusLine` | An unlink between the stat and the open puts a 500 status line after the 200/206 headers |
| `ms_paused` | violation | `QueuedEventuallyServed` | A paused player blocks every other connection forever, against spec 4.1 and 5 |
| `cast_pass` | pass | `TypeOK`, `FrameRoundTrip` | Every frame sent decodes, as spec 6 lays it out, to its cast's container and URL (spec 8's round trip), for every IP choice, nested dialogs and port reuse included |
| `cast_timer_race` | violation | `PlayedUrlIsServed` | The 1 s timer can fire before the spawned server has bound, so the receiver does not get the cast's file. The instance (two casts of two files, one other process) also reaches another process taking the port and a second cast handed the first's port; TLC reports the shortest trace, the refused connection |
| `cast_nested_dialogs` | violation | `LastCastPlays` | A cast started inside another cast's IP dialog is sent first, so the receiver ends on the older cast |
| `deploy_pass` | pass | `TypeOK`, `NoArtifactLost`, `DeployedManifestResolves`, `PublishedVersionNeverRegresses` | Three builds are deployed: a first beta (a channel the manifest lacks, so `KeyError`), a stable release, and an older-line hotfix. Up to two jobs fail anywhere, and jobs are rerun. No build is lost, a completed job leaves a manifest whose entries are in the bucket, and `currentVersion` never goes down |
| `deploy_minor_ten` | violation | `CurrentVersionIsHighest` | 1.10.0 after 1.9.0 is taken for an older release, so `currentVersion` stays 1.9.0 |
| `legacy_rc_rerun` | violation | `RcPublishedAsCandidate` | With `RELEASE_CANDIDATE` set and the candidate built twice, a job that fails after moving the build into `TEMP_DIR` is rerun with `current_version` None, and the candidate is uploaded without its `-rc1` suffix, as a release |
| `deploy_rerun` | violation | `StableUrlIsCurrent` | With two stable builds, a job fails after moving the build to `TEMP_DIR`, and the rerun publishes the new build as the stable download under the old `currentVersion` |

### Bounds and why they are enough

**MediaServer.**

* The file has 3 distinct bytes and the chunk size is 2. A whole-file GET then
  takes two reads, one of them short. Any offset error changes the bytes.
* There are 3 connections (2 under a writer) and the backlog is 2. Connections
  queue behind a busy handler, and one is refused when the backlog is full.
* The requests are:
  * a whole-file GET and a HEAD,
  * an open seek `bytes=1-` and a closed `bytes=0-1`,
  * a header `parse_range_header` cannot take.
* The writer can truncate down to empty, append up to 3 bytes, or unlink the
  file. Every position of a truncation relative to the copy loop is reached.
  Under the writer, the requests are a whole-file GET and `bytes=1-`, whose end
  is fixed by the stat and can then be outrun by a truncation.

**CastSession.**

* `cast_pass` and `cast_nested_dialogs`: two casts, two ports, one other
  process and IP choices {none, one, two}. These give a second cast inside a
  dialog, both ports in use, and a server that binds before or after its timer.
* `cast_timer_race`: two casts of two different files, one address, and one
  other process. A second cast can be handed the first's port before that
  server binds, and the other process can take a port, so every way the
  receiver can fetch the wrong thing is reachable.

**Deploy.**

* Two channels. Two or three builds (`deploy_rerun`: two stable ones, so that
  two zips of one channel can be left in `TEMP_DIR`). Up to six jobs and two failures, and
  `CACHE_VERSION_AMOUNT` 1, so `sync_local_cache` purges.
* A failure can fall on every step of every job, including between two uploads.
  A failed job can be followed by a new build or by a rerun.
* The hotfix 1.8.1 after 1.9.0 exercises line 173. The first beta exercises line
  174. Versions with a two-digit part are the only ones where string order and
  numeric order differ, so `deploy_minor_ten` uses 1.10.0.

**LegacyDeploy.**

* One release candidate that CI builds twice, three jobs and one failure.
  The failure can fall between any two steps, so the rerun after a failed
  copy is reached, and so is a rebuild that finds the earlier `-rc1` upload
  in the cache and renames it again.

### Fairness and why the code justifies it

**MediaServer.**

* `serve_forever` runs whenever there is work, so the server is weakly fair.
* A write blocked on a full socket proceeds once the client reads, so
  `CopyFileRange` is strongly fair.
* Clients are not fair in `Spec`, because a paused player may stay paused.
  `FairClientSpec` adds weak fairness on `Resume`. It is used only by the
  passing runs, as an assumption about the receiver.

**CastSession.**

* The GLib main loop dispatches due timers, including inside `dialog.run()`, so
  `TimerFires` is weakly fair.
* Spawned interpreters eventually start, so `run_http_server(i)` is weakly fair.
* The receiver handles its inbox, so `ReceiverPlay` is weakly fair.
* The user is never fair: a dialog may stay open forever.
* The fairness is part of `Spec`, but no CastSession run checks a liveness
  property: once a cast's notify is pending, its being sent follows from the
  timer's fairness alone and says nothing about the code.

**Deploy.**

* No fairness, in `LegacyDeploy` either. CI starts jobs when someone pushes or reruns, and nothing in the
  code retries. The deploy properties are safety properties.

## 4. Not modelled (yet), and why

* **Content type, Content-Disposition, logging.** They are layout. No property
  is about them.
* **Receiver-side playback.** The receiver is not in this repository. It appears
  only as the environment that decodes each Play frame (from the spec's frame
  layout) and fetches the URL once.
* **Nautilus menu construction from other windows.** Nautilus may call
  `get_file_items` again while an older menu is open. Then `selected_file_path`
  no longer matches the menu. This is listed as a hazard. The model has
  `get_file_items` always build the open menu, because when Nautilus calls it is
  not fixed by this code.
* **Two casts that are handed the same ephemeral port.** This is possible while
  the first server has not bound yet. The model allows it: `cast_to_host` picks
  any port nobody holds. `PlayedUrlIsServed` rejects it, and
  `cast_timer_race`'s instance reaches it, but TLC reports the shorter
  refused-connection trace. No run is spent on showing the reuse itself.
* **The listing's 1000-key page.** `list_objects_v2` is not paginated. A
  bucket of more than 1000 objects is beyond any instance TLC can enumerate.
  The model's listing is the whole bucket, and this is listed as a hazard.
* **The CDN.** `upload_file`'s Cloudflare purge before `put_object` can leave the
  CDN serving the old `releases_v1.json`. Checking this needs a run of its own,
  and all 12 run slots are taken. The purge is listed as a hazard.
* **PackageFormat's parse, hashes, URLs and `generate_update_tarball`.** A build
  is the record PackageFormat produces. Delta updates are disabled in the code
  (line 250).
* **A passing run of the legacy `scripts/deploy.py`.** `LegacyDeploy` models
  every step, but it is checked only by `legacy_rc_rerun`. The script is
  superseded by `deploy/deploy.py`, whose passing run states the same
  build-keeping properties. The run slot went to the RC bug rather than to
  restating those properties.
* **A run of its own for a Play with no URL.** No run slot is left for it. With no address on the subnet, the code still
  sends `{"url": null}` (line 269). `PlayedUrlIsServed` rejects this (the
  receiver's `"nourl"`), and `cast_pass`'s instance reaches it. It is the case a
  unit test with mocked interfaces reaches most easily.
* **Host list and the subnet filter.** spec.md section 6 puts the saved-host
  file and IP selection outside the core. They are sequential callbacks on the
  main loop. What can go wrong there shows up only as violations:
  * a host with a colon breaks `split(":")`,
  * a non-list file is overwritten,
  * `192.168.1` is a prefix of `192.168.10.5`.

  Each violation would need a run of its own, and none is left. They are listed
  as hazards. The Play frame's only numeric edge is a JSON body of 4 GiB
  overflowing the length field, which no MIME type and URL reach.

## 5. Plan

The runs are capped at 12, and all 12 are used.

1. **Done:** `FileResponse`, `MediaServer`, `CastSession` (with the Play frame
   and the receiver's reading of it), `Deploy` and `LegacyDeploy`, with the
   runs above.
2. **Next:** freeing a run slot is worth it only for a question more important
   than an existing one. The candidates, in order:
   * the subnet prefix filter of `get_local_ip_address`, as a string operator
     over octets in `CastSession`;
   * the CDN purge-then-put race in `Deploy`.
3. **Without a new run:**
   * larger instances of `CastSession`. Three casts do not finish within the
     five-minute limit;
   * `Deploy` with a second operating system or architecture, to see `os.walk`
     order across entries.
