# A formal model of the RedSeat server

RedSeat is a self-hosted media server written in Rust (axum and tokio, about
44,000 lines): it keeps libraries of photos, videos and books, encrypts them on
request, converts and streams them, follows live channels, downloads through
plugins, recognises faces and backs everything up. This directory holds TLA+
modules translated from its source, the TLC runs that check them, and proofs
checked by TLAPS.

    tlc -workers 2 -config Jobs.cfg MCJobs.tla     # model-check
    tlapm Jobs_proofs.tla                          # check the proofs

`PROJECT.json` is the index: the components, the runs with their properties,
for every definition the lines of the source it stands for, for every property
a mutant (a plausible mistake in the code that breaks it), the hazards, the
disagreements found, and the theorems.

Contents: [1 The system](#1-the-system) · [2 The modules](#2-the-modules) ·
[3 The runs](#3-the-runs) · [4 The proofs](#4-the-proofs) ·
[5 What is not modelled](#5-what-is-not-modelled) · [6 The plan](#6-the-plan)

---

## 1 The system

One process. `ModelController` (`src/model/mod.rs`) is the hub every route holds
an `Arc` of: it owns the stores, the plugin manager, the scheduler, a broadcast
channel for events, and the maps and queues of the long-lived activities, each
behind a tokio `RwLock` or `Mutex`. Three kinds of actors use it:

- **Handlers**: the future of one HTTP request. When its client hangs up the
  future is dropped at whichever `.await` it is at; nothing after it runs.
- **Spawned tasks**: conversion workers, FFmpeg supervisors, the tasks of the
  scheduler, cleanup loops. They end by returning, by a panic (which ends only
  that task) or with the process.
- **Threads of SQLite**: one connection per library and one for the server,
  each behind a thread that executes calls in order. A call is atomic; nothing
  spans two calls, so what a handler read may be stale when it writes.

All state but the databases and the files is in memory and is lost when the
process stops.

| Component | Modules | State | Talks to | What is hard |
|---|---|---|---|---|
| **Video conversion queue** `medias.rs` | ConvertQueue, ConvertService | `convert_queue`, `convert_current` (a flag inside an `RwLock`), temporary files | FFmpeg, storage, library database | the flag decides whether a worker is spawned; a panic leaves it set; two outputs of one name |
| **Task scheduler** `tools/scheduler/` | SchedulerTasks, Scheduler | a `HashSet` of items, the set `running` | all background work | items merge by kind, parameters and second; panics; all in memory |
| **Live channels** `channels.rs`, `hls_session.rs` | ChannelStreams | `active_streams`, `hls_sessions`, tokens, FFmpeg | FFmpeg, upstream | a slot passes through four owners; eviction drops the lock; a hang-up anywhere |
| **Media HLS** `media_hls_session.rs` | MediaHls | `media_hls_sessions`, output directories | FFmpeg, storage | registered after FFmpeg was spawned; sessions removed by key |
| **Library password** `libraries.rs`, `encrypt_library.rs` | LibraryEncryption | the row, the cache of libraries, the files | scheduler, storage | read, update, re-read and cache are four steps; files have no mark of what was done |
| **Encrypted files** `encryption.rs`, `path_provider.rs` | EncryptedFormat, LibraryFiles | header, blocks, a key stream, ranges | every file | a held-back block, unsigned counts, offsets shifted by a nonce |
| **Backups** `backup.rs`, `model/backups.rs` | MediaBackup, BackupCopies | `Backups_Files`, `Backups_Errors`, the status in memory, the copies | plugin providers, two databases | incremental by date; overlapping runs; a retention that removes by old rows |
| **Request processing** `model/plugins/mod.rs` | RequestProcessing | table `request_processing` | the plugin's service, downloads | the row is written from what was seen before; downloads are long |
| **Plugin manager** `plugins/` | Plugins | the list of loaded plugins behind a lock, `wasm` files, rows | plugins (external) | an index used under a later guard; a guard held while asking for another |
| **Uploads and duplicates** `medias.rs` | MediaUploads | rows and files of medias | storage, scheduler | the check for a duplicate and the insertion are separated by awaits |
| **Downloads** `medias.rs` | Downloads | rows and files of medias | plugins, storage | a list that stops in the middle; what counts as the same page |
| **Conversions by plugins, merges, splits** `medias.rs` | Conversions | a polling loop, segments in the cache | plugins, FFmpeg | which failures count as attempts; names given by clients |
| **Library lifecycle** `libraries.rs`, `store.rs` | MediaUploads, Accounts, LibraryStores | rows, stores, `deleting_libraries` | everything per library | uploads and removals do not look at the mark; migrations are not transactions |
| **Catalogue** `episodes.rs`, `tags.rs`, `movies.rs`, `series.rs`, `books.rs` | Episodes, Tags, Works | rows and mappings, triggers | Trakt, plugins | changes of several rows and calls: refreshes, paths of tags, enrichment |
| **Medias: edits, processing, listing** `medias.rs` | MediaEdits, MediaPages | rows of medias, their tags and people | people and tags, face recognition, predictions | read, look up and write are separate calls without foreign keys; pages of a table that is being edited |
| **Faces and people** `people.rs`, `face_recognition.rs` | Faces | detected faces, people, marks | ONNX models, scheduler | labels of clusters shared by clusterings, edited meanwhile |
| **Progress, views, ratings** `users.rs` | ViewProgress | four tables, mappings of users | libraries | several users written one after the other |
| **Channel lists** `channels.rs`, `m3u_parser.rs` | ChannelLists | channels, variants, their tags | scheduler | overlapping imports; what an import may remove |
| **Images** `mod.rs`, `entity_images.rs` | Images | files of images and of their sizes | storage | remove-then-write shared without a lock |
| **Users, rights, invitations** `users.rs`, `libraries.rs` | Accounts | users, rights, invitations | libraries | a code read and removed in different calls; rights of libraries that are gone |
| **Referential integrity** `051 - CASCADE DELETE.sql` | Episodes, Tags, Works, Faces, ChannelLists | mapping rows | library database | few foreign keys: triggers keep it consistent |
| **Server-sent events** `sse.rs` | – | a broadcast channel of 1024 | every operation | slow receivers lag |
| **Configuration, certificate, daemon** | LibraryStores (the start) | files | – | – |

What makes each component correct:

- *Conversion queue*: an accepted conversion is done once, in order, one at a
  time, and always has a worker; the output imported is the one just written.
- *Scheduler*: a periodic task neither overlaps itself nor disappears, its
  period passes between two executions; a request is served by a task that
  starts after it.
- *Channels*: each slot has an owner that will give it back; each FFmpeg can be
  stopped; a cancelled session ends. *Lists*: an import leaves what its playlist
  says, and what users did.
- *Media HLS*: a session a viewer finds has its segments; processes and
  directories do not outlive their session.
- *Library password*: every media can be read with the stored password; no crash
  loses a file. *Encrypted files*: what is read is what was written, and what is
  served is what the reply announces.
- *Backups*: the next run finds whatever this one did not copy; the copies of a
  deleted media go; there is a copy of the databases and it can be read back.
- *Request processing*: a finished request is downloaded, and once; a removed
  one does not come back; a paused one settles.
- *Plugins*: what is in memory is what is on the disk; the lock is always given back.
- *Uploads, downloads, conversions*: one media per content; a media keeps its own
  file; a list is stored as it was sent; a merge is made of its own parts.
- *Lifecycle*: a library removed with its content leaves none behind; one that is
  served has its whole schema.
- *Catalogue*: rows refer to rows that exist, identifiers are unique, paths agree
  with parents, and what an editor wrote stays. *Faces*: who is in a media is
  what its faces say; a person is made of one cluster.
- *Medias*: an edit that was answered is there; a client that follows the page keys
  is given every media once.
- *Progress*: linked users read the same. *Images*: the last update is shown.
- *Accounts*: an invitation is for one; users can be listed.

`PROJECT.json` lists forty **hazards**: the places, each at its line, where this
code could go wrong in a way a test would hardly reach, and the properties that
would show it. Every one of them has a property.

---

## 2 The modules

Conventions. An action is what the code does between two awaits (or two locks,
or two calls of a database), with all it writes; its guard comes from the
code's conditions. A hang-up is an action of its own, as is a stop of the
process where something is persisted. A request, the task or the FFmpeg it
spawns and the session it creates share one name, so that "the supervisor of
r" needs no map. Payloads are model values; what a call to the outside returns
is any of its outcomes. Variables named like `raced`, `cut` or `late` are history:
they remember which requests overlapped or stopped where, the properties name
causes by them, and no guard reads them. Definitions under a comment
`\* Mutant:` are plausible mistakes: none is part of a specification.

`MC` modules give constants their values. Components that share no state in the
program are checked in one run as a *sum*: a variable `subject`, chosen at the
beginning, says which component a behaviour is of, and the others stay at rest.
A sum has the states of its parts added, not multiplied, and every property
ranges over the behaviours of its own part.

### ConvertQueue, ConvertService

`convert` awaits the read lock of `convert_current` (*Submit*, *Reject*,
*Disconnect*), pushes and, if the flag reads FALSE, spawns a worker (*Enqueue*,
one step because the read lock is held throughout). The worker takes the write
lock and sets the flag (*StartWorker*), pops (*PopElement*), and resets the flag
once the queue is empty (*FinishWorker*). `convert_element` is *Prepare*,
*Transcode*, *Import*, *CopyRelations*, with the error exit of each and
*PreparePanics* for the `todo!()` of a `File` overlay: the guard is dropped with
the task, the flag it guarded stays TRUE. `temp` holds the files
`.cache/<name>.<format>`, so that two conversions of one name share a file.

**ConvertService** is what callers are promised: accepted requests are served
one at a time, in order, once. `ImplementsService` maps the detailed module to
it (waiting ← the queue, serving ← what the holder of the lock converts, ended ←
what has an outcome).

### SchedulerTasks, Scheduler

SchedulerTasks declares the tasks, their periods and the calls that ask for
them. An item is a task and the second of its creation, because the code's
`HashSet` merges items that agree in them. *AddPeriodic* (start-up), *Add* (a
request), *Tick* (under the queue's lock: takes what is due and spawns it),
*Start* (`to_task` and the entry in `running`), *End* (with or without an error),
*Readd* (periodic tasks), *Panic* (nothing after `execute` runs), *Restart*
(everything was in memory). `tasks` counts the spawned tasks that hold an item,
by stage: a one-off item can be spawned twice.

### ChannelStreams, ChannelLists

`acquire_stream_slot` is *AcquireSlot*, or *ChooseVictim* → *StopVictim* →
*SwapSlot* (the lock is dropped between), or *Refuse*. Then *ResolveUrl*; for
HLS *SpawnSupervisor* and, later, *RegisterSession*; for the proxy
*ConnectUpstream*, *DropBody* and *ReleaseGuard* (the task the `StreamGuard`
spawns). *ResolveFails* and *CreateOrConnectFails* are the error exits, with or
without a release as in the code; *HangUp* drops the handler. The supervisor is
*SpawnFfmpeg*, *FfmpegExits* (counting rapid restarts), *KillFfmpeg*,
*KillStalled*, *Restart*, *RemoveDir*, *Unregister*, *ReleaseSlot*. The cleanup
loop and the stop route collect keys under the read lock (*CollectStale*,
*CollectChannel*), then *CloseSession* each and *ReleaseClosed* each slot.

**ChannelLists** is the import of a playlist, one action per call of the database:
*Fetch* and *get_all_channel_ids*; for each channel *get_channel_by_tvg_id*, then
*add_channel*, its automatic tags (*AddTag*, *RemoveTag*) and its variants
(*add_channel_variant*, *RefuseVariant*, *remove_channel_variant*); then
*remove_channel* for those the playlist lacks. Users remove channels and tag them
meanwhile. The status of the playlist's reply is not looked at, so that an error
page counts as an empty playlist; overlapping imports add a channel twice (healed
by the next import that meets nobody) and a variant twice (never healed).

### MediaHls

*Join* (fast path) or *Miss*; *SpawnFfmpeg* (directory, FFmpeg and supervisor);
*Register*, or *Duplicate* when the key was taken meanwhile; *StartFails*,
*HangUp*; *TouchSession*, *Stop*. The supervisor: *FfmpegExits* (segments stay
unless cancelled), *KillFfmpeg*, *RemoveDir*, *Unregister* — by key, whoever
holds it. The cleanup loop: *CollectStale*, *StopStale*, *RemoveStale*,
*RemoveStaleDir*.

### LibraryEncryption

The content of a file is the sequence of passwords it was encrypted with, or
`Garbage`; *Decrypt* with another key, or of a file that is not encrypted, is
`Garbage`. `update_library` is *ReadOld* (old password from the cache),
*UpdateRow* (only the columns the request names), *Reread*, *UpdateCache*,
*Schedule*; *HangUp* at any await. The task is *StartTask* (reads the password
from the row), *TakeSnapshot* (lists the medias), and for each *ReadFile* then
*Replace* or *ProcessFails*, then *FinishTask*. Two tasks of one direction share
the temporary file of a local media (*SharesTemp*). An upload is *BeginUpload*
(reads the key), *WriteFile*, *AddRow*, or *LoseUpload*. *Crash* forgets the
queue, the tasks and the handlers and reads the cache afresh.

### EncryptedFormat, LibraryFiles

Two pure algorithms over sizes, with the cuts chosen by nobody.
**EncryptedFormat** is the AES-CBC format of backups: *write_encrypted* and
*finalize_encrypted* (thumbnail and infos padded to blocks), the size that is
announced (`estimated_encrypted_size`), then *write_decrypted*, which holds back a
block, and *finalize_decrypted*. `RestoredWhole` says for which cuts it works.
**LibraryFiles** is the AES-CTR format of a library: *poll_write_header* and
*poll_write* (the nonce, then the key stream by place), *library_file* (the
arithmetic of a range in `medias.rs` and in `path_provider.rs`), *poll_read_nonce*,
*poll_read* and the headers of *into_response*. A byte is right if the place of
the key stream it is XORed with is the one it was stored with; unsigned numbers
wrap as in a release build (`% Wrap`).

### MediaBackup, BackupCopies

Of the library: *AddMedia*, *ModifyMedia*, *EditCreated*, *RemoveMedia* then
*AddDeleted* (or *ForgetDeleted*, a hang-up between the two). A media's date is
the latest of `added`, `modified` and `created`, as in the query. `shadowed` is
history (*Remember*, part of every step): the medias of the library that have no copy
and that a copy of another media once hid from the next runs; one can stay passed
over after the copy that hid it is gone. Of a run, in the code's order: *StartRun* (skipped if the status says InProgress),
*ReadInfos* (the newest copy's date), *ListMedias*, *ListDeleted*,
*ReadBackedUp*, *RemoveCopies*, then oldest first *SkipMedia* or *BeginCopy* and
*FinishCopy* or *FailCopy*, then *FinishRun*. *Abort* is any of the `?`, *Crash*
the end of the process.

**BackupCopies** is what a run does at its end, and a run of the server from the
beginning: the copies of a database, or of `config.json`, which may also go back
to an earlier content. *StartRun*, *SetStatus*, *HashItem*, then *KeepIdentical*
(a copy of that hash exists: the latest is kept, wherever it is and however encrypted) or
*ReadItem* (the item is read again: it may be newer, or torn by a write),
*ChooseName* (the first free of `db`, `db-2`, … in the clear, an identifier of its
own when encrypted), *CreateFile*, *WriteFile*, *AddRow*; then the retention,
*ListOld* (older than a week, not this run's) with *RemoveFile*, *RemoveFails*,
*RemoveRow* or *KeepRow* for each; *FinishItem*, *FinishRun*. Beside it
*AddBackup*, *UpdateBackup* (another place, another password), *RemoveBackup*
(refused while it has rows), *Change*, *WeekPasses*, *Abort* and *Crash*. A copy is
read back from where the backup is now and with the password it has now.

### RequestProcessing

The handlers call the plugin and then write the row: *Ask*/*InsertRow*,
*PauseService*/*WritePaused*, *RemoveAtService*/*DeleteRow*, *HandlerStops*
between. The poll lists the active rows (*StartPoll*), and for each *NoPlugin*,
*NoAnswer*, or *Progress* (what it saw) then *Record* (the UPDATE, which does
nothing to a row that is gone); a finished request is downloaded (*Download*,
*DownloadFails*) and its row removed (*RemoveRow*). *ServiceEnds* is the
plugin's side. *Crash* loses handlers and poll, not rows. That one poll runs at
a time is what `Scheduler`'s `OnePlace` says of a periodic task.

### Plugins

The plugin manager behind one fair read-write lock: `queue` holds who waits for it,
`readers` who holds it for reading; each step that waits is one action when it
reaches the head. *ReloadPlugins* is *List*, *Clear*, *AppendAll*, of which the last
two take the lock each anew; *Install*, *Upload*, *UploadRepo*, *AddPlugin*,
*ReloadPlugin*, *RefreshRepo*, *RemovePlugin*, *RemoveWasm* go through *Enrich*,
*Position*, *SwapRemove*, *Build*, *Push*, *Find*, *Insert*. *Call* stands for every
kind of call of a plugin, which holds the lock for reading while the plugin works;
a provider whose plugin is not loaded asks for the lock again under the guard it
has (*Reread*). *HangUp* drops a call where it waits. The reload of the start is a
task like the others.

### Images

Files are told by the version of the image they hold. An update is *RemoveOriginal*,
*RemoveSizes*, *Open* (the name is looked for, a taken one gives another), *Write*;
a request is *Ask*, *has_library_image*, *Refresh* (the kinds that fetch an image
that is missing), *library_image* (which removes an empty file), *Resize* and
*ClearSize*; an image of something outside of the library is
*serve_cached_entity_image*, *Create*, *Fetch*. `UpdateShown` says which image is
there when all is quiet.

### MediaUploads

A library whose root is a directory. A path is a name and the number of its copy;
`disk` gives for each path the uploads whose bytes are in the file, so that two
uploads that opened one path, or one whose file was taken away while it wrote, are
seen as such. `add_library_file` is *Choose* (the loop over `exists()`), *Open*
(`File::create`, which truncates), *Write*, *Hash* (a failure is ignored),
*CheckDuplicate*, then *RemoveDuplicate* or *AddRow* and *SetInfos* (the md5 is
written by an UPDATE after the INSERT); *UploadFails* ends it anywhere and takes
nothing back. `remove_library_file` is *ReadSource*, *RemoveFile* (whose error is
ignored), *RemoveRow*; `clean_library` is *ListSources*, *Walk*, *Trash*;
`request_remove_library` is *RequestRemoval*, *ListTracked*, *RemoveTracked*,
*LibraryRemovalFails*, then *DropLibrary*, *CloseStore*, *RemoveDatabase*. In a
library with a password a file is named by a fresh id and its hash is that of
the encrypted bytes: that is an instance in which no two uploads have the same
name or bytes.

### Downloads

`download_library_url` for a list of requests, each a media of its own or all of
them the pages of one: *check_origin_duplicate* (by page, and by file name where the
request has one), *into_reader* with its five attempts at an answer 429, the check
by hash, the row and its infos. The kind of library decides: a virtual one stores
only addresses and checks nothing; in one with a password no two hashes are alike.
The first duplicate or failure ends the list, so that a list sent again after its
first file was stored never comes to its second.

### Conversions

What the server makes of medias it has, but for the local conversion: a job of a
plugin (*convert_submit_media*, *Poll*, *Link*, *Read*, *Import*, *Clean*), given up
at one failed poll or a restart, with three attempts at an import that fails, and
endless ones at a reader that cannot be made; `merge_videos` (*Encode* each video
into a segment of the cache named by the id of the request, *run_file*,
*concat_videos*, *CleanSegments*, *Open*, *ImportMerged*), which leaves its segments
where a `?` ends it; `split_media`, whose part of an album is stored in the clear
even in a library with a password. *Stop* is the end of the process.

### Episodes, Tags, Works, Faces

- **Episodes**: a refresh is *ReadIds*, *Fetch* (Trakt), *Clear*, *Add* for each
  episode or *AddConflicts* (the primary key: the `?` ends the refresh), *Reread*,
  *Finish*; *Drop* anywhere. Users add and remove episodes, map medias, and remove
  the serie, whose trigger takes episodes and mappings.
- **Tags**: a tag stores its parent and, as a path, the names of its ancestors.
  *AddTag*, *Rename* and *Move* (both rewrite the paths that EQUAL the path of the
  children, for the `like` has no wildcard), a merge (*Migrate* moves the mappings of
  medias and channels, *RemoveTag* fires the trigger, *MergeAnswers*), a removal by
  path, and the creation of a path of tags, part by part. Callers interleave.
- **Works**: movies, series and books with two identifiers. Adding looks for a work
  of that identifier in one call and inserts in the next, then spawns the task that
  asks the plugins and fills what was missing (*EnrichRead* … *EnrichMovieIds*);
  a book may upsert its serie first. Refreshes, updates, imports; removals with the
  triggers, the removal of a serie's medias before, and the record for followers of
  deletions after (*Record*).
- **Faces**: a face has a media, a look, maybe a person or a cluster; faces and people
  are in two tables that move rows to each other. The task and a request go through
  *MatchFace*, *PlaceFace*, *MarkProcessed*, *LabelCluster* (`cluster_<index>`),
  *AddPerson*, *Promote* (every face with that label), *MarkSingletons*, one call of
  the database each; administrators detect, cluster, assign, unassign, reassign,
  delete, merge and remove. `mapping` is the row that says a person is in a media.

### MediaEdits, MediaPages

- **MediaEdits**: the tags and the people of one media. A request names them by
  identifier or by name (*Edit*), then goes through `update_media`: the media is read
  (*Read*), each name is looked up, under the name and then under the path, and made
  if it is not there (*FindTag*, *MakeTag*, *Recall*), people by name (*FindPeople*),
  everything is written in one call (*Write*) and the media read again for the answer
  (*Reread*). What *Read* saw decides what *Write* leaves out: a tag with the confidence
  1 (`Exact`), a person already there. The processing that follows an upload is
  *Process*, *Existing*, *Recognise*, *Infos* and *Predict*, whose updates use the same
  actions with the confidence of a prediction. Others remove tags, people and the
  media (*RemoveTag*, *RemovePerson*, *RemoveMedia*). `undone` is history.
- **MediaPages**: one client asks for page after page (*NextPage*), with a key of two
  parts (value and identifier) or of one, in each order, with and without `after`,
  while rows are edited, added and removed (*Edit*, *SetValue*, *AddMedia*,
  *RemoveMedia*). The query is translated from the SQL that is built; the client is
  outside the repository and is modelled from what the routes take: its key is made
  of the last media of a full page. `twice`, `moved`, `marks` and `ignored` are history.

### ViewProgress

One item, the tables of who watched it, and the mappings of users of its library.
A call (*add_view_progress*, *add_watched*, *remove_watched*, *add_history*,
*set_media_progress*, *set_media_rating*) works out for whom it writes, then writes
row after row (*write_progress*, …), each in a call of the database; *Fail* is an
error or a hang-up between. *update_library* changes the mappings.

### Accounts, LibraryStores

**Accounts**: *add_library*, the removal of a library in its two forms, invitations
(*AskInvitation*, *add_library_invitation*; *redeem_invitation*, *add_user*,
*get_library_invitation*, *add_library_rights*, *remove_library_invitation*, of which
any may be the last). A request was let in by the user read when it came.
**LibraryStores**: the start opens and migrates the server's database, then that of
each row; addition and import open one more. A script is two statements and then its
version (*RunStatement*, *SetVersion*), none a transaction; *Refuse* ends the start
for all; the paths of tags are filled in a call of their own, only for databases
that came from version 30. The process stops anywhere.

---

## 3 The runs

| Run | Instance | Distinct states | Question |
|---|---|---|---|
| `progress` | 3 conversions, two of one file name, one that panics (3,541); 2 requests for one live channel (117,843); 2 changes of a password, 1 media (12,164) | 133,548 | what must end does: conversions, cancelled sessions, migrations; no wake-up is lost; ConvertQueue implements ConvertService |
| `jobs` | 2 requests to plugins, 1 stop of the process (134,390); a periodic task (period 1) and 2 requests for one other, clock to 3 (10,642) | 145,032 | is a finished request fetched, is every request for a task served, does the periodic task come back? |
| `channels` | 2 requests for one channel (one a TS proxy), 1 for another, 1 slot, 1 restart (2,788,459); 3 imports of a playlist of at most two entries of one channel, 1 edit or failure (1,552,586) | 4,341,045 | does every slot have an owner, when is FFmpeg out of reach, what does an import leave? |
| `mediahls` | 2 starts of one session, 1 of another | 485,232 | do segments, processes and directories live as long as their session? |
| `mediahls_duplicate` | 2 starts of one session | – | violated: see *Disagreements* |
| `storage` | 2 PATCHes, a local and a remote upload, crashes (1,198,939); files of 0 to 33 bytes in pieces of 1 to 64 (5,088); ranges of files of 0 to 41 bytes (41,132); 3 calls for one image (100,658); 2 callers and the start on 2 plugins (273,493); 2 calls of 3 users, 2 mappings (690,067); 2 runs copying one item (559,963) | 2,869,340 | see the list below |
| `encryption_omitted` | 1 PATCH, 1 upload | – | violated: see *Disagreements* |
| `backup` | 2 medias, 2 runs, 2 dates (4,539,963); 5 requests of 3 users about 2 libraries and 2 codes (94,855); the server's and 2 libraries' databases, 5 scripts (19,578) | 4,654,396 | what does a backup pass over, which copies stay? is an invitation for one? what keeps the server from starting? |
| `uploads` | 2 uploads of one name and content, 2 removals, 1 cleaning, the library's removal; 2 downloads of lists of at most two; a plugin's job, 2 merges, 1 split | 5,931,319 | which files can another request take away, which stay without a row? what do downloads and conversions leave? |
| `catalogue` | 3 refreshes of 3 episodes (441,208); 2 requests on 3 tags (246,044); 2 requests on 2 works (156,737); the task and a request on 4 faces and 2 people (1,480,690); 2 edits or processings of a media, 2 tags, 1 removal (428,728); pages of 1 or 2 of 3 medias, 1 edit (440,842) | 3,194,249 | what do the tables say of each other? is an answered edit there, and does a client that pages see all? |
| `tags_descendants` | 2 requests on 3 tags | – | violated: see *Disagreements* |
| `faces_clusters` | the task and a request on 4 faces | – | violated: see *Disagreements* |

**Why the bounds suffice.** The races are between two actors on one object with
a third that interferes; each instance has at least two actors on one object
(one file name, one key, one channel, one media, one image, one tag) and, where
identity matters, one on another object. One slot makes every second channel evict.
With one rapid restart allowed (`MaxRestarts`, 5 in the code) the supervisor
already gives up, and restarts after stable runs. In `backup` two dates allow
"before", "equal" and "while a run is at work", and two runs overlap or follow one
another. A clock to 3 (`MaxClock`) lets the periodic task run twice, and the two requests
fall in one second, in different ones, or beside the task of the first. Three refreshes let the two that met be healed, or not, by a third;
three tags are a tag, its child and its grandchild; four faces are two clusters of
two, and `PersonMedias` is 2 instead of 10, the number of medias a cluster must
span to be a person. The sizes of `EncryptedFormat` and `LibraryFiles` are on both
sides of a block (16) and of the nonce (16), and the pieces cut each of them anywhere;
`Wrap` stands for 2^64 and is larger than any size. The scripts 28 to 32 are two
before and two after version 30, which is treated apart, one of them re-runnable
(`Rerunnable`). In `BackupCopies` the first run may find an old copy (`Init`), two
starts (`MaxStarts`) are two runs or a run and its repetition, and one change of the
backup's settings is allowed. `MaxCrashes`, `MaxCalls`, `MaxImports`, `MaxMappings`,
`MaxRequests`, `MaxTags`, `MaxWorks`, `MaxFaces`, `MaxPeople`, `MaxPlugin`, `MaxFiles`,
`MaxImages`, `MaxSource`, `MaxMadeTags` and `MaxRemovals` bound what is made, asked or
removed. Three medias (`MaxMedias`) in pages of at most two (`MaxLimit`) are a key between equal
values, and a full and a last page; an edit (`MaxEdits`) may fall between any two of
them, in an instant of its own (`MaxClock` 2 there). `CHECK_DEADLOCK FALSE` stands where finitely many
clients come to rest.

**Symmetry.** Model values that are interchangeable are exchanged; in a sum those of
several components are exchanged together, which is sound because a behaviour
uses one of them only. The runs with temporal properties (`progress`, `jobs`,
`mediahls`) have none, but `catalogue`, whose two action properties need no
liveness checking.

**Fairness.** Weak fairness on steps of spawned tasks: tokio polls whatever is
runnable, its `RwLock` is fair, `select!` wakes on a cancelled token, the sleeps
of loops elapse. Handlers get fairness only for steps a hang-up would not prevent
(*Enqueue*: the lock is granted or the client leaves; a handler that registers a
session it has spawned; the PATCH that began). Clients owe nothing. FFmpeg may
run for ever, except in `ConvertQueue`, where `AcceptedEnds` is about
conversions of finite files. `PeriodicComesBack` assumes that tasks end: the code
gives them no limit. Strong fairness appears once: in `RequestProcessing`, for
the answer and the UPDATE of each request, because the code itself takes a
missing answer for "a temporary communication error" (`model/plugins/mod.rs:604`)
and tries again 30 seconds later for as long as it takes.

**What the runs show.** Most of what the code sets out to do, it does, and the
properties say in which cases it does not:

- *Conversions*. The flag of the queue loses no wake-up, because the worker resets
  it under the write lock and callers read it under the read lock. A `File` overlay
  stalls the queue until the process restarts (`StalledByPanic`). A plugin's result
  is thrown away only when the library has it. A merge is made of its own parts
  unless another one with its id runs at the same time.
- *Scheduler*. A periodic task that panics is not added again and stays in
  `running` (`Gone`).
- *Channels*. A slot is lost only by a handler that stopped between its acquisition
  and the guard: a hang-up, or the `?` on the URL of an HLS playlist (`"abandoned"`
  in `NoSlotLeak`). A supervisor is out of reach only after two requests created
  one session or a hang-up inside `create_session`. An import that meets nobody
  leaves what its playlist says whatever those before it left, but for a variant
  that two of them added twice.
- *Password*. A password given once, to a library without one, leaves a media
  unreadable only where an upload raced the change or the migration was interrupted
  or failed. A file is destroyed only if two requests change the password.
- *Encrypted files*. A file comes back from a backup whole but for two cuts of the
  stream: fewer than sixteen bytes behind the header (the decrypter panics), and
  everything in one write (it fails at the end); of an empty file the header is not
  written. A range is served as announced unless it ends before it begins, behind the
  end, or further than what is left behind its start.
- *Backups*. A backup passes over a media only if its copy failed, its date went
  back, or the copy of another one hid it; a copy outlives its media only if the
  deletion fell into a run that had listed the deletions, or the removal failed. There is a copy of the databases
  that can be read back, unless the backup was given another place or password —
  then what is unchanged is "identical", is not copied anew, and cannot be read, and
  the retention may remove a new copy by the name of an old one — or, of copies in
  the clear and of the configuration, a removal was cut between file and row or two
  runs overlapped.
- *Requests to plugins*. A finished request is downloaded at most once whatever
  stops; one that was being downloaded when the process stopped stays `finished`
  and is never looked at again (`cut`).
- *Plugins*. The list is that of the directory unless two changes overlapped or one
  was dropped midway. Those who ask for the lock while holding it are an
  installation and a provider whose plugin is not loaded: with a writer between,
  every call of a plugin waits for ever.
- *Uploads*. A media loses its file to another request only if that request had
  looked before: at a free name, at the list of rows, at the media's source. The
  cleaning takes the files of uploads in progress, whose rows are then added
  without a file. A removal cut short between file and row leaves a name that a
  later upload takes, and removing the first media again removes the second's
  file (`exposed` in `FileKept`). A list of downloads is stored in its order, and
  nothing twice unless two downloads of it overlapped.
- *Library lifecycle*. The row of a library removed with its content goes only after
  the files it listed; one missing file makes every such removal fail, for the
  provider answers with an error other than the `NotFound` that is passed over
  (`libraries.rs:696`, `path_provider.rs:168`). A library that has rows in
  `Backups_Files` cannot be removed, though its content is gone by then.
- *Databases*. A library that is served has its whole schema. A stop in the middle
  of a script that cannot be run again, or the import of a file that is no
  database, keeps the server from starting from then on, for all libraries.
- *Catalogue*. However refreshes of episodes overlap, once all have ended the list is
  Trakt's. An episode whose serie is gone was added when it was gone. Two merges of
  tags that cross can lose both tags of an item; the mappings of books are never
  moved. Two works share an identifier only if their adds overlapped, or an editor
  said so. The task of a new work replaces nothing it did not see was missing. A
  removed work is recorded, unless the request was dropped between the two calls.
- *Faces*. The row of a person in a media refers to a face of the person in it,
  unless that face was taken away: another face of the person is not looked for, and
  whoever the person is merged into has no row for it either.
- *Medias*. The tags and people of an answered edit are on the media unless they were
  changed after it wrote, or were there when it read and taken away before it wrote:
  then it passes them over. Only the confidence 1 is treated apart, so a prediction
  that runs after an edit lowers the confidence of a tag the user gave. A client
  that follows the keys misses nothing and is given nothing twice but what was
  edited, except with keys of one part, which pass over medias of the same date,
  and with keys that are no number (names, an absent value) or have `after` before
  them in a descending order, which give the first page again (`ignored`).
- *Progress*. What the last call of a user wrote is what every linked user reads,
  unless it overlapped another or was cut short.
- *Images*. The last update is what is shown, unless it overlapped another (its file
  goes under a name nothing reads) or a request removed its file, empty as yet.
- *Accounts*. An invitation is for one, unless two redeemed it at the same moment or
  the first stopped before its removal. The list of users breaks, for everyone, when
  a right is written for a library that was removed meanwhile.

**Disagreements** between what a comment says and what the code does, each shown
by a run whose single property states the comment:

- `mediahls_duplicate`: "if another request already created a session with this
  key … kill ours" (`media_hls_session.rs:313`). The loser's supervisor removes
  the shared key, and with it the winner's session.
- `encryption_omitted`: "Password was removed: decrypt existing files"
  (`libraries.rs:449`). A PATCH that does not mention the password decrypts the
  files of a library that keeps it.
- `tags_descendants`: "path-based to catch all descendants"
  (`051 - CASCADE DELETE.sql:55`). Renaming or moving a tag rewrites the paths of its
  children and not of theirs; removing it later leaves the grandchildren.
- `faces_clusters`: "required for promote_cluster_to_person to find them"
  (`people.rs:1145`). The label of a cluster is an index that another clustering gives
  as well: its faces are promoted to the same person.

Other observations, which the modules allow: the limit of streams, said to be enforced
(`channels.rs:735`), is passed when a session that was evicted is evicted again before
its supervisor ends, which gives up no slot and takes one (`channels.rs:680`; the proofs
say that it is passed in no other way); and, without a comment they contradict,
the limit of streams counts channels, so a channel's slot is shared by its
streams and freed by the first that ends (`channels.rs:653`); the HLS handler keeps its slot
when the URL cannot be resolved, while it releases it when the session cannot be
created (`channels.rs:739`, `752`); the supervisor runs before its session is
registered (`hls_session.rs:332`, `374`); a change from one password to another
encrypts the files a second time (`libraries.rs:442`); merging a tag into its
descendant destroys both (`tags.rs:278`); merging a person into itself deletes its
faces; adding a serie spawns a task with the role of who added it, and what it
does needs an administrator's (`series.rs`); of the copies of a database the route
that says "last" gives the oldest (`routes/backups.rs:53`).

---

## 4 The proofs

Eight modules `*_proofs.tla` prove theorems for every value of the constants: any number
of requests, medias, users, runs, files, any sizes, any bound. Each proof has the same
plan: an inductive invariant that TLC checked before, the lemma that the initial states
have it, one lemma per action (or per class of actions that leave the same things
alone), and a theorem that derives the property. The theorems about a module that an `MC`
module composes are about `MCSpec`, the specification the run checks.

**Assumptions.** They are named, stated in the modules that declare the constants, and
evaluated by TLC in every run. Most say that a value that stands for "nothing" is not one
of the others: `RequestsAssumption`, `StreamsAssumption`, `HlsAssumption`, `EncryptionAssumption`,
`UploadAssumption`, `RequestAssumption`, `NoItemAssumption`, `CallersAssumption`,
`ImagesAssumption`, `ListsAssumption`. The others:

- `SchedulerAssumption`, `EpisodeAssumption`: periods, bounds and lists are numbers;
- `BackupAssumption`: the clock can tick once (`MaxClock` is not 0);
- `StoresAssumption`: there is a last script, and script 30 is one of them;
- `FormatAssumption`, `BytesAssumption`: sizes are numbers, and a size or the bound of a
  range, with the nonce before it, fits into an unsigned integer — the code makes no
  check of it, and needs none below 2^64;
- `CopiesAssumption`: there is a first version, and what stands for no backup, no
  password or a torn file is told from those there are;
- `DownloadsAssumption`: a list of downloads is a sequence of requests and not empty
  (the route's loop does nothing for an empty one);
- `ConversionsAssumption`: a job of a plugin, a merge and a split are different calls;
- `TagsAssumption`, `WorksAssumption`, `EditsAssumption`, `FacesAssumption`,
  `PagesAssumption`: bounds are numbers, what is no row is told from rows, and of a media
  there may be one tag (`MaxMadeTags` is not 0).

**The arguments.**

- **ConvertQueue.** `PhaseInv`, `LockInv`, `FlagInv`, `OnceInv`. `NoLostWakeup`
  needs all of it: the flag is TRUE only while someone holds the lock or after a
  panic, and only the holder drains. `OnceInv` (each request is in one place)
  gives the theorem that the queue implements `ConvertService`: a step of the
  detailed module is a step of the service or a stutter. `TempCorrect` rests on
  `LockInv`: one conversion at a time is what keeps two outputs of one name
  apart.
- **Scheduler** (in `Jobs_proofs`). `Single`, `Apart`, `Found`, `Real`, `Known` place each
  periodic task; `Dated` bounds the dates of what waits and of what is about to start.
  `OnePlace` and `PeriodPasses` follow for any tasks, periods and requests.
- **RequestProcessing** (in `Jobs_proofs`). `HandInv` (the request at hand is not on the
  list any more), `AddInv` (no row before its handler inserts it) and `FetchInv` (what
  was downloaded is out of reach of the next polls). `FetchedOnce` alone is not
  inductive: it needs that a request with a download behind it is on no list.
  `RemovedStaysGone` is an action property from `AddInv`: only *InsertRow*
  could bring a row back, and it never finds one that is gone.
- **ChannelStreams.** `CountInv` links handlers, victims and restart counters;
  `NoSlotLeak` is inductive with it, one lemma per way a step can give a slot
  away. `LimitPassedOnlyByLostVictim`, which no run repeats, says when the limit of
  streams is passed; it needs that the slots are finitely many
  (`LimitStep`, by the cardinality theorems): only *AcquireSlot* and *SwapSlot* add one, the
  former where there is room. `RegisteredInv` (what is in the map has a supervisor) gives
  `OrphanOnlyByRace`.
- **ChannelLists** (in `ChannelStreams_proofs`). `PlaylistImported` speaks of the moment an
  import ends; `ListInv` of each one that is at work and has met nobody. `LoneInv`: it has
  the tables for itself. `MetOf`: the channels it found or made have the tvg-ids it is past,
  one each, and those it is done with are as its playlist says. `WorkOf` says how far it is
  with the one at hand, step by step: its automatic tags are among those the import
  holds, then those of its groups; the entries it is past have a variant that is up to
  date; the variants left to remove are those without an entry. Whatever is removed at
  the end was in the tables before it came, so that a channel it has made stays.
- **MediaHls.** `MapInv`, `SupInv` and `CancelInv`: a key is free or taken anew
  only after a session of it was cancelled. From it the three safety properties.
- **LibraryEncryption.** While the requests are `Orderly`, `StoredInv` (whatever
  was read of the password is the stored one or none), `MigInv` (what is on a
  migration's lists) and `FileInv` (a file is as its upload wrote it until the
  migration replaces it) hold; `TaskInv` holds always. `FilesMatchPassword`
  alone is far from inductive: it says nothing of uploads without a row or of
  the data a task has read. `LostOnlyByTwoChanges` needs another one, for requests that are
  not orderly: `OwnInv` (a migration is its request's own); while nobody sets a
  password, what was read of it is the stored one (`KeptFacts`); while one request at most
  changes the encryption (`Sole`), every file is whole and what a task has in hand is
  what the file holds (`WholeFacts`).
- **ViewProgress** (in `LibraryEncryption_proofs`, like the next five). Between its steps a
  call has written to some of the users and not to others. `AloneInv`: one that overlaps
  no other is alone, and those it has written to have what it wrote; when it is over
  nobody is left. That linked users have the same users as their circle is a lemma about
  the mappings.
- **Images.** `OriginalInv` and `SizedInv` follow an update and a resizing that no other
  overlaps through their files; `Pending` is the one time the smaller copy may be of an
  older original: its update has yet to remove it.
- **Plugins.** `QueueInv` places each caller once in the queue of the lock, `LoadInv` says
  what the list of modules is at each step of the only one that changes it (`PhaseInv`).
  `LoadedAsOnDisk` and `HoldersWaitOnlyToReread` follow.
- **LibraryFiles.** `PlaceInv`: the cipher of the reader stands at the byte that is read
  next, unless the range starts behind the end; `TakenInv` the same of the writer;
  `ReplyInv`: what is sent is no more than what was announced. The arithmetic of ranges,
  with its wrapping subtraction, is a lemma for each of its cases.
- **EncryptedFormat.** `UploadInv`: what is kept is the end of what was given, short of a
  block. `RestoreInv`: what was given to the decrypter is the parts it has passed, the
  blocks that came out and what it keeps, less than the next part or the last block. So
  for any sizes and any cuts `RestoredWhole` names the only two that fail.
- **BackupCopies.** Two invariants side by side, since `CopyKept` holds for two reasons.
  `Calm`, while nothing happened: one run at a time, a name for each copy, each copy whole
  but the one that is being removed, and of the version a run is at a row of its own
  (`RunCalm`). `Apart`, of encrypted copies of a database: each is named by the number of
  its run, and is whole or beaten by a later one; a file is written by its own run alone
  (`Opened`, `RunsApart`). What they share: a database goes on, so whoever has seen a
  version has seen all since (`Forward`, `SinceNow`), and the row of the latest version is
  on no list of removals (`TopStays`, `RunTop`). That last one needs the order of the rows: a
  run that finds its version copied keeps the latest such row, and any that is older than it
  is beaten.
- **MediaBackup.** `NothingPassedOver` is about a media that waits (`PassOf`): whatever was
  copied, and whatever a run will copy before it, is dated before it, so that no later
  run starts after it. `RunOf` says what each run has listed and when, `ClockInv` bounds the
  dates. For `DeletedCopiesFound`, `DeletedOf`: a deletion is after the last backup, or a
  run that listed it is at it, or it fell into a run that had listed before (`Racing`).
  `InProgressExplained`, from `ProgressInv`: whoever wrote the status had listed the deletions,
  and until the status changes it copies, works or has failed.
- **Accounts** (in `MediaBackup_proofs`, like the next). `NamesInv` (a right, an invitation
  and what a request carries are of a library that is there, or that was removed
  meanwhile), `GivenInv` (a code that was not given is nowhere), `TakenInv` (one
  redemption at a time unless two met, and the first leaves no invitation behind).
- **LibraryStores.** `RanOf`: a database has run all scripts up to its version, and of the
  next one what its migration has reached, unless it was cut. `JobOf` says what a
  migration knows, `PathsOf` follows the paths of tags from version 30 on, `TurnInv` which
  database is at work when, and `StoreInv` draws the conclusion: what is served is whole,
  what refuses the start was cut or is no database. That the scripts end, and that there
  is a next one, takes well-founded induction on their numbers.
- **MediaUploads.** `SourceInv` (what has begun has a path) for the types, and
  `TogetherInv`: `NoDuplicate` speaks of rows with an md5, so the invariant adds
  the pairs of uploads past the look, and the uploads past it beside a row with
  their hash. Every pair is recorded by the later of its two looks. For `FileKept`,
  `FilesInv`: no two uploads that are not `exposed` share a path (`PairInv`), the file
  there is the upload's alone (`FileInv`), and no removal (`HandInv`) and no cleaning
  (`CleanInv`) has hold of it. `ContentInv` follows the removal of a library. `NoStrayFile`
  needs, with `FilesInv`, what a removal knows of its upload (`StrayInv`): it added its row, and
  once its file was tried, whatever is still there under its name could not be removed.
- **Downloads** (in `MediaUploads_proofs`, like the next). `StoredOf`: the rows of a download
  are those of the places of its list it is past, one each, whichever way it ends.
  `OverlapInv`: two downloads that have the same request in flight are recorded; so
  past its checks (`CheckedOf`) one finds nothing that it did not find at them.
- **Conversions.** `AloneInv`, `SegmentsInv`, `FinalInv`: a merge whose id nobody shares has
  its own segments, in order, and its own final file; `MergedInv` carries them to the media.
  `MadeInv` counts the medias of a job against the imports that were late.
- **Episodes.** `RefreshesComplete` speaks of states without a refresh under way.
  `MissingIsAhead` says what those under way still owe: between an episode that is
  there (or the beginning of the list) and a later one that is missing stands a
  refresh that will come to it. One that stops at a conflict is not that refresh,
  because it stands at an episode that is there.
- **Works** (in `Catalogue_proofs`, like those that follow). `CheckHolds`: an identifier that
  a request has looked for and not found is nobody's until that request inserts it, and no
  other request is about to insert it, unless two looks overlapped or an update set it
  (`twice`). `Unread`: a task that will write an identifier saw none, and there is none,
  unless an update overlapped (`raced`). Each step keeps the rows as far as these two care or
  is one insertion of a request (`RowsKeptOrAdded`). `RemovalsRecorded` is inductive with the
  types: what is removed and not recorded is in the hands of a request.
- **Tags**. `MergeAlone`: a merge that crossed no other request is the only one.
  `ItemsTagged`: its items have the old tag until they have the new one. So `MergeTrue`
  of the answer, which is sent only if the new tag is there.
- **MediaEdits**. `StillThere`: what an update read as there, and will leave out for that
  reason, is there, unless it is noted in `undone`; `Taken`: what it wrote is there, with the
  same exception. Other requests change tags and people only with a note for each update
  under way.
- **Faces**. `FacesMapped` is inductive with the types and the form of what a worker has at
  hand. Each kind of change has its lemma: faces that keep media and person, that are given
  to a person, lost, or transferred by a merge.
- **MediaPages**. `GivenBehind` and `RestAhead`: what was given and has not moved does not
  come after the key; what was not comes after it, has no value, or has the value of a key
  that has one part. That a page is a set of so many medias that come before the others,
  not a sorted sequence, is what makes it provable; the order within a page shows only in
  which media is its last.

**What the proofs found.** `NothingPassedOver` said at first that a media is passed over
only if a copy of another one hides it. No invariant would carry that, and TLC shows why with
three medias: the copy that hides the media may be removed, once copies of others, dated
after it, have gone past; hence `shadowed`. `DeletedCopiesFound` had an exception for a
run in progress that it does not need. Of two identical copies of a database the model kept
any; the code keeps the latest, and without that `CopyKept` fails in four starts.
`FacesMapped` held in the run and not beyond its bounds: unassigning the face that a row
refers to takes the row with it, though the person may have another face in that media; a
merge then hands that face, without a row, to another person. `unmapped` records
the pair now, where it recorded only the person who lost the row.

`OnePlace`, `PeriodPasses`, `FetchedOnce`, `RemovedStaysGone`, `FinishedInHand`,
`LimitPassedOnlyByLostVictim`, `NoStrayFile`, `InProgressExplained`, `LiveEntryHasDir`, `OutputStillThere`, `StrayTempOnlyAfterFailure`, `OrphansAreLate`
and the type invariants of the modules are proved and belong to no run:
they need no other check.

**Only model-checked.** Everything under fairness (`AcceptedEnds`, `RequestServed`,
`PeriodicComesBack`, `CancelledSessionEnds`, `StaleSessionsRemoved`,
`PasswordReachesFiles`, `FinishedIsFetched`), which TLAPS cannot prove. Every safety
property and action property of the passing runs is a theorem. Some definitions are
stated beside the others and belong to no run, the questions of the runs being the
harder ones:
`CallerReturns`, `IdleSessionEnds`, `StoppedSessionFreesDisk`, `PauseSettles`, all of them
about what must happen.

---

## 5 What is not modelled

- *Of the components above*: the rewriting of playlists; the migration's walk over
  thumbnails and the deletion of a media during a migration; the hash a client may
  give with an upload, and the lookup by original hash; the storage of copies by a
  plugin; the other settings of a library; the removal of a library during its
  addition; preferences of users; searching in the catalogue; the second refresh
  of a serie's people and pictures (`refresh.rs`); of medias, what an update maps to
  series and movies, the sort by rating, counts and positions; the import and export of the
  history of views; the parsing of playlists, torrents and addresses.
- *Server-sent events*. A broadcast channel of 1024 and a filter by the rights of the
  moment the connection was opened. Nothing in the server depends on what a
  listener received; one that falls 1024 events behind skips what it missed
  (`sse.rs:218`).
- *Credentials*: upload keys, share tokens, sign-in and the check of a role are made
  before an operation and change nothing: every request modelled passed them.
- *The configuration files, the certificate and the daemon*: sequential input and
  output at the start.
- *Plugins, storage of plugins, Trakt, FFmpeg, neural networks*: external; the modules
  see calls that answer anything they may answer.
- Formatting, logging and the wording of errors, which no property is about.

---

## 6 The plan

The order is that of the harm a mistake would do: first what loses data or stops
a service for good, then what leaves tables in disagreement, then what is shown
wrongly. The modules above follow it; left are

1. **Refinements**: an abstract library (a set of medias that uploads add to
   atomically) that `MediaUploads` and `Downloads` implement up to the overlaps they
   record; an abstract scheduler that `Scheduler` implements and that
   `RequestProcessing` and `LibraryEncryption` use.
2. **Modules**: the migration of thumbnails and removals during it, in
   `LibraryEncryption`; the remaining settings of a library; the events, if
   something comes to depend on them.
3. **Compositions**: `Conversions` with `ConvertQueue` on one cache directory;
   `BackupCopies` with `LibraryStores` on the database that is copied while open.
