# s3-backend: a TLA+ model of the object store

This directory models the server in `src/`: an S3-compatible object store with
an admin API, written in Go. The models are translated from the code that is
compiled (`cmd/api/main.go` and `internal/`). `main.go` at the root is a copy of
`cmd/api/main.go`, and the files with a numeric suffix (`service.go.7939...`)
are editor backups which the Go tool does not compile; both are left aside.

Run `tlc -config X.cfg M` for the configurations below and `tlapm M.tla` for the
modules that end in `Proofs`.

## 1. The system

### Components

| Component | Code | State | Operations |
|---|---|---|---|
| Metadata repository, in memory | `internal/meta/memory.go` | maps of buckets, objects, uploads, parts, streams, users, keys, policies, settings, audit log, all under one RWMutex | every method of `meta.Repository` |
| Metadata repository, Postgres | `internal/meta/postgres.go`, `schema.go` | the same as tables | the same, one or more statements each |
| Local disk backend | `internal/storage/local.go` | one directory per bucket, one file per object; one directory per multipart upload, one file per part; no lock | Put, Get, Delete, RenameBucket, DeleteBucket, SaveMultipartPart, OpenMultipartPart, DeleteMultipart |
| Hybrid backend | `internal/storage/hybrid.go` | none of its own; a local store and perhaps a NAS | the same, routed by bucket, or tried on both |
| S3 API | `internal/s3api/service.go` | none | buckets, objects, multipart uploads, listing |
| Admin API | `internal/admin/service.go` | none | login and sessions, users, access keys, buckets, objects, streams, policies, settings, audit |
| Request signatures | `internal/auth/sigv4.go`, `keys.go` | none | verify a signed request by looking its access key up |
| Sessions | `internal/redisx/client.go`, `internal/admin/session.go` | Redis, and a map in the process for when Redis fails | Set, Get, Del |
| Process | `cmd/api/main.go`, `internal/config` | none | configure, fall back to memory, seed, serve two APIs, shut down |

### How they interact

A handler runs in a goroutine of its own and calls the repository and the
storage backend one after the other. The in-memory repository holds its lock for
one method; the disk backend holds none; and **no lock spans two calls**. All the
hard behaviour comes from this:

* *object and file part*: a put renames a file and then writes the metadata, a
  delete removes the file and then the metadata. Two requests on one object
  meet between those steps, and so do requests and the rename or removal of
  their bucket.
* *read, wait, write*: the admin handlers read a record, wait for the body of
  the request and write the whole record back. A rotation, a deletion or a use
  of the key in between is overwritten, or survives it, depending on the field.
* *errors after effects*: a step that changed the disk is not undone when the
  next one fails; the hybrid backend and `logout` drop errors of their stores.
* *two copies of a session*: a Redis call may fail before or after it took
  effect, so a session may be in Redis, in the process, or in both.
* *restart*: without `DATABASE_URL` the tables are empty again, the files stay,
  Redis stays, and the seeded administrator and development key come back. With
  it the tables stay, and a database that cannot be reached keeps the process
  from starting (there is no way back to the in-memory repository).
* *calls that fail*: with a database every call may fail, with or without its
  effect: the context of a request is cancelled when its client goes away. A part
  whose record fails has replaced the file of the one before; an abort or a
  completion ignores that it could not forget its upload, and removes the files.
* *statements*: a method of the Postgres repository is several statements, and
  those of two transactions interleave as far as row locks let them.
* *two stores*: with a NAS every removal and rename is done twice, and the second
  may fail after the first; the next start may have a NAS or not.
* *many calls that read*: a listing is a call for each page, a lookup one for each
  spelling of a key.

### What makes each component correct

* **Repository**: objects only in buckets that exist; a listing agrees with the
  lookups; parts exactly for open uploads; a rename loses nothing.
* **Disk and objects**: whole files only; metadata and file agree once the
  writers are done; acknowledged puts and removals have happened.
* **Multipart**: a listed part has its file, and its ETag is that of the file; what is
  assembled is what was verified; an upload that is dropped gives its files back.
  The exceptions are the two above, and the properties say how far they reach.
* **Users and keys**: an access-key id finds one row; revoked ids and keys stay
  revoked; keys have owners; updates change what they were asked to.
* **Sessions**: an ended session admits nobody; one that was handed out is not
  forgotten; a handler acts for the user who logged in, and is recorded as that user.
* **Postgres**: the tables change by whole methods, as in memory; nothing names a
  bucket that is gone; a transaction ends.
* **Hybrid**: what is served is what the metadata describes, on whichever store;
  what was removed or renamed is gone on both.
* **Listing**: a walk over the pages meets what was there all the time; a lookup
  prefers the name it was asked for.
* **Ranges**: a partial answer holds the bytes that were asked for, and as many as
  were announced, even if the file has changed since its size was read.
* **Settings, policies, audit log**: what was saved is what counts; what was
  deleted does not come back; recent entries are shown.

`PROJECT.json` lists the hazards behind these, each at its line.

## 2. The modules

| Module | Models | Extends |
|---|---|---|
| `StoreTypes` | bodies, ETags, paths | |
| `Repository` | bucket, object, upload, part and stream tables of `memory.go` | `StoreTypes` |
| `LocalStore` | the system calls of `local.go` | `StoreTypes` |
| `ObjectService` | object and bucket handlers of both APIs | `Repository`, `LocalStore` |
| `Multipart` | multipart handlers, with the tables in memory or in a database | `Repository`, instances of `LocalStore` and `AtomicUploads` |
| `Listing` | pages of `ListObjects`, the lookup of a public object | `Repository` |
| `Postgres` | the same tables in `postgres.go` and `schema.go`, statement by statement | `Repository` |
| `Hybrid` | the handlers of objects and buckets on two stores | `Repository` |
| `Console` | settings, policies, audit log, and the handlers that go by the settings | |
| `AtomicUploads` | what multipart uploads promise: open uploads, their parts, and what is being sent; an abstract specification | |
| `ByteRange` | `ParseRange` | |
| `RangedRead` | what `getObject` sends for a Range header while the object is written | `ObjectService`, `ByteRange` |
| `Users` | the table of users | |
| `Accounts` | handlers of users and access keys, lookup of a key | `Users` |
| `Sessions` | login, logout, session checks, Redis and its fallback | `Users` |
| `MC...` | values of the constants for TLC | |
| `RepositoryProofs`, `ObjectProofs`, `MultipartProofs`, `PostgresProofs`, `AccountsProofs`, `SessionsProofs`, `ConsoleProofs` | theorems; `ObjectProofs` includes `ByteRange` and `RangedRead` | the modules they are about |
| `StorageProofs` | theorems about `Hybrid` and `Listing` | these |

### How state and actions correspond to the code

* A Go map is a total function with `None` for an absent key. A method of the
  in-memory repository is one action, since it runs under the lock; its guard is
  the condition under which the method succeeds. A method that returns an error
  changes nothing, and the handlers' error branches say what comes of it.
* In `LocalStore` each system call is an action: create the temporary file, copy,
  rename, open, unlink, and the readdir, the unlinks and the rmdir of
  `os.RemoveAll`, which holds its directory open and follows it when it is
  renamed. A path is resolved at each call, so a put whose bucket directory was
  moved away finds nothing there.
* `SaveMultipartPart` and `DeleteMultipart` make the same system calls as `Put`
  and `DeleteBucket`, one level down, so the part files are
  `INSTANCE LocalStore` with uploads for buckets and part numbers for keys.
* `Postgres` has the variables of `Repository` for what is committed, and an open
  transaction `tx[c]` per connection with the rows it holds. A method that is one
  statement is the action of `Repository` behind the locks it needs; a
  transaction has an action per statement and changes the tables at its commit,
  which is sound because nobody else can write a row it has locked. Postgres
  itself is external: row locks, the cascade at the end of a statement, the
  rollback of one of a circle of waiting transactions. The branches of the
  deletions for error 23503 are out of reach: since `schema.go:133` every reference to a
  bucket cascades.
* In `Hybrid` a method of one store is one step, and requests come one at a time:
  what overlaps is the matter of `ObjectService`, and what is left between two
  stores by failures, retries and changes of the configuration is the matter here.
* In `Listing` keys are numbers in the order of the strings, and what
  `publicObjectKeyVariants` and `normalizeObjectKeyForLookup` make of them are
  constants. Postgres lists the same pages, but for a prefix with `%` or `_`,
  which `like` takes for wildcards.
* `RangedRead` adds no state to `ObjectService`. What `getObject` sends is a function of
  the header, of the size it read from the metadata and of the file it then opened,
  so the property asks every header of every answer. A header is the numbers in it.
* A handler is a record `req[r]` (`mreq`, `areq`, `sreq`, `creq`) whose `pc` says which
  call comes next and whose other fields are the handler's local variables: the
  metadata a read found, the record an update will write back.
* A body is a sequence of opaque fragments, so that the object a completed
  upload writes is the concatenation of its parts; an ETag is a body in a wrapper.
* A *draw* in `Accounts` stands for the random values taken together: a row id,
  an access-key id, a secret. A rotation gives a row the id and secret of another
  draw, which is what makes "the id and the secret belong together" a question.
* `Database` in `ObjectService`, `Multipart` and `Console` says where the tables are. With
  it `Restart` keeps them, and any call on them may fail before or after its effect.
  Postgres also finds no parts where the in-memory repository refuses to list them, so
  that a completion which asks for all parts of an upload that has just been dropped
  stores an empty object; and uploads go with the row of their bucket.
* History variables (`suspect`, `solo`, `racy`, `torn`, `issued`, `stale`, `orphan`,
  `home`, `revoked`, `removed`, `strays`, `owner`, `gone`, `ended`, `late`, `left`,
  `half`, `always`, `ever`, `added`, `born`, `dead`, `chosen`) are
  read by no handler. They say which requests overlapped, because the code orders
  nothing between two requests and promises nothing to those that conflict. The
  conflicts themselves are all in the model; properties are stated for what
  overlapped nothing, and their comments say what happens otherwise.

## 3. The runs

All runs explore their state space completely.

| Run | Instance | Properties | What it shows |
|---|---|---|---|
| `listing` | 2 buckets, 3 keys that look alike, pages of 2, an upload, a stream, a reader | `WalksComplete` `LookupsFind` `ObjectsInBuckets` `ListAgreesWithGet` `PartsFollowUploads` `RenamesAreComplete` | the tables stay consistent under every sequence of methods, and so does what a reader puts together from several calls |
| `objects` | a database; 1 bucket, 1 key, 2 bodies, 3 requests: put, get, delete, both removals; headers with numbers up to 3 | `WholeFiles` `Settled` `RangesAreAnswered` `AcknowledgedPutsStored` | files are whole; metadata and file differ only where conflicting requests overlapped or one was cut off, until the next acknowledged put; ranges are honoured though the object is replaced by a longer or a shorter one |
| `rename` | no database; 2 buckets, 1 key, 2 bodies, 2 requests: put, public get, rename | `ObjectTypeOK` `ReadsMatch` | puts into a directory that moves, reads through the stale physical path |
| `remove` | 2 buckets, 1 key, 2 requests: upload, both removals, rename; fair | `DanglingIsTransient` `AcknowledgedRemovalsReclaim` | removals against uploads and renames, down to the unlinks of `RemoveAll`; metadata without a file does not last |
| `multipart` | a database; 2 buckets, 1 upload of 2 parts, 2 bodies, 2 requests, a list out of order with one ETag | `PartEtagsMatch` `PartFilesExist` `AssembledAsVerified` `UploadsAreAtomic` | calls that fail and restarts that keep the tables: what they leave unrecorded or unforgotten is all that comes apart; the assembled body is the verified one, while parts are sent again and the bucket is renamed or removed; the handlers implement the abstract uploads |
| `parts` | no database; 1 upload of 1 part, 1 body, 3 requests; fair | `DropsComplete` `DroppedUploadsLeaveNothing` | the same part twice, a completion and an abort at the same time; the files of a dropped upload go away |
| `accounts` | 2 users, 2 passwords, 2 draws, 2 requests | `AccountsTypeOK` `CredentialsUnambiguous` `RevokedStaysOut` `KeysHaveOwners` `UseIsRemembered` `UpdatesAreNarrow` | updates, rotations, deletions and uses of keys that carry old copies; users that are deleted while keys are given to them |
| `sessions` | 2 users, 1 session, 2 requests | `EndedStaysOut` `SessionsEndForAReason` `ActsAsItself` | every call to Redis may fail, before or after its effect, at each of the lookups of one request |
| `postgres` | 3 buckets, one row of each other table, 2 transactions | `RowsInBuckets` `MethodsAreWhole` | renames, removals and single statements that interleave: the tables change as in memory, but that a rename may lose what came in late |
| `postgres_live` | 2 buckets, 2 transactions; fair | `TransactionsEnd` | transactions end, deadlocks included |
| `hybrid` | 2 buckets, 1 NAS key, 2 bodies, two stores | `ServedAsDescribed` `NothingStaysBehind` | failures of either store, requests that are cut off, renames that are tried again, starts with and without the NAS |
| `console` | 2 requests, 2 policies, a log of 3, pages of 1 and 2, 4 changes | `RecentEntriesAreListed` `PoliciesLiveOnce` `SettingsApply` | memory and a database that fails: settings that cannot be read, policies updated while they are deleted, the cut of the log |

`MethodsAreWhole` is the refinement of `Postgres` to `Repository`: the two share
their variables, so it needs no mapping. It says that every commit is one method
of `Repository`, except that a rename may lose the rows that came into the bucket while
it was running (`WholeRename`): the in-memory repository, under its lock, loses none. A
plain delete counts the objects in a statement of its own, so its cascade may take
rows that came in, or were carried in by a rename, after the count; the refinement shows
such a commit as a `DeleteBucketRecursive`.

`UploadsAreAtomic` is the refinement of `Multipart` to `AtomicUploads`, where an
upload begins, has a part sent and put, and is dropped, each in one step. Its
mapping takes for the content of a part the file behind a part that the
repository lists, and for what is being sent the part requests in flight and the
files that were published and not recorded (`ContentOf`, `Sending`, `Unlisted`). It
says that a listed part is not without its file, that its content is only replaced by a
body that somebody sent for it, and that an upload ends as a whole, with all its parts
and for good. The one exception is `damaged`: an upload that a removal could not
forget (`torn`) may lose its parts one by one.

### Why the bounds are enough

* *Requests.* A conflict is between two handlers; two requests show every
  pairwise interleaving. The runs of one object and of one part have three, so
  that a reader, or a drop, meets two writers. Requests end and begin again, so
  the number of requests in a behaviour is not bounded.
* *Buckets.* A rename needs an old and a new name, and both serve as both; in
  Postgres a third lets two renames chain. *Keys*: objects of different keys meet
  only in a listing and in a rename or removal of the bucket; the listing run has
  three, so that a page is full and one follows, the others one. In the hybrid
  run it is one that belongs to the NAS: while there is no NAS it behaves as a key
  that does not (an instance with one of each also passes).
* *Connections.* Two transactions show every pair of methods and every deadlock of
  two; the statements that hold no transaction come between them.
* *Log.* Its cap and pages are small numbers with the order that 100, 200 and 500 have
  to the limits asked for: none, within, beyond. Four changes fill the log and
  push one out; `MaxChanges` is the only bound on the length of a behaviour.
* *Bodies.* Two are needed to tell a stale ETag from a good one. The runs that
  ask about files rather than contents have one.
* *Draws.* Two: the development key, and one that becomes a second row or the id
  the first is rotated to. A draw is made once; when all are made, keys can
  still be updated, given away, used and deleted. The theorems of `AccountsProofs`
  are for any number of draws.
* *Ranges.* Positions matter only by how they compare with 0 and with the size: the
  bodies have one and two fragments, and a header may name one past the larger, have
  its last before its first, or a negative last. Empty objects are left to the theorems.
* *Sessions.* Session ids are 24 random bytes and no action relates two of them.

Runs whose requests differ only in identity use symmetry; liveness runs do not.
Runs whose bucket names or bodies differ only in identity do too, and `listing`,
`hybrid` and `multipart` take for one the states that differ only in what no action and
no property of theirs reads (`WithoutPaths`, `WithoutObjects`): `PhysicalPath`, in
`listing` the key of an upload, in `multipart` what the assembled objects say. No run has a state constraint. `CHECK_DEADLOCK` is on in all
of them: there is always a request that may arrive.

## 4. Fairness

Safety runs assume none. `FairObjectSpec` and `FairMultipartSpec` have weak
fairness on `ServerStep(r)` for each request: the steps that a goroutine takes
once its input has arrived. They are system calls and repository methods, which
return, and the Go scheduler runs every goroutine that can run. Clients owe
nothing: neither a request nor the arrival of its body is fair, so an upload may
hang for ever. Weak fairness is enough, for a step of a handler stays enabled,
or is replaced by its error branch, until it is taken.

`FairPgSpec` has strong fairness on the next statement of each transaction, for a
statement may find its rows locked, free and locked again: a lock of
Postgres has a queue, so that it gets them in the end. Deadlock detection has weak
fairness (`deadlock_timeout`). Nothing makes a client begin a transaction or
go away.

`DropsComplete` is about one life of the process (`FairMultipartSpec` has no
`Restart`): after a restart nobody remembers which directories were being
removed, and their files stay, with a database or without. `DanglingIsTransient` needs no such exception,
since a restart empties the metadata.

## 5. What is proved

All the properties that a run checks are theorems of the specification too, except
the three liveness properties. The type invariants of `Multipart` and `Sessions`
(`MultipartTypeCorrect`, `SessionsTypeCorrect`) are theorems that no run repeats. A
theorem holds for every value of the constants under the named assumptions, which
TLC evaluates in the runs. They are of three kinds: sentinels differ from the values
they stand beside (`SentinelAssumption`, `HalfAssumption`, `TransactionsAssumption`,
`SessionSentinelAssumption`, ...), constants are of the type their comment says
(`BodiesAssumption`, `ConsoleTypesAssumption`, `AsksAssumption`, ...), and there is
something to model (`KeysAssumption`: there is a key; `AccountsAssumption`: the
development key is a draw). In each module the argument is an inductive invariant,
listed as a theorem of its own, that every property is read off from.

**`RepositoryProofs`**: the four invariants of the repository and
`RenamesAreComplete`. The inductive invariant `RepoInv` replaces "listing agrees
with lookup" by the stronger `EntriesNameTheirBucket` (metadata stored under a
bucket carries its name), which is what the rename has to maintain.

**`ObjectProofs`**: all properties of `ObjectService` but `DanglingIsTransient`.
`BasicInv` has the types, what a request carries at each step, whose a temporary file
or a removal is, whole files, and a directory for each; it gives `WholeFiles` and
the types. `Settled` is not inductive: it says nothing of an
object while a request is between its two stores. `CleanInv` says what the request
relies on there, as long as nothing made the path suspect: a put has its body in place
until the metadata are written (`UpsertOK`), a rename has every file of the old bucket
in the new directory (`MovedOK`), a read that is alone holds current metadata
(`ReadOK`). It also says who can be at a clean path together: nobody with a request that
overlapped none (`SoloAlone`), and no two writes but a removal and the rename which
moved its directory away (`SharedSuspect`). From it follow `Settled`, `ReadsMatch`
and the properties of what was acknowledged. Renames are not
combined with a database here (`OpsAssumption`); `Postgres` and `Hybrid` have those.

The same module has the ranges. A partial answer is exactly what the header asks for
(`PartialAnswersAreExact`), and a whole object is sent instead only for a range that
selects nothing or whose explicit last byte lies past the end, which the code does not
clamp (`RangesAreHonoured`); headers and sizes are any integers. With `ReadsMatch` it
follows that `getObject` sends as many bytes as it announced (`RangesAlwaysAnswered`).

**`MultipartProofs`**: all properties of `Multipart` but `DropsComplete`, for any number
of requests, uploads and parts, with a database and without, from three invariants.

* `MultipartInv`, about which files there are. `PartFilesExist` is not inductive.
  Between the rename of a part file and its record in the table the file must stay, or
  the upload be gone (`SavingHasFile`); a directory is swept one unlink at a time, during
  which the upload must be gone (`DroppedIsGone`); it stays gone because ids are never
  handed out twice (`UsedIdsIssued`); and a sweep works in its own upload's
  directory (`SweepsOwnDir`). Wherever these say "gone", an upload that a removal could not
  forget is the other case, and no other upload is.
* `TruthInv`, about what is in them: what a request that runs alone has to itself,
  that a body is whole on its way to the disk and there, that the ETag of a part which
  is not `racy` is that of its file, and that an ETag, a list of parts or a list of file
  names that a request carries is still true. A record that fails, and a stop between the
  rename and the record, make a part racy; its next upload that runs alone ends that.
* `FilesAreIssued`, about what is left on disk: the files of a dropped upload, or of one
  whose tables are lost, are never found by a new upload, since ids are not used again. With
  the two others every step of the handlers is shown to be one action of
  `AtomicUploads` or none (`UploadsAlwaysAtomic`).

**`PostgresProofs`**: `RowsInBuckets` and the refinement `MethodsAreWhole`. `PgInv` says which rows a transaction holds at each of
its statements, that what it met is still there, that what it has not met came later, and
that no row is held twice. Every action must leave the other transactions that much: a
statement because it finds its rows free, a commit because it holds what it writes.

**`AccountsProofs`**: the type invariant and all five properties of `Accounts`.
None is inductive, for a request writes back a record it read long before. The
invariant `AccountsInv` says of every copy a request carries what it says of the
tables (`RequestSound`): its id and secret were drawn for its row, it holds nothing that
was revoked while nobody carried it, and its owner is there or was deleted
under its eyes. A copy that no write made stale is what the table holds
(`CopyFresh`, `UserFresh`), from which `UpdatesAreNarrow` follows.

**`SessionsProofs`**: all properties of `Sessions`. The properties speak of what a
request found; `SessionsInv` says why. Both copies of a session are of its owner
(`StoredForOwner`); one that is in neither place has ended for a reason and stays dead
(`DeadHasEnded`, `GoneIsDead`), since only a login that has not handed it out yet can
write it (`KeepOK`, `KeptOnce`); and a request carries no more than it read
(`AskOK`, `LogoutOK`), up to the name it gives to its audit entry.

**`ConsoleProofs`**: the three properties of `Console`. `ConsoleInv`: the log is the end
of all entries ever added, newest first, cut at the cap only in memory (`LogIsNewest`);
the settings in use are those accepted last (`SettingsAreChosen`) and a request keeps
what it read of them (`CallsFit`); a policy that was deleted had been created
(`DeadWereBorn`), so that its id is not free for another.

**`StorageProofs`**:

* `Hybrid`: `ServedAsDescribed` asks nothing of an object while the NAS is away, so it
  is not inductive. `PathsMatch` in `HybridInv` is the same without that exception: a local
  file that is not from before the NAS matches, and without one the file on the NAS
  does. A rename relies on its plan (`RenamePlan`): wherever each file is by now, under
  the old name or the new, it matches; a rename that stopped halfway leaves the plan to
  the next try (`HalfOK`). `NothingStaysBehind` follows from the same.
* `Listing`: `ListingInv` says that a walk has met all that was there all the time up to
  its cursor, in order, and that a lookup which has gone on from the name it was asked for
  knows that this name was not there all the time. Keys are unbounded; the tables are
  finite.

**Only model-checked**: `DanglingIsTransient`, `DropsComplete` and `TransactionsEnd`. They
need fairness and ENABLED, for which the prover has no means.

## 6. What is not modelled, and the plan

Assumptions of the models: MD5 has no collisions; random ids are fresh; object
keys have no slashes (no nested directories); no user is called "system"; a
development key is configured; a directory has few enough entries for
`RemoveAll` to read in one call; Redis keeps what it was told until it expires,
and a call that fails, to Redis or to a database, took effect when it was made or never; disk operations fail only for reasons
the model has (a directory that is missing, present or not empty), not for a
full disk, except where a put may fail while the body arrives, and except in
`Hybrid`, where any call of a store may fail as a whole. In `Postgres` a statement takes
its rows at once, and no bucket name is part of another (`replace` on the
physical path). `Multipart` takes each method of Postgres whole: what a rename may lose
by a cascade, an upload included, is in `Postgres` only. Names of policies, which are unique in Postgres and not in memory, are
left out.

Open, in order:

1. *An abstract object store*, a map from names to bodies, with `ObjectService` shown
   to implement it where requests do not conflict (`AcknowledgedPutsStored`
   and `ReadsMatch` are the pieces of it that are proved).
2. *Completions* in `AtomicUploads`: what is assembled, in terms of its parts. Today
   `AssembledAsVerified` says it of the handlers.

Not modelled: the Postgres tables of users, keys and stream segments (single
statements; `Users` and `Accounts` have the in-memory twins, which seed the same
rows), `SaveStreamSegment`, which nothing calls, and the usage summary, which sums up.

Left out for good: XML and JSON, the canonical request and HMAC of
signatures, password hashing, CORS, ids, content types, playlists and health
checks, which are formatting or pure I/O. The 20 s shutdown is not told
apart from a crash: `Restart` may happen at any point.

`src/` has no documentation and no tests, so there is no text to hold
the code against, and no finding is listed. Where the code is weaker than a
reader might expect (a revoked key that an overlapping update brings back, a
logout that fails to reach Redis, a part that arrives after an abort and stays
on disk, an upload whose files are removed though it could not be forgotten), the model has the behaviour and the comment of the property names it.
