# A verification of flatstor dbengine

dbengine stores tables as JSON files, one file per column group and row, and
serves SQL from a DuckDB copy of them.  This directory holds TLA+ models of its
parts that keep state, TLC configurations that check them on small instances,
and proofs (TLAPS) of the properties that matter most.

## 1. The system

| component | code | state | operations |
|---|---|---|---|
| disk storage | `pkg/storage/disk.go` | directories and JSON files | ReadJSON, WriteJSON, Delete, DeleteDir, ListDirs, ListFiles, Exists, MkdirAll; no lock, no temporary file: `WriteJSON` is `os.WriteFile` (truncate, then write), `DeleteDir` is `os.RemoveAll` |
| table catalog | `pkg/colgroup/manager.go`, `schema.go` | `schemas` cache under `mu`; `_schema.json` per table | CreateTable, GetTable, DropTable, ListTables, LoadAllSchemas, TableExists, UpdateSchema; Validate, FlatName, ParseQualifiedColumn |
| row assembler | `pkg/colgroup/assembler.go` | none of its own | InsertRow, ReadRow, UpdateRow, DeleteRow, UpdateColumnGroup, ListRows, ReadAllRows, iterator |
| DuckDB engine | `pkg/duckdb/engine.go` | a database, in memory or in a file; `mu` around each statement | Exec, Query, CreateTable, DropTable, InsertRow, TruncateTable |
| loader | `pkg/duckdb/loader.go` | none of its own | CreateDuckDBTable, LoadTable, RefreshRow, DeleteRow, LoadTableIncremental, SyncTable |
| indexer | `pkg/duckdb/indexer.go` | `_index_meta.json` per table, shared by every program on the data directory | NeedsReindex, BuildIndex, SmartLoad |
| engine | `pkg/engine/engine.go` | references to the above | row operations: files first, then RefreshRow; table operations; Query |
| query | `pkg/query/` | none | parse and translate `group.column` to `group_column` |
| authentication manager | `pkg/api/auth.go` | `revokedTokens` under `revokedMu`; the signing key | Authenticate, GenerateTokenPair, ValidateToken, RefreshTokens, RevokeToken, CleanupRevokedTokens |
| API server | `pkg/api/server.go` | the rate limiter's map; the above | routes and middleware; handlers; two background loops |
| program | `cmd/dbengine/main.go` | - | start-up (SmartLoad of every table), server, REPL |
| clients | `dbclients/go`, `dbclients/python` | tokens and their expiry; a connection pool | login, refresh, logout, requests with a retry on 401 |
| scripts | `scripts/` | - | generate and delete sample data |

The server runs each request in a goroutine of its own.  Handlers call the
engine; the engine calls the assembler, which writes files through the disk
storage, and then the loader, which reads the same files back and issues SQL.
Three locks exist: the catalog's `mu` (the schema cache), `duckdb.Engine.mu`
(one statement at a time) and `revokedMu`, besides the rate limiter's.  None of
them spans a file write and the SQL statement that copies it, so everything
between two system calls or statements interleaves.  The request's context
cancels the remaining steps when the client goes away.

What is hard, and what must hold:

* **Two copies, no transaction.**  A write is done when its files are written and
  RefreshRow has copied them.  The copies must agree whenever nobody is in the
  middle of a write and nothing went wrong; what went wrong must be repaired by
  the next load or sync; and a query must never see a version of a column group
  that was never written.
* **Bulk loops over moving data.**  LoadTable and SyncTable take a listing and work
  through it while rows come and go.  They must end, and must repair.
* **Torn files.**  A write truncates first.  Readers and the next process meet files
  that do not parse and take them for absent.
* **The catalog's cache** must not outlive or contradict `_schema.json`; the DuckDB
  table must match it.
* **Revocation.**  A revoked token must stay revoked until it has expired, over
  cleanups; a refresh token should be good for one refresh.
* **Rate limits.**  Two limits with two windows share a map and a sweep.
* **Start-up** decides from a metadata file whether to trust the copy that is in DuckDB; the
  files may have been changed by the scripts, by another program, or in place, and the last
  load may have been cut short.  What is kept must be current, and what is current kept.
* **Statements** are cut with string searches, twice.  What DuckDB runs must be what was asked,
  or be refused.
* **Clients** keep tokens shared by threads and retry on 401.  They must not leave a spent token
  in the cache, must give up or succeed, and logout must end what it says it ends.

## 2. Modules

| module | models | role |
|---|---|---|
| `DualStore` | disk storage, assembler, loader and engine row operations for one table | the core: one action per system call or SQL statement |
| `DualStoreInv` | - | the parts of the inductive invariant |
| `DualStoreProofs` | - | theorems about `DualStore` |
| `RowTable` | what the engine promises of a table's rows | abstract specification |
| `DualStoreTable` | - | the refinement: `DualStore` with a history variable, and `RowTable` as its property |
| `RowTableProofs` | - | theorems about the refinement |
| `MCDualStore`, `MCRowTable` | the requests and seeds TLC uses | instances |
| `SlidingWindow` | what the rate limiter promises | abstract specification |
| `RateLimiter` | `RateLimiter` of `server.go` and the middlewares that call it | detailed specification |
| `RateLimiterProofs` | - | theorems about `RateLimiter` |
| `MCRateLimiter` | a client with two keys | instance |
| `SchemaStore` | what the schema manager promises of one table name | abstract specification |
| `TableCatalog` | `colgroup.Manager` and the engine's table operations for one name | disk, schema cache and DuckDB table through create, drop, load and insert; implements `SchemaStore` |
| `TableCatalogProofs` | - | theorems about `TableCatalog` |
| `AuthManager` | `AuthManager` of `auth.go` and the handlers that call it | tokens and their revocation |
| `AuthManagerProofs` | - | theorems about `AuthManager` |
| `MCAuthManager` | symmetry | instance |
| `Indexer` | `Indexer` of `indexer.go`, start-up, and what changes the files meanwhile | files, metadata and each program's copy over loads, stops and failures |
| `IndexerInv`, `IndexerProofs` | - | the parts of the inductive invariant; theorems about `Indexer` |
| `MCIndexer` | model values | instances |
| `SqlText` | `pkg/query`: the parser and the translator | pure operators on sequences of tokens |
| `QueryPath` | Engine.Query and the two endpoints over a table that comes and goes | composes `SqlText` with the catalog's steps |
| `QueryPathProofs` | - | theorems about `QueryPath` |
| `MCQueryPath` | four schemas and more than four hundred statements | instance |
| `TokenClient` | the Go and Python clients' tokens | composes a client shared by threads with `AuthManager` (`Server == INSTANCE AuthManager`) |
| `TokenClientProofs` | - | theorems about `TokenClient`, from those about `AuthManager` |
| `MCTokenClient` | model values | instances |

`DualStore` takes the table as existing and models its rows; `TableCatalog` models the
table's coming and going and of rows only their directories; `Indexer` models loads of a
whole table by several programs and gives a row one file; `QueryPath` has the schema and
no rows.  Each looks at the same code from a distance at which TLC can finish.  A step of
`TokenClient` is a step of the client, of the server behind it, or of both, so
`AuthManager` is not written twice; `ServerIsAuthManager` proves that the composition's
server is that module.

### DualStore and the code

| TLA+ | code |
|---|---|
| `disk[r][g]` | the file `<table>/<row>/<group>.json`: absent (`Missing`), truncated (`Torn`), a mixture of two overlapping writes (`Garbled`), or an object; `NoRow` when the row's directory is absent |
| `duck[r]` | the row of the DuckDB table, its columns grouped; `NoRow` when absent |
| `table` | does the DuckDB table exist |
| `pc`, `req`, `loc` | a goroutine: its next step, the request, the local variables (`left`: the listing a loop works through; `seen`: the ids SELECT returned; `buf`: the Row that ReadRow assembles; `out`: what will be written; `linked`: does the open file still have a name) |
| `solo`, `tainted`, `ever` | history: see below |
| `MakeRowDir` ... `WriteFile` | InsertRow, UpdateRow, UpdateColumnGroup: MkdirAll or Exists, then per group (in schema order, or in map order for UpdateRow) read-and-merge, truncate, write |
| `ListRowFiles` ... `SqlDrop` | DeleteRow: `os.RemoveAll` as read directory, unlink each, remove the directory; then DELETE |
| `ReadGroup`, `SqlDelete`, `SqlInsert`, `SqlFails` | RefreshRow, and the loops' inserts: read every group, DELETE, INSERT; a primary key conflict or a missing table is an error |
| `CreateDuckDBTable` ... `BulkDone` | LoadTable, SyncTable, LoadTableIncremental |
| `DirectDML` | INSERT, UPDATE, DELETE through `/execute` |
| `Cancel` | the context is cancelled, or the disk or DuckDB fails: the handler returns |
| `ReadGroupFails`, `PrepareGroupUnread`, `SelectRowIdsFails` | a read fails and the code goes on as if nothing were there |
| `Crash` | the process dies; an in-memory DuckDB is lost; files stay as they are |

One table, which exists throughout.  `Hidden` holds the row ids that begin with `_` or `.`:
the handlers accept them (`server.go` 984-1007, and 43), `ListDirs` skips them
(`disk.go` 143, 214-220), so `ListRows` never lists such a row (`Listed`), and what works
from a listing takes it for deleted.  A step is one system call or statement
because no lock covers more.  A column's value is a model value; a group's
contents is a function from some of its columns to values.  What the code
takes for "no data" on any read error is the empty function, as in the code.

Writes that overlap on one file: each truncates and then writes from offset 0
through its own handle, so the second write may leave bytes of the first behind
it (`Garbled`), or not (when it is at least as long).  A handle whose file was unlinked
writes to nowhere.

`tainted` holds the rows whose copies are excused from agreeing: requests on the
row overlapped, one failed half-way, a read error was swallowed, DML went to DuckDB,
the process died, or a load or a sync began while the row was on disk under a hidden id
(`Overlooked`: it drops the row from DuckDB).  `solo[p]` holds the rows that goroutine `p` has had for itself
since its request began; when it answers success those rows leave `tainted`.
`ever` holds every version a group's file (or a DML statement's row) has had.
None of the three influences a step.

### RowTable and DualStore

`RowTable` has no files, no DuckDB and no steps inside a request: a table of rows, the
request each goroutine serves, and the rows it has had for itself.  A request on such a row
takes effect when it is answered (`Answer`): an insert sets every group, an update merges
the groups it names into the row and keeps the others, a delete removes the row, loads and syncs
change nothing (`RowAfter`), except that the hidden rows they do not find (`Missed`) become
`Unknown`.  What overlaps, fails, goes past the engine or dies makes its rows `Unknown` too, and an answered request that had the row for itself makes it known again, except
that an incremental load leaves rows DuckDB has, and a refused update leaves DuckDB, as they are
(`RepairsAll`).  `DualStoreTable` maps `store` to `Store`: `Unknown` for a tainted row, else
`before`, a history variable with what the files showed when the request on the row
began, or show now when nobody has one.

### RateLimiter and the code

`Allow` and `Deny` are the two outcomes of `RateLimiter.Allow`, `Cleanup` the sweep
of the background loop; each holds `rl.mu` throughout and reads the clock inside, so
each is one step.  A key is an IP address (general limit) or an address with
`:login`.  `Limit` and `Window` are what the two middlewares pass for the key,
`CleanupWindow` is `LoginRateLimitWindow`.  Two requests may carry the same time, so
the list of times is a set of numbered times.  A key without times and an absent key are
the same to `Allow`.  The clock is a counter; `time.Now` is monotonic in Go.

### TableCatalog and the code

| TLA+ | code |
|---|---|
| `dir`, `file`, `rows` | the table's directory, `_schema.json` (absent, truncated or a schema) and the rows' directories in it |
| `cache`, `mu` | `Manager.schemas[name]` and who holds `Manager.mu` for writing |
| `duck` | the schema whose columns DuckDB's table was made with |
| `pc`, `op`, `got`, `todo` | a goroutine: its step, its operation, the schema GetTable gave it, what `os.RemoveAll` has listed |
| `CreateLock` ... `WriteSchema` | Manager.CreateTable under `mu`: look at cache and disk, MkdirAll, truncate, write, cache |
| `GetTable`, `TableNotFound` | Manager.GetTable: a hit, or the file under the write lock; for CreateDuckDBTable, InsertRow and RefreshRow |
| `CreateDuckDBTable` | CREATE TABLE IF NOT EXISTS |
| `MakeRow`, `InsertIntoDuckDB` | InsertRow: the row's directory, then RefreshRow's statements |
| `DropDuckDBTable` ... `RemoveTableDirFails` | Engine.DropTable: DROP TABLE IF EXISTS, its error ignored; then under `mu` the cache and `os.RemoveAll` |
| `Cancel`, `Crash` | a cancelled context, an I/O error or a SQL error; the death of the process |

A read of the cache under `RLock` is part of `GetTable`'s guard: it waits while `mu`
is held for writing.  `alone` and `mess` excuse what `CatalogAgrees` does not
promise: operations that overlapped, failed, or were cut short make a mess; a
DropTable that meets nobody clears it.  `apart` holds the goroutines whose operation has met no CreateTable, and
`gone` remembers that a DropTable that met none has answered success and no CreateTable has
begun since: a create that waits for `mu` while a drop runs comes after it, and its table is no
leftover.  None of the four influences a step.

`SchemaStore` has no files, no cache and no lock: one entry (a schema, `Absent` or
`Broken`), which a create makes, a drop removes and the other operations look up, each in
one step between its call and its return.  A refusal ("already exists", "not found") must be
true when it is given.  `TableCatalog` is such a store (`Store == INSTANCE SchemaStore`):
`entry` is the schema file, which is not there while CreateTable is writing it under the lock
(`Entry`) and is `Broken` when the write was cut short; the moments at which an operation has
its effect (`Done`) are the end of that write, the unlinking of the file in `os.RemoveAll`, and
what GetTable returns, from the cache as well as from the file.

### AuthManager and the code

| TLA+ | code |
|---|---|
| `issued` | the tokens clients hold: id, kind, expiry in whole units (`NumericDate` drops the fraction), signing key |
| `revoked` | `revokedTokens`: one entry per token with the time of its revocation |
| `CheckRevoked`; `ParseToken`, `RefuseToken` | ValidateToken: the lookup under `revokedMu`; the parsing after it, and the caller's look at the token's kind |
| `Serve` | the handler behind `withAuth` |
| `RevokeToken`, `LogoutDone`, `BasicLogout` | handleLogout: the body's tokens, then the header's |
| `RevokeToken`, `IssuePair` | RefreshTokens: revoke the old one, make a new pair |
| `CleanupRevokedTokens`, `EmergencyCleanup` | the two loops of CleanupRevokedTokens; the second in a Go map's order |
| `Restart` | a new process: the list is empty, the key another one unless it was configured |

The shipped `main.go` configures no key, so a restart makes every token invalid; the
library's `Config` can set one, and then a restart loses the revocations (`forgotten`).
`late` holds the goroutines whose request began with a token that had been revoked;
`exchanged` what each refresh token was exchanged for.  A request whose token was
revoked after the lookup may go on: the property does not forbid that.

### Indexer and the code

| TLA+ | code |
|---|---|
| `schema`, `disk`, `meta` | `_schema.json` (columns and `updated_at`); each row's directory: the change that wrote its file, the change that made its last new entry (the directory's modification time); `_index_meta.json`, absent or torn being the same to `GetIndexMeta` |
| `clock` | the number of changes to the files: what modification times and `updated_at` are compared as |
| `cached[e]`, `table[e]`, `duck[e]` | a program's schema cache, its DuckDB table's columns, its rows |
| `pc[e]`, `read[e]`, `todo[e]`, `target[e]` | its step, the metadata it compares or will save, the rows a load has still to insert, the row of a row operation |
| `GetIndexMeta` ... `VerifyCopy` | NeedsReindex's three comparisons, each of what is there at that moment, then TableExists and the row count |
| `CreateDuckDBTable` ... `SaveIndexMeta` | BuildIndex: create, truncate and list, insert row by row, hashes and count, truncate and write the metadata |
| `LoadFails` | any of these returns an error, which start-up prints and goes on |
| `Start`, `Stop`, `Rebuild` | start-up, the death of the process at any step, `.rebuild` |
| `MakeRow` ... `DeleteCopy` | row operations of a program that is up |
| `GenerateRow`, `UpdateSchemaTimestamp`, `WriteSchema`, `CleanData` | the scripts |

Two programs may use one data directory: the shell and the server, or two shells; the
metadata file is theirs in common, the DuckDB is each one's own.  `late[e]` holds the rows
others changed since `e`'s load began; `inplace[e]` those rewritten in place since `e`
copied them; `askew[e]` says whether the metadata describe `e`'s copy (`partial`: a load of
`e` stopped on the way and nothing has changed since); `touched[e]` whether anything
changed since `e`'s last build.  None of the four influences a step.

### SqlText, QueryPath and the code

A statement is a sequence of tokens, with a blank between two tokens unless a `Line` token
stands there.  That is what the code's cuts tell apart: it looks for a word with a blank
on either side (`First`), trims, and counts parentheses; a name is what the regular
expression matches.  `ParseSelect` ... `ParseDelete` are the four parsers, with their
errors and, where a slice's end comes before its beginning, `Panic` (the HTTP server
recovers from it, the prompt does not).  `TranslateSelect` reassembles the statement from
the parser's parts and from the trailing clauses it cuts out of the text a second time.

`QueryPath` runs them as `Engine.Query` does: `Receive` (the endpoint's or the prompt's own
look at the first word, and Parse), `Validate`, `TranslateStep`, `Run`, each with the schema
of that moment (`seen`: the table's schemas since the request began; `since`: those since it
was translated), while `CreateSchema`, `CreateDuckDBTable`, `DropDuckDBTable` and
`DropSchema` go on.  `Accepts` is what DuckDB needs to run a statement: that the table is
there and has the columns named.

`Meaning` is the reference definition: what the statement says when it is read as SQL with
`Group.Column` names.  It does not cut text at words but counts parentheses: the select list ends
at the first FROM outside them (`ListEnd`), a name or `Group.*` that is a column of that list by
itself (`Alone`) stands for columns of the schema, any other reference for its flat name, and
everything else for itself.  Line breaks do not matter (`OneLine`).  `Plain` names the statements
the two cuts of the code are right about, as conditions on the statement's tokens alone;
`Supported` the plain statements whose columns the schema has, which are to be answered;
`Filled` leaves out schemas with a group without columns.

What these definitions say of statements that are not `Plain` or not `Supported`, all with the
code as it is:

* after UNION everything is lost, unless a trailing clause is found before it;
* aliases (`AS`) are dropped from the select list;
* `Group.Column` inside a string literal is rewritten;
* a WHERE that comes only after a trailing clause (in a nested query) is run twice: as the
  statement's own WHERE and in the trailing text, and so is a trailing clause that follows a
  WHERE at once;
* the list ends at the first FROM, so a name or `Group.*` after a subquery in the list is passed to
  DuckDB as it is;
* a column without a group that begins with `_`, be it a name or a text (`_row_id || 'a'`), is not
  looked up but passed on as it is; any other that is an expression without
  parentheses (`a + b`) is looked up as a name, and refused;
* empty columns (`a,,b`) are dropped, and so is the column that `Group.*` is for a group without
  columns;
* FROM, WHERE and the trailing words with a line break next to them are not found:
  statements over several lines, as `pkg/api/API.md` (lines 544-547) and `README.md` (838)
  show them, are refused with "missing FROM clause";
* `SELECT FROM T`, `UPDATE SET ...` and `INSERT INTO T )(` panic (`parser.go` 94, 294, 260);
* two columns with one flat name (`A_B.x` and `A.B_x`) make CREATE TABLE fail after the
  schema file has been written.

### TokenClient and the code

| TLA+ | code |
|---|---|
| `accessToken`, `refreshToken` | the client's cache, under `tokenMu` (Go) or the token manager's lock (Python); the expiry is the access token's |
| `authLock` | Python's `_auth_lock` |
| `cpc[p]`, `call[p]`, `body[p]`, `retry[p]`, `held[p]`, `got[p]` | a thread: its step, what it was called for, the tokens a logout names, whether a 401 made it fetch tokens, the refresh token it posts, the pair it was sent |
| `EnsureValidToken`, `AuthLock` | ensureValidToken; Python looks again under the lock |
| `RefreshTokens`, `PostRefresh`, `RefreshRefused`, `Refreshed` | RefreshTokens / `_refresh_tokens`: read the cache, post, fall back to Login (or, in Python after a 401, raise) |
| `LoggedIn`, `StoreTokens` | Login and the caching of what it or a refresh returned |
| `Send`, `Unauthorized`, `Answered` | doRequest: the token is read again, the request sent; on 401 tokens are fetched and the request begins again |
| `Logout`; `LogoutReads`, `LogoutClears` | Go's Logout, which then posts as any request; Python's, which reads, clears, and posts without Authorization, is answered 401 and ignores it |
| `RequestFails`, `Orphaned`, `Restart` | no answer (the server may go on), the server dies |
| `Serves`, `Background` | the server's own steps, cleanups and time |

Thread `p`'s request is served by goroutine `p` of `AuthManager`.  So a thread whose request
failed does not send its next one before the handler of the failed one is done, for which
`client.go` 563 would not wait; that requests meet such a handler is left to the other threads.
After a 401 `doRequest` calls itself without a limit, in the model as in the code; "retry once"
(`client.go` 574) is what the comment says.  `quit` and `loggedOut`
remember the tokens of logouts, `failed` that a request failed; they influence no step.

## 3. Runs

| run | module, cfg | checks | shows |
|---|---|---|---|
| `rows` (pass) | `MCRowTable`, `RowTable.cfg` | `TypeOK`, `Agreement`, `ReadCommitted`, `ImplementsRowTable`, `Answered` | Two goroutines on a listed and a hidden row of two groups of two columns, every kind of request, cancellation and a death: the two copies agree on every row that is not excused, DuckDB shows only complete versions of a group, DualStore is RowTable, in which a request that meets no other changes its row in one step or not at all, and every request is answered. |
| `bulk` (pass) | `MCDualStore`, `DualStore_bulk.cfg` | `Agreement`, `ReadCommitted` | LoadTable, SyncTable and LoadTableIncremental over two rows, against inserts, updates, deletes, DML and each other, with cancellation, read errors that the code swallows and the death of the process between any two steps, with torn files and an empty DuckDB after it: a load or a sync that had the table to itself repairs what earlier requests or the death left apart. |
| `ratelimit` (pass) | `MCRateLimiter`, `RateLimiter.cfg` | `TypeOK`, `NeverTooMany`, `KeepsTheWindow`, `ImplementsSlidingWindow` | A client's general limit and its login limit in one map, with windows 1 and 3 and sweeps at any time: every request is answered as the sliding window over the whole history answers it. |
| `auth` (pass) | `MCAuthManager`, `AuthManager.cfg` | `TypeOK`, `RevokedStaysRevoked`, `SpentTokensDead` | Two goroutines with requests, refreshes and logouts, over expiry, the regular and the emergency cleanup of a list of three, and a restart with an ephemeral key: a request that begins after its token was revoked is refused unless an emergency dropped the entry, and an exchanged refresh token stays useless. |
| `catalog` (pass) | `TableCatalog`, `TableCatalog.cfg` | `TypeOK`, `CacheIsOnDisk`, `CatalogAgrees`, `ImplementsSchemaStore`, `Returns` | Two goroutines create, drop, load and insert into one table, with cancellation, I/O errors and deaths between any two steps, over a DuckDB file that survives: the cached schema is the one on disk, what did not meet, fail or die leaves disk and DuckDB in step, cache, lock and files together are one entry that each operation makes, removes or looks up in one step, and every operation returns, with the lock released on each path. |
| `indexer` (pass) | `MCIndexer`, `Indexer.cfg` | `TypeOK`, `LoadedIsCurrent`, `OnlyIfNecessary` | Two programs over one data directory, one with its DuckDB in a file and one in memory, load at start-up while both write rows and the scripts add and remove them, and either stops at any step: what a successful load leaves is current except for what the metadata cannot show, and nothing is rebuilt without a cause. |
| `client` (pass) | `MCTokenClient`, `TokenClient.cfg` | `TypeOK`, `LogoutRevokes`, `CachedRefreshUnspent`, `RefreshesInTurn`, `CallsReturn` | The Go or the Python client shared by two threads, against the server of AuthManager with cleanups, and a tick, a restart or a failed request; access tokens live for one unit and refresh tokens for two, so that threads race to exchange a live refresh token: a Go logout that returns has revoked what was cached, threads that refresh at once leave no spent refresh token behind, Python's lock keeps a refresh token from being posted twice, and every call returns. |
| `query` (pass) | `MCQueryPath`, `QueryPath.cfg` | `TypeOK`, `TranslatesPlain`, `AnswersAsAsked`, `PlainIsAnswered` | More than four hundred statements, from plain SELECTs to nested ones, UNIONs, literals and broken ones, through the two endpoints and the prompt, over four schemas that are dropped and made again meanwhile: Translate of a plain statement is what the statement says; what is answered is so for one schema the table had since Translate and, unless a table was made since, on that schema's table; and a plain statement whose schema has its columns is answered. |
| `sync` (violation) | `MCDualStore`, `DualStore_sync.cfg` | `Synchronized` | One client, no failures: a row with an id that begins with _ is inserted into both copies, and the next SyncTable removes it from DuckDB and answers success. |
| `catalog_drop` (violation) | `TableCatalog`, `TableCatalog_drop.cfg` | `DropRemovesAll` | An InsertRow or a load that meets a DropTable puts a row's directory or the DuckDB table back; the drop has answered success. |
| `index_kept` (violation) | `MCIndexer`, `Indexer_kept.cfg` | `KeptIsCurrent` | One program with a DuckDB file: SmartLoad answers that the copy was already current although a row's file was rewritten in place, or changed between the load and the hash, since it was copied. |
| `client_logout` (violation) | `MCTokenClient`, `TokenClient_logout.cfg` | `LogoutEndsSession` | One Go client, no failures: Logout empties the cache, logs in again to be able to post, and returns with a fresh refresh token in the cache that the server accepts. |

Bounds.  Two goroutines are enough for every pairwise interleaving, and three requests
for a repair after an overlap or a death (`bulk`).  Two groups are enough for a
row to be partly written, two rows for a loop to meet a row in two states.  In `rows`
the requests on the listed row cover every kind, with two columns, of which updates name one;
the hidden row is there from the start or is inserted, and meets every load and sync.  Two requests
make every pair of kinds meet, or follow each other; it has no swallowed reads, with which
`GroupAfter` allows an update to lose columns and `Misread` a row to become unknown: `bulk` has
them for the copies, the theorems for both.  `bulk` leaves out UpdateColumnGroup, which
for a loop is a file write like an update's; one of its rows is updated and deleted, the other
inserted, or written in DuckDB alone.
`sync` needs no second goroutine: a row is inserted, and a sync follows.
In `catalog`, five operations make a create, a drop, a second create and two that meet
them; two schemas are enough for a table to have another's columns, one row for a
directory not to be empty.  It keeps DuckDB in a file; the theorems cover the
in-memory one.  `auth` has two pairs: one to exchange and one made from it, or two
logins; ticks and restarts share one bound of two, which runs the clock past both kinds
of expiry and past the age at which a cleanup drops an entry; a list of three entries
makes emergencies happen.  Units of expiry of more than one tick are the theorems' alone.
`indexer` has three changes, two starts and a failure: a row made, written and rewritten,
or two rows that come and go, with a load before and a load after; its two programs
differ in where their DuckDB is, so they are not symmetric; the violation run has one program,
four changes and a third start instead.  `client` has two calls (two threads at once, or
one after another) with as many refreshes and retries as they take, and one
tick, restart or failure; access tokens live for one unit, so one expires, or is about to, in every
behaviour that ticks, and Python's client, whose comparison is `>=`, refreshes at every
request; refresh tokens live for two, so that after a tick both of Go's threads find the access token
about to expire and post one live refresh token, and the loser logs in.  `query` has two changes of the table (a drop and a create) and one request at a time;
its statements are every combination of twelve select lists (calls, subqueries, `Group.*`, an
alias, an empty column and two expressions among them), four WHERE clauses, four trailing clauses
and a UNION or none, and the malformed ones named above; of its four schemas one has a name in
two groups, one two columns with one flat name, one a group without columns.  103 of
the 415 statements are plain, all but fourteen of these supported by some schema.
Symmetry, where a
run uses it, is over the goroutines, which the specifications never distinguish; the
runs with liveness properties use none.
`CHECK_DEADLOCK FALSE` in the runs of `DualStore`,
`TableCatalog`, `AuthManager`, `Indexer`, `TokenClient` and `QueryPath`: the bounds on
requests, on changes, on time and on ids end behaviours.  The rate limiter's run checks deadlock: the sweep is always
possible.

Fairness.  `Fairness` of `DualStore` is `WF` of each goroutine's own steps: the Go
scheduler runs every runnable goroutine, `Engine.mu` is held for one statement at a
time and no step waits for another request.  `FairSpec` of `TableCatalog` is `SF`: its
steps wait for `Manager.mu`, and a Go mutex hands itself to a waiter that has
starved for a millisecond, so a goroutine that finds it free again and again gets it.
`Spec` of `TokenClient` is weakly fair only to all threads' steps together (`of the threads and
goroutines that can go on, some do`): the least a scheduler does.  `CallsReturn` holds under it
because calls, time and faults are bounded: a thread that never ran would be alone
in the end.  Starting a request, cancelling it, failing and dying are not fair: clients need not send, and
nothing need fail.

### What the violation runs show

The `violation` runs quote a comment and show a behaviour in which the code does
otherwise:

* `sync`: a row whose id begins with `_` is inserted into both copies, and a SyncTable that meets
  nobody takes it out of DuckDB, since ListDirs never lists it; a LoadTable does the same;
* `catalog_drop`: a load or an insert puts back what a DropTable removes: in the shortest trace a
  load that has read the schema creates the DuckDB table again while the drop removes the files;
* `index_kept`: SmartLoad answers "already current" of a copy that is not: a row's file was
  rewritten in place, which its directory's time does not show, or while the load ran,
  before the hash was taken;
* `client_logout`: after Logout the Go client holds a live session.  Logout empties the
  cache before it posts, so posting logs in again, and the refresh token of that login is
  neither named in the request nor revoked.  Python's logout, which posts without a token, is answered 401 and
  revokes nothing (`dbclient.py` 700-718, "Logout and revoke tokens").

All happen without a failure or a crash.  `Overlooked`, `mess`, `late`, `inplace` and `askew` are
what `Agreement`, `CatalogAgrees` and `LoadedIsCurrent` excuse because of them; `LogoutRevokes` is what
remains true of logouts in Go.

The history variables of the other modules excuse behaviours of the same sort, which no
run of its own shows: two refreshes of a row from different requests whose statements
cross, so that DuckDB lacks one update or one request fails on the primary key
(`loader.go` 118-132); two updates of one group that both read before either writes, so that a
column is lost (`assembler.go` 176); a deleted row that a concurrent refresh puts back; a
SyncTable that meets a row inserted since its listing; a refresh token exchanged twice by
two calls that both validate it before either revokes it (`auth.go` 311 and 321); an
emergency cleanup that drops the newest entries, since a Go map has no order (`auth.go`
355); a DuckDB table left behind by a load between DropTable's two halves, whose columns
CREATE TABLE IF NOT EXISTS keeps for the next schema of that name.

## 4. Proofs

`DualStoreProofs` proves, for every number of goroutines, rows, groups and values,
any set of requests and any faults (assumptions: `HiddenAssumption`, `GroupsAssumption`,
`RequestsAssumption`, `SeedAssumption`, `NullsAssumption`, `BoundsAssumption`):

* `TypeCorrect`: `Spec => []TypeOK`, by `TypeInv == TypeOK /\ Flow /\ Cursor`.  `Flow`
  says which steps belong to which requests, `Cursor` what row and group a goroutine
  works on.  The types alone are not inductive: `WriteFile` indexes `disk[r]`, which
  must be a directory, and it is because a linked handle means that the file exists.
* `DuckDBReadsCommitted`: `Spec => []ReadCommitted`, by `Provenance`: what a goroutine
  has read (`Sources`) and what the disk holds (`OnDiskEver`) are versions that were
  written as a whole, so what it inserts is too.
* `CopiesAgree`: `Spec => []Agreement`, by `Safe == Sharing /\ Progress /\ Agreement`.
  `Sharing` says that two requests on a row are never both alone on it and that the row is
  then tainted; `Progress` says what a goroutine that is alone on a row has achieved
  at each of its steps (the files it has read are still the files; the rows a load has
  passed agree).  `Agreement` at the end of a request is `Progress` at its last step.

`RowTableProofs` proves, from the same assumptions and `TableAssumption` (`Unknown` is no row):

* `EngineIsRowTable`: `HSpec => ImplementsRowTable`, by `HistoryInv` (module `DualStoreTable`) on top
  of `TypeInv` and `Safe`.  `Unclaimed` says that a row without a request is in the files as
  `before` has it.  `WriteInv` says how far a request that has its row for itself has
  come: the groups still to do are as before, those done are as `RowTable` wants them, and the one
  in hand will be; so the whole row is what `Answer` asks for when the loop ends, and no one-file
  step shows.  An answered request with a row to itself that was `Unknown` makes it known
  because `Safe` says that the copies agree again.

`RateLimiterProofs` proves, for every set of keys, limits and windows none longer than the
sweep's (`KeysAssumption`, `CleanupAssumption`, `BoundsAssumption`):

* `LimiterTypes`: `Spec => []TypeOK`;
* `WindowKept`: `Spec => []KeepsTheWindow`, inductive with the types;
* `LimiterImplementsWindow`: `Spec => ImplementsSlidingWindow`: with the window kept,
  the times `Allow` counts are the requests that passed within the window, so each step
  is a step of `SlidingWindow` or a stutter;
* `NeverOverLimit`: `Spec => []NeverTooMany`: adding one request to a period that
  has room keeps the bound, and a later period holds no more of the old ones.

`TableCatalogProofs` proves, for every number of goroutines, schemas, rows and operations and any
faults (`CatalogNulls`, `CatalogParameters`):

* `CatalogTypes`: `Spec => []TypeOK`, by `TypeInv == TypeOK /\ Flow`; `TypeOK` says that `mu` is held
  by exactly the goroutine at a locked step;
* `CacheFaithful`: `Spec => []CacheIsOnDisk`, by `Cached`: whoever is at a locked step that
  changes the file has found or made the cache empty;
* `DiskAndDuckDBAgree`: `Spec => []CatalogAgrees`, by `Tidy == Sharing /\ Achieved /\ CatalogAgrees`:
  an operation that has met no other is the only one at work, and at each of its steps it has
  achieved what `DroppingAt` (from any mess) or `BuildingAt` (from none) says;
* `ManagerIsSchemaStore`: `Spec => ImplementsSchemaStore`, by `StoreInv`: with `Cached` a hit in the
  cache is the entry, `Writing` says what the one creator under `mu` knows of the file (none yet,
  then the one it has truncated), so that the entry stays `Absent` until the write is done,
  and `IdleHasNone` that a goroutine without an operation has no schema.  Each step of
  `TableCatalog` is then a step of `SchemaStore` (`StoreStep` for a goroutine's own, by
  operation and step; `Cancel` is `Stop`, `Crash` is `Die`) or a stutter.

`AuthManagerProofs` proves, for every number of goroutines, any durations, keys and bounds
(`DurationAssumption`, `ListAssumption`, `AuthBoundsAssumption`):

* `AuthTypes`: `Spec => []TypeOK`, with `Flow`;
* `RevocationHolds`: `AccessDuration =< RefreshDuration /\ Spec => []RevokedStaysRevoked`, by
  `Lifetimes` (no token outlives an entry made now) and `Revocation` (a revoked token is
  listed, forgotten or invalid; a late goroutine's token is invalid);
* `SpentIsDead`: `SpentTokensDead` under the same hypothesis.

The hypothesis is needed: the cleanup measures every entry by the refresh duration, and a
configuration with longer-lived access tokens would let a revoked one back in.  The
defaults, 15 minutes and 24 hours, satisfy it.

`IndexerProofs` proves, for every number of programs, rows, columns, changes, starts and
faults (`RowsAssumption`, `EnginesAssumption`, `IndexBoundsAssumption`, `NoneAssumption`):

* `IndexerTypes`: `Spec => []TypeOK`;
* `CopyIsCurrent`: `Spec => []LoadedIsCurrent`, by `IInv` (module `IndexerInv`).  While a load
  runs, `LoadInv` says that the rows nobody else changes are copied or still to do.  Between
  loads, `DescribesInv` says what the metadata prove: a recorded row whose time is still the
  recorded one is in the copy, unless rewritten in place; it needs `HashesPast` (no hash
  holds a time that is still to come, or a later change could match it by accident).
  `PartialInv` is the same for a copy a stopped load left half made: it holds nothing that is
  not recorded, so that equal counts mean an equal set (`SameCount`, `KeptCopy`, by the
  cardinality of finite sets), which is why comparing counts is enough to find it;
* `NeverNeedlessly`: `Spec => OnlyIfNecessary`, by `UntouchedInv`: while nothing has changed, the saved
  metadata (`Fits`) have the schema, the hash and the number of rows that the check will find, each
  time it looks, and the schema cache is empty or right; the same of the metadata a load is about to
  save, so that a load that nobody disturbs leaves metadata that fit.

`TokenClientProofs` proves, for every number of threads, either client, any thresholds, durations
and bounds (`LangsAssumption`, `ServerAssumption`, `NoTokenAssumption`):

* `ServerIsAuthManager`: `Spec => AuthFacts!Spec`, where `AuthFacts` is `AuthManagerProofs` with the
  threads as its goroutines: every step of client and server is a step of `AuthManager` or
  leaves its variables alone, so its theorems hold of the composition;
* `ClientTypes`: `Spec => []TypeOK`, by `ClientInv` (the cache holds a pair or nothing, a thread
  that posts, sends or stores has what it needs) with the server's types;
* `LogoutHolds`: `AccessDuration =< RefreshDuration` implies `Spec => []LogoutRevokes`, by `LogoutInv`:
  of a logout that is under way each token it took from the cache is named in the request,
  left to revoke at the server, or dead; it rests on `AuthManagerProofs` for dead tokens
  staying dead over cleanups and restarts;
* `CacheStaysUsable`: `Spec => []CachedRefreshUnspent`, by `Fresh`: the pair a thread is about to store
  is new to everybody (no cache, no thread, no handler and no earlier exchange has its tokens, nor
  another thread's pair), so a store always puts an unspent token into the cache, and an
  exchange spends the cached one only for a thread that waits for the answer (`NoOrphans`);
* `RefreshesSerialized`: `Spec => []RefreshesInTurn`, by `LockInv`: in Python whoever is between the
  check and the store has the lock.  Both are one invariant, `RefreshInv`.

`QueryPathProofs` proves, for every set of schemas, any set of statements (sequences of tokens that begin with a
word; a word or a name is all its token says) and any number of changes (`QueryAssumption`):

* `QueryTypes`: `Spec => []TypeOK`, with `Flow`.  What is not about types in it, where the parser's slices
  go wrong, rests on `FirstFinds`: `First` returns the position of a word it looks for.  That a set of
  positions has a first one is `Least`, from the well-foundedness of `<`;
* `TranslatorIsRight`: for every statement and schema, `TranslatedRight`: if the statement is plain, what
  Parse and Translate make of it is its `Meaning`, and if it is supported none of Parse, ValidateQuery and
  Translate refuses it.  It is about the operators of `SqlText` alone; see below;
* `PlainTranslated`: `Spec => []TranslatesPlain`: so it is of the statement of every request;
* `AnswersMeant`: `Spec => AnswersAsAsked`, by `AnswerInv`: what DuckDB is given is what `Translate` makes
  of the statement for one of the schemas in `since`, of which the table has one if it has any
  (`FromOneSchema`), although `ValidateQuery` and `Translate` read the schema one after the other; and
  DuckDB has the table only with the columns of the schema of that moment (`Standing`);
* `PlainAnswered`: `Spec => []PlainIsAnswered`: a table whose `seen` is one schema has not been touched
  (`Witnessed`: a drop or a create under way leaves `Absent` in it), so
  validation, translation and DuckDB meet the same one (`NotRefused`), and a supported statement
  passes them.

The argument of `TranslatorIsRight`.  A statement is cut into pieces, one for each token
(`Pieces`): what the token means, and nothing for a line break.  What a part of the statement
means is the pieces of that part, one after the other (`Span`), so it is enough that the parts the code
cuts off lie one after the other and leave none out.

* The clauses: `FromFound` and `FoundAfter` say which position a word's first occurrence is, in the text or
  in the rest of it; `ClausesRead` that WHERE's text and the trailing clauses, which are cut out of
  two different texts, are together what follows the table.
* The list: `SplitReads` is the invariant of splitColumns' loop.  After each token the columns cut
  off so far are, translated and joined with commas, the pieces up to the last comma outside
  parentheses, and the current text is the slice since then; `SplitStep` keeps it, with a case for
  each sort of column (`ColumnReads`).
* `MeaningReads` puts `Meaning` together from the same pieces, `TranslateReads` the translation, and
  `SupportedPasses` goes through what could refuse: each column of a supported list is a call, has its
  group, or has one owner.

Sequences of any length need induction, which the library's theorems cannot give here.  `UpTo` gives it
for a set of numbers instead of a predicate: the set of the lengths for which the claim holds
contains 0 and with each number the next (from the well-foundedness of `<`).  What the loops and the
folds compute is written as recursive functions on those lengths (`Split`), or is given such
equations by lemmas (`FlattenAppend` for `FlattenSeq`).

Leaves that depend on the definition of a `CHOOSE` (`First`, `AccessOf`, `RefreshOf`) are proved by
Zenon: the SMT encoding of this version of TLAPS takes `x = CHOOSE y \in S : P(y)` for any `x` that
satisfies `P`.

Model-checked only: `Answered`, `Returns` and `CallsReturn` (liveness under fairness is out of the
prover's reach), and the violation runs.  Every other property of the runs is a theorem.

## 5. Not modelled

* Python's connection pool (`dbclient.py` 137-211) and cursor, and the transports' reuse of
  connections: in `TokenClient` a request is an exchange, whatever carries it.
* `TableSchema.Validate`, names with blanks or dots, and the meaning of data types.
* Row ids of more than one path component, and table names that begin with `_` or `.`, which
  ListTables and LoadAllSchemas skip as ListRows does rows.
* The server's routes, the order of its middlewares, CORS, exports, health and status.
* `Manager.UpdateSchema`, `Translator.TranslateSQL` and `GetRequiredColumnGroups`, which
  nothing in the program calls; DDL sent to `/execute`, which changes DuckDB's tables behind the
  catalog; two table names at once (no state is shared between names but `mu`).
* Logout bodies that name tokens other than the client's own pair; authentication switched
  off; wrong credentials.
* In `Indexer`: `.load` and `.sync` (module `DualStore`), dropping the table through a running
  program (module `TableCatalog`), rows of more than one file, rows with hidden ids
  (its rows are the ids ListRows lists), changes between listing the rows and reading their
  times, and DML sent to `/execute`, which a DuckDB file keeps.

What could follow: an abstract session store for `AuthManager` to implement; the pool, whose
probe of a connection (`setblocking`, line 177) takes away the timeout on which `CallsReturn` of a Python
client relies.

Left out for good: HTTP framing, TLS, headers and log messages, formatting of results, the
values the scripts generate, the wording of SQL statements beyond what `SqlText` says, and
DuckDB's own execution.
