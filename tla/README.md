# Gród in TLA+

Specifications, model-checking configurations and machine-checked proofs for
the backend of Gród (`backend/src/grod`), a software forge with a small cloud
attached. The modules are written from the code; the paths below are relative
to `backend/src/grod` unless they start with `backend/`.

## 1. The system

One `uvicorn` process answers HTTP and runs two background loops
(`collaboration/queue_worker.py`, `monitoring/watcher.py`) in the same event
loop. State lives in three places that no transaction spans:

* **PostgreSQL**, through async SQLAlchemy. Every request and every tick has a
  session of its own; the isolation level is the default READ COMMITTED, there
  are no version columns, and sessions are made with `expire_on_commit=False`
  (`db.py`). So an object keeps the values it was loaded with across awaits and
  commits, an attribute is written only if it differs from the loaded value, and
  a late write wins.
* **Bare Git repositories** on disk, reached by `git` subprocesses
  (`repositories/git.py`). The only atomic step is a ref update.
* **Valkey**: sessions, one-time codes, counters, message queues. The only
  atomic steps are a command and a MULTI.

Everything hard here comes from that: each `await` is a point where another
request may change what was read, and each gap between two stores is a point
where a restart may fall.

### Components

| Component | State | Operations | Interacts with | What is hard | Correct when |
|---|---|---|---|---|---|
| Merge requests, approvals, merge queue, stacks (`collaboration/`) | `merge_requests`, `approvals`, `required_checks`, `merge_queue` rows; branches; throwaway branches `grod-queue/mr-N` | open, close, reopen, approve, revoke, enter, leave, merge by hand, tick of the queue, restack | Git (build, move a ref), CI (start a run, look at it), pushes | a tick is a chain of awaits over copies of rows; a branch moves before the row says so; two writers of one branch; a step that throws in the middle of a walk | what says merged is in the branch; branches only grow; what landed was tested and looked at; the line moves |
| CI: pipelines, jobs, runners (`ci/`) | `pipelines`, `jobs`, `runners` rows; a job in each machine's hands | start, take, log, finish, settle, cancel, remove a runner | merge queue (start, read the state), pushes | `FOR UPDATE SKIP LOCKED` beside unlocked reads; a verdict computed from old reads; late reports; lost machines; restarts between commit and settlement | one machine per job; stages in order; green is earned; a run ends |
| Message queues (`queues/`) | list, sorted set and two hashes in Valkey per queue; a row | publish, receive, acknowledge, purge, delete | none | each request is a row of Valkey commands; the same message returned twice; read-modify-write of a body; a restart between `rpop` and `zadd` | nothing is lost; nobody gives up early; nothing goes round for ever |
| Git repositories (`repositories/git.py`) | refs, objects, the hook and its rules file | receive-pack, merge, update-ref with an expected old value, commit a file, protect | everything about code | a ref moved by two actors; a rules file rewritten beside a push | a protected branch keeps its history; an answered rule holds |
| Pushes (`repositories/after_push.py`, `git_http.py`, `ssh_server.py`) | tips before and after, pipelines, scans | snapshot, compare, start pipelines, scan | Git, CI, scanning, pages | overlapping pushes see each other's tips | every new tip is acted on |
| Projects (`repositories/service.py`), templates (`templates/`) | rows; repositories; folders of other modules; offerings | create, remove, offer, take | everything | row, repository and folders are made and removed apart | a row has its repository, a removed project leaves none |
| Issues, suggestions (`collaboration/service.py`, `suggestions.py`) | `issues`, `comments` rows; the source branch | open, change, suggest, take a suggestion | Git | numbers given out twice; a line counted in a file that moved | numbers without a gap; a suggestion changes its line only |
| Accounts (`accounts/`) | `users`, `passkeys`; sessions, indexes, attempt counters in Valkey | sign in, second factor, passkeys, sign out everywhere, reset | everything, through the current user | key and index written apart; sign-out beside sign-in; counter beside its expiry | a reset ends what was before it; passwords are not tried for ever |
| OpenID Connect (`accounts/oauth/`) | grants; parked requests, codes and refresh tokens in Valkey | authorise, exchange, rotate, revoke | accounts | rotation beside revocation | a code counts once; a revoked grant gives nothing |
| Credentials (`repositories/tokens.py`, `ssh_keys.py`) | rows | create, remove, use | Git at the door | removed between being read and being used | what was removed opens nothing |
| Permissions (`iam/`) | grants, members, machine identities | grant, revoke, check, remove an identity | resources of one name | grants read one statement at a time | a removed identity does nothing |
| Groups (`community/`) | groups, members, addresses | create, delete, add, remove, change a role | accounts, projects | what was looked at has changed when it is written | one owner at an address, an owner in each group |
| Quotas (`quotas/`) | limits, counts of rows, sizes on disk | ensure room | every create | count and insert are two transactions | a limit is passed by few at most |
| Registry, packages, object storage (`artifacts/`, `storage/`) | blobs, manifests, tags, uploads; rows and files | upload, put, tag, delete | disk, quotas | row and file apart; one staging file for two uploads; a push of many requests | a row has its file, a digest its contents, a tag an image |
| Applications, routing (`apps/`, `routing/`) | rows; containers; ports; routes | create, start, stop, delete, refresh, forward | Docker, Git, quotas | the engine changes under the row for minutes | the row tells the engine; a call reaches its target |
| Workspaces, functions (`workspaces/`, `functions/`) | rows; containers | start, stop, save, sweep, call | Docker, Git | a save beside a push; a sweep beside a start | nobody's work is undone; what lives is not swept |
| Managed databases (`databases/`) | rows; PostgreSQL roles and databases | create, rotate, drop | PostgreSQL | DDL outside the transaction of the row | the password that is shown opens |
| Pages (`pages/`) | a row; three directories per site | configure, publish, remove | Git, pushes | two publications at once, a restart in the middle | a site is one commit |
| Monitoring, errors, scanning | rows and counters | look, report, scan, decide | pushes | counters read and written back; scans that cross | nothing is counted that was not; findings tell the branch |
| API documentation, web console, deployment | - | - | HTTP | - | - |

`PROJECT.json` lists the same components with their status, and under `hazards`
each place where one of the difficulties above bites, with the properties that
cover it or the reason none does.

## 2. The modules

| Module | What it is |
|---|---|
| `MergeQueue` | merge requests, approvals, required checks, the line, the loop, the merge button, pushes, restacking, restarts |
| `MergeQueueProofs`, `MergeQueueLineProofs` | theorems about the branches, and about the line |
| `MCMergeQueue` | its small instances |
| `RunLife` | what a CI run promises to whoever waits for it: the abstract specification |
| `Pipelines` | pipelines, jobs, runners, cancels, settlements, restarts; implements `RunLife` |
| `PipelinesProofs` | theorems about it |
| `MCPipelines` | its small instance |
| `MessageQueue` | publish, receive, acknowledge, purge, Valkey command by command |
| `MessageQueueProofs` | theorems about it |
| `MCProgress` | small instances of `MessageQueue`, `MergeQueue` and `Pipelines` for what has to happen in the end |
| `Accounts`, `OAuth`, `Credentials`, `Grants` | what lets somebody in |
| `Quotas`, `Packages`, `Objects`, `Registry` | what is stored for them |
| `Errors`, `FunctionCalls`, `Monitoring`, `Databases` | what runs for them |
| `Services` | the composition of these twelve, and what is assumed of their constants |
| `AccessProofs`, `StorageProofs`, `ServicesProofs` | theorems about what lets somebody in, about what is stored, and about the rest and the composition |
| `MCServices` | a small instance of `Services` |
| `Groups`, `Projects`, `Templates`, `Pushes`, `Issues`, `Suggestions`, `Scanning`, `Pages` | what stands around the repositories |
| `Apps`, `Routing`, `Workspaces` | containers beside rows |
| `Forge` | the composition of these eleven, and what is assumed of their constants |
| `ForgeProofs` | theorems about each of them and about the composition |
| `MCForge` | a small instance of `Forge` |

`MergeQueue` waits for runs and `Pipelines` carries them out. They meet in
`RunLife`: `Pipelines` is checked and proved to implement it (`LivesAsPromised`),
and the actions `RecordTesting`, `RunReports`, `RunCanceled` and `RunStops` of
`MergeQueue` are its four steps, so the queue is checked against every run the
CI component can produce, including one that is written down as canceled and
turns green because a report came late. `Objects` extends `Packages`, whose
steps on row, staging file and place it shares, and `Routing` extends `Apps`,
whose containers its calls reach.

The modules share one way of speaking. A request is a record: where it stands
(`at`) and what it has read. An action is what the code does from one await to
the next; its name is that of the handler, function or command it stands for
wherever that is possible, and `PROJECT.json` gives the lines. A session that
commits writes only the columns that differ from what it read, so the commits
are written with the row as read and the row as it is now. Variables marked
*history* are read by properties only. A restart drops every request and keeps
rows, files, keys and containers.

### MergeQueue

A commit is the set of changes it contains; a new commit has a number no other
has. Two commits are equal exactly when the sets are, and an ancestor is a
subset, which is all the code ever asks Git (`merge_preview`, `update-ref` with
an old value, the pre-receive hook's `merge-base --is-ancestor`).

| State | Code |
|---|---|
| `tip`, `temp` | `refs/heads/*`, the throwaway branches |
| `state`, `target`, `landed` | columns of `merge_requests` |
| `yes`, `checks` | `approvals`, `required_checks` |
| `entry` | `merge_queue` rows in `created_at` order; a row's `run` is the state of the pipeline it names |
| `pc`, `todo`, `snap`, `cur`, `wTarget`, `wBase`, `wCommit` | `advance` and `_step`: where the loop stands, the entries it loaded, and their states as the session loaded them |
| `hpc`, `hReq`, ... | one direct merge per account, between its awaits |
| `closing`, `reopening`, `entering`, `leaving` | handlers that have read and not yet written; one that enters the line also has its place |
| `into`, `said`, `green`, `overtaken` | history, read by properties only |

The loop's actions follow `_step`: `Advance` reads the heads of all lines in one
query; `Step` loads the request and weighs the approvals; then `Build`,
`StartPipeline`, `RecordTesting` for a waiting entry or `LookAtTheRun` for one
under test; `MoveTarget` is the compare-and-swap of the branch, `CommitMerged`
the transaction, `Tidy` the throwaway branch and `restack`. `WrittenState` is
the ORM's rule that an unchanged attribute is not written, which is what lets an
entry somebody left come back or stay out, depending on what the loop had
loaded. `Stumble` is an exception: the rollback expires the rows still to be
walked and the next access ends the tick.

A row of the line is dated by `func.now()` (`db.py:29`), which is the start of
the transaction that inserts it and not its commit. So `EnterReads` takes a place
nobody has, in any order, and `EnterWrites` commits the row later or never: a
request may come to stand before one that is under test already. The history
`overtaken` keeps such pairs until the one that was passed has left the test.

### Pipelines

| State | Code |
|---|---|
| `pstate`, `jstate`, `owner`, `registered` | `pipelines.state`, `jobs.state`, `jobs.runner_id`, rows of `runners` |
| `pc`, `job` | where a runner's machine (`runner_cli.py`) and its request stand |
| `locked`, `saw` | rows locked by `take_next_job`, pipeline states it read |
| `verdict`, `victims` | what `_settle_pipeline` made of the jobs it read |
| `canceling`, `unfinished`, `cancelSaw` | a `cancel` between its reads and its commit |
| `passed`, `lost` | history |

`TakeReads`/`TakeWrites` are the two halves of `take_next_job`; `Report` commits
the job (`finish_job`); `SettleReads`/`SettleWrites` are `_settle_pipeline`.
`CancelReads`/`CancelWrites` are `cancel`. A handler that updates a row another
handler has locked waits.

### MessageQueue

Variables are the four Valkey keys of a queue, and for each client where its
call stands, the message it is at, the record it read, the receipts it will
answer with and those it holds. `overdue` stands for the scores of the sorted
set: `TimePasses` moves a deadline into the past at any moment, so every length
of the visibility timeout is covered. Receipts are numbered per message, so no
two are equal, as with `secrets.token_urlsafe`.

### The services

| Module | State and code | Steps the code takes apart |
|---|---|---|
| `Accounts` | `password`, `factor`, `passkeys`: rows; `key`: every short-lived token in Valkey (session, half sign-in, challenge, reset link); `index`: `accounts:user-sessions`; `attempts`: count and whether it expires | the limit is read, the password verified, the failure counted and the window started in four; a session is a MULTI, but its removal is a read, a `DEL` and an `SREM`; a reset commits the password, then lists, then deletes one by one |
| `OAuth` | `grants`: rows; `kept`: parked requests, codes and refresh tokens; `listed`: the index of a grant | consent finds the row, inserts or widens it, then saves the code; rotation is `GETDEL`, `SREM`, look at the grant, save; revocation deletes the row, lists, drops, forgets the list |
| `Credentials` | `token`, `key`: rows | found, checked, marked as used with a commit, access looked up, then Git runs |
| `Grants` | `grants`, `crew`, `machines`: rows per resource of one name | a call is let in, reads its reach, tries the rows of the name one by one and does its work, each a step; a grant looks for its row and writes it; a removal deletes the grants and then the identity |
| `Quotas` | `things`, `bytes`: what the rows add up to | weighed in one transaction, inserted in another; bytes may be more than announced |
| `Packages`, `Objects` | `rows`, `reserved` (flushed and not committed), `file` and `part` per row id, `inode` | find or flush the row, open `.part`, write it piece by piece, rename, commit what differs from the row as it was read; a deletion commits first and unlinks then; a bucket's folder goes after its rows |
| `Registry` | `staged`, `blobFile`: files; `blobRows`, `manifest`, `tag`: rows | an upload is appended to, weighed, digested and renamed; a manifest looks for its blobs, is kept, and only then tagged |
| `Errors` | `issues`: rows, with `count` and what was really kept | read or insert the issue, flush, add one to what was read, commit |
| `FunctionCalls` | `functions`: rows | the row is read, the container runs, the counters are written back |
| `Monitoring` | `checks`, `results`; `list`: what the tick loaded | the look is committed, the results counted, the old ones removed |
| `Databases` | `record`; `role`, `holds`: the server | role and database made by committed statements, then the record; a rotation the same; a removal drops and then forgets |

### Around the repositories

| Module | State and code | Steps the code takes apart |
|---|---|---|
| `Groups` | `handle`, `groups`, `members`, `held`, `project_members`: rows | who asks, who is a member, who else is an owner, whether the address is free or a project is there, and the write |
| `Projects` | `row`, `repo`, `files` | the row is committed, the repository made, guarded; a removal sweeps the folders, commits, deletes the repository; pushes and uploads in between |
| `Templates` | `offering`; `source`: the project it names; `made`: per taker | the offering is read, the project made, the branch copied over, the count written back |
| `Pushes` | `tip`, `parents`; `rules` (rows) and `hook` (its file); `told`, `looked` | tips before, the hook reads its file, Git moves the ref, tips after, pipelines, scan; a rule is a row, a list and a file |
| `Issues` | `issues`: rows | the next number is read and inserted; a change writes the columns that differ |
| `Suggestions` | `commits`: the file at each; `comments` | the comment, the tip, the file, the commit with an expected parent |
| `Scanning` | `tree`, `twice`: what the tip holds; `findings` | the tree is read, then the findings, then one commit that may be refused whole |
| `Pages` | `site`, `enabled`; `dir`: `new`, `live`, `old` | clear, unpack file by file, three renames or removals, the row; a removal deletes its row first, then file by file |
| `Apps` | `app`: rows; `engine`: containers by name | remove by name, run, note; refresh reads the engine into the row |
| `Routing` | `route`; `hop`: calls under way | resolve to a port, wait for the body, dial |
| `Workspaces` | `space`: rows; `box`: containers; `history`: the branch | remove, resolve, run idle, copy in, start, note; a save copies out, compares with the commit of the row, commits; archives carry neither `Links` out nor `Unexported` in; the sweep lists, looks up, removes |

### How they are composed

The components of one run share no state, so nothing is learned from moving two
of them at once. `Services` and `Forge` therefore let the initial state choose
one of them (`scene`), and a behaviour is that component's own: each component
is an `INSTANCE` with named variables of its own, and the variables of those that
are not looked at are `None` for good. Both are stated for any constants that
meet `ServicesAssumption` and `ForgeAssumption`; `MCServices` and `MCForge` only
give values. `MCProgress` does the same for its three. A
property of a component is stated for its scene, and some join two that say the
same of neighbouring components (`RemovedOpensNothing` of credentials and machine
identities, `CountersAreHonest` of errors, functions and monitoring,
`RowTellsEngine` of applications and routes).

## 3. The runs

### Passing

| Run | Instance | Shows |
|---|---|---|
| `mq_core` | 2 requests side by side on one target, 2 places ever taken, 2 upsets; both are opened first, and rows are committed in any order before the first upset (`FewUpsets`) | `MergedIsContained`, `OnePlacePerRequest`, `LandedWasTested`, `TestingIsHead`, `ProtectedOnlyGrow` |
| `mq_reviews` | 1 request, author and owner, 1 approval required, a check that comes and goes, a pipeline file present, absent or broken; 2 upsets | `TypeOK`, `NobodyMergesAlone` |
| `ci_races` | 2 runners of different reach, a pipeline of 2 + 1 jobs in two stages and one of a single job, 2 upsets | `TypeOK`, `OneRunnerPerJob`, `StagesInOrder`, `NothingWaitsWhenFinished`, `GreenWasEarned`, and the refinement `LivesAsPromised` |
| `progress` | a message, 2 clients, 2 attempts and 2 purges or restarts; two requests, the second stacked on the first, 1 upset; pipelines of 1 + 1 and of 1 job with 2 runners, 1 upset; all fair | `Somewhere`, `EveryMessageEnds`, `LineDrains`, `RunsEnd` |
| `services` | accounts, OpenID, permissions, registry, quotas, databases with 2 requests; credentials, objects and packages, errors, functions with 3; monitoring with the loop and a person | `ResetSignsOut`, `AttemptsAreBounded`, `ChainHasOneToken`, `RevokedIsDropped`, `RemovedOpensNothing`, `RowsHaveFiles`, `DigestTellsContents`, `TaggedImagesPull`, `PassedByFewOnly`, `CountersAreHonest`, `PasswordOpens` |
| `forge` | groups, pages, applications, workspaces, pushes, templates, issues, suggestions, scanning with 2 requests; projects with 3; routing with an application request and a call; in the scene of workspaces a commit may hold a regular file, a link and a file git leaves out of archives, and what happens is bounded together (`FewThings`) | `AddressesAndProjectsAreKept`, `SiteIsWhole`, `RowTellsEngine`, `WorkIsNotUndone`, `SweepSparesTheLiving`, `TipsAreTold`, `AnsweredIsEnforced`, `RowHasRepository`, `FindingsAreKept` |

An *upset* is anything that gets in the way: in `MergeQueue` a push, rewrite or
deletion of a branch, a direct merge, close, reopen, leave, revoke, a change of
the required checks, a cancelled run, a restart; in `Pipelines` a cancel, a dead
or removed runner, a restart; in `MessageQueue` a purge or restart. Bounding
them together, not one by one, keeps all pairs of different upsets.

**What the invariants except.** Where the code has a window it does not close,
an invariant that is true says which one, with a history variable: a sign-in
that is stored before a reset listed the sessions is ended by it, one that a
restart cut the reset off from is not (`cutShort`); a call that was allowed its
work before its machine was removed does it afterwards, and a machine for which a
grant was being written keeps it (`crossed`); a digest may be wrong when
two uploads wrote the file at once (`crossed`), the file was renamed and its row
not committed (`torn`), or the last upload brought the contents the row had told
when it looked, so that its `UPDATE` names no digest, and another had committed
in between (`unwritten`, the trace of `packages_digest`); a site of which a
removal has deleted some files shows the others if it is configured anew before
the next publication (`remains`); a saved workspace may undo work only when two
requests changed that workspace (`tangled`), and links and files that archives
leave out (`Unarchived`) each time; a tip may be
told to nobody when the push that left it put the branch back to the tip it had
compared with (`returned`); who is under test may have somebody before him whose
row was dated before his and committed after the loop had picked him
(`overtaken`); a call may reach another application when both were given their
ports at one time (`together`) or when its own was deleted while it came in, so
that the port it holds went to the next (`deserted`); a scan that nothing crossed
leaves the list as it is when a secret without a row stands on several lines of
a file (`twice`), and a scan that had read a finding before somebody said it is
fine may open it afterwards (`beside`); two requests about one address that
overlap may both have it, or take a project along with its group (`crossed`).
The exceptions are as narrow as the runs allow, and each property has a mutant
that breaks it inside them.

**Why the bounds are enough.** Each hazard in the list is a crossing of the loop
(or a runner, or a call) with one other actor, or of two actors with each other
while the loop is between two awaits. Two upsets give every pair at every pair
of program points. Two requests give a head and one behind it; with two places,
a request that leaves can come back while its old place is still in the loop's
hands. `FewUpsets` keeps `mq_core` within reach: it leaves out requests that are
opened later, which could only be left alone until then, and upsets before a row
that is committed out of order and while somebody is overtaken; that
`TestingIsHead` holds there too is left to its theorem. `FewThings` bounds the
containers, pieces of work and troubles of a workspace together, four in all, and
follows a branch that the merge button moved only beside a protection, for
`TipsAreTold` excepts it.
`progress` has its rows committed in the order of their dates (`CommittedInOrder`),
which nothing that it shows depends on. `Changes` (0..9) is never exhausted by these runs: each new commit takes
the least number nothing refers to. Two job stages with two jobs in the first
give a sibling and a successor of every job. One message is enough because
messages share nothing but the order of the list; two clients, because a third
adds no command that a second call of one of them does not. In the services two
requests give every crossing of two; three are taken where one may undo what a
second relied on while a third looks (an upload, another and a deletion; a
project that is made, removed and pushed to). Two
images' blobs, two pages, two commits or two sizes are the least that can differ.
One restart or failure suffices where nothing is carried from one to the next;
`Databases` has two, because its next request mends what the last broke off.
In the scene of routes there is one application request at a time, so that
`together` stays empty and `CallsReachTheirTarget` is checked there without its
first exception; the second occurs, for an application is deleted, and another
given its port and started, while the call comes in. Two requests at a time are in
the scene of applications.

**Symmetry.** `Two`, `Three` and `Pair` hold model values that are used for
interchangeable things only (requests, uploads, projects, tips, tokens); the
specifications they are used in are checked for invariants only. `MCServices`
permutes all three, and
`MCForge`, whose `Three` adds one value to `Two`, permutes `Two` and `Pair`. What
has an order (sizes, roles, handles, commits of a branch that are numbered) is made
of numbers or strings and not permuted.

Deadlock is not checked: the bounded systems really stop, when no request is
left and nothing more may go wrong, when all runners were removed, or when a
bound of the instance is used up.

### Violated: what the code says of itself and does not keep

| Run | Property | In short |
|---|---|---|
| `mq_approvediswhatisbuilt` | `ApprovedIsWhatIsBuilt` | the merge button weighs approvals, then resolves the branches several awaits later; a push in between is merged unread (`merge_router.py:209`) |
| `mq_leftisout` | `LeftIsOut` | a place given up while the loop holds a copy of it is merged all the same (`merge_queue.py:330`) |
| `mq_othersmoveon` | `OthersMoveOn` | a pipeline file that does not parse ends the tick for every project behind it, each tick (`merge_queue.py:163`) |
| `groups_owner` | `AGroupKeepsAnOwner` | two owners who leave at once each see the other stay; the group has none (`community/groups.py:183`) |
| `packages_digest` | `DownloadsCanBeChecked` | an upload that brings what the row told when it was read writes no digest, and leaves that of an upload that committed in between (`artifacts/service.py:230`) |
| `queue_acknowledged` | `AcknowledgedNeverComesBack` | an acknowledgement between the `hget` and the `hset` of a receive is undone and the message comes back (`queues/service.py:175`) |

Seen while modelling, with the same behaviour in a model but no run of its own:

* `close` and `reopen` write over a merge that committed after they looked
  (`merge_requests.py:205`), so a merged request becomes closed and can be
  opened again; `MergedIsContained` therefore speaks of what the row records
  as merged and not of its state.
* A request repointed by the merge below it, while the queue lands it on the old
  target, names a branch without its commit (`stacks.py:120`).
* The required checks guard the queue and not the merge button
  (`merge_router.py:209`, `merge_queue.py:122`).
* A reopened request keeps its approvals; `forget_stale` (`approvals.py:243`) is
  called by nobody. An approval still counts only on the commit it was given on.
* A push to the source while its merge result is under test stays behind on a
  request that is closed as merged (`merge_queue.py:287`).
* A settlement computed before a cancel commits is written after it, and a
  pipeline is green over a canceled job (`ci/service.py:243`).
* A restart between `rpop` and `zadd` leaves a message in no list
  (`queues/service.py:155`) although its body is kept; `service.py:5` promises
  delivery at least once. `Somewhere` counts these as `dropped`.
* A runner that dies, or a restart between `finish_job` and the settlement,
  leaves a pipeline running for ever; nothing takes the job back. `RunsEnd`
  counts these as `lost`.
* A push that moves a branch back to the tip it read before another push moved it
  finds nothing moved when it compares, so neither pipeline nor scan is told of
  the tip it leaves (`repositories/after_push.py:21`). It takes three pushes: one
  brings a tip, a second moves the branch on before the first compares, and a
  third, which had read the first one's tip, moves it back.
* The merge button tells nobody that the branch moved, so what a merge brings in
  is not scanned (`merge_router.py:222`), although `scanning/service.py:5` says "a
  secret that arrives through a merge is seen".
* One secret on two lines of a file makes two rows of one address; the unique key
  takes the whole scan back, each time (`scanning/service.py:166`).
* A scan opens again what it had read as fixed, over a decision that committed
  meanwhile (`scanning/service.py:153`), although "Somebody who looked and said it
  is fine is not asked again" (`:152`).
* Links, which `read_archive` passes over, and export-ignored files, which
  `git archive` leaves out, look removed to a save, which takes those that others
  committed out of the branch (`workspaces/service.py:275`).
* A restart between `INCR` and `EXPIRE` leaves a count of failures that never ends
  (`accounts/sessions.py:174`).
* A check that is removed while it is looked at breaks the session, and the line
  that reports it reads the broken session: the tick ends for those behind it
  (`monitoring/watcher.py:24`), although "One bad address must never stop the loop
  for the others" (`:23`).
* An account and a group made at once both find their address free; no key spans
  the two tables (`community/groups.py:70`).
* A suggestion replaces whatever stands on its line number when it is taken
  (`suggestions.py:69`), not the line it was written about.
* A template's branch is copied by force over what its taker pushed meanwhile,
  and nothing that follows a push follows the copy (`templates/router.py:210`).
* The retry for the number of an issue or a pipeline touches the project after a
  rollback expired it, outside the greenlet, so the request fails instead of
  taking the next number (`collaboration/service.py:67`, `ci/service.py:87`).
* A counter read and written back loses one of two reports, calls or takings that
  cross (`errors/service.py:132`, `functions/service.py:218`,
  `templates/service.py:113`).
* Two applications that are created at one time may be given one port
  (`apps/service.py:91`).
* A call that came in for an application that was deleted meanwhile is handed to
  whoever has its port by then (`routing/router.py:139`).

## 4. Fairness

* `MergeQueue`: `WF_vars(Loop)`, because `queue_worker.run` sleeps
  `TICK_SECONDS` and starts again whatever happened, and an `await` always comes
  back; and weak fairness of a report for a run that is pending, which assumes a
  runner that is there and ends its job. `RunsEnd` says when that assumption
  holds: no runner and no settlement lost. Nobody is assumed to do anything, so
  `LineDrains` does not depend on people.
* `Pipelines`: a runner polls, its scripts end, and the server answers each
  request (`WF` of `TakeReads`, `TakeWrites`, `Report`, `SettleReads`).
  `SettleWrites` has strong fairness: it waits for row locks that others take
  and release again and again, and PostgreSQL grants a row lock to waiters in
  turn, while `SKIP LOCKED` never waits.
* `MessageQueue`: time passes, a call that was started goes on, and clients keep
  receiving. Nobody has to acknowledge.

`FairScenes` of `MCProgress` asks the same of the module that moves: each
conjunct is one of that module's `Fairness`, guarded by the scene, over that
module's variables. The services state safety only. Their requests may stop
anywhere: a client that goes away, a timeout of the engine or a restart.

## 5. The proofs

`MergeQueueProofs` and `MergeQueueLineProofs` hold for all sets of requests,
branches and projects, any finite set of accounts, all stacks of branches, any
number of approvals, places and upsets, under `ConstantsAssumption`, which only
says that the constants have their types and that there is at least one request,
branch and account. The first module proves:

* `TypeCorrect`: `Spec => []TypeOK`.
* `MergedStaysContained`: `Spec => []MergedIsContained`.
* `ProtectedBranchesOnlyGrow`: `Spec => ProtectedOnlyGrow`.

`MergedIsContained` is not inductive: a branch may be about to be replaced by a
commit the loop has in hand. `Inv` adds what is known about commits in flight.
`BuiltOnBase`: whatever may still be moved onto a branch contains the base it
was built on, in the loop, in a direct merge, and in every row the loop holds or
will hold. With the compare-and-swap, replacing a tip that equals the base can
therefore only add changes, which is `ProtectedBranchesOnlyGrow` itself.
`MovedIsThere`: between the move of the branch and the row, the commit is still
in the branch, because branches only grow; so the row, when it is written, is
true. `WalkedOnce` says that the entry in hand is not also still to be walked,
which keeps the rows `BuiltOnBase` speaks of apart. The step from `Inv` to
`Inv'` is split by conjunct and, below that, by action.

The second module proves, each as `Spec => []...`, `RequestsStandOnce`
(`OnePlacePerRequest`), `FirstIsTested` (`TestingIsHead`), `LandedTested`
(`LandedWasTested`) and `MergesAreLookedAt` (`NobodyMergesAlone`), from one
invariant, `LineInv`:

* `FirstIsServed`: not only what is under test, but whatever the loop has still
  to walk or holds is first of its project's line, among the places in line and
  those the loop may put back. `TestingIsHead` alone is lost when the loop
  brings back a place that left the line meanwhile. Both except the pairs in
  `overtaken`; `PlacesWereTaken` says that no place the loop walks, holds or tests
  is still to be given, so that whoever is put before one of them is such a pair.
* `WaitingHasNoRun`, `SuccessWasGreen` and `LandingIsTested` follow a commit from
  the run that ended well to the row marked merged. The loop reads the state of
  a run once and a cancel may come right after, so what lands is known to have
  been green, not to be green.
* `YesWasSaid` and `LookedAt`: a yes that counts was said by somebody else than
  the author, and once enough people have looked, it stays so while a merge is
  in flight, though approvals may be revoked.

Lemmas say once what each action does to the rows (`EnterEffect`, `RunEffect`,
`BackEffect`, ...); every invariant is then proved from those.

`PipelinesProofs` holds for all pipelines, jobs, stages, runners and bounds,
under `PipelineAssumption`: the constants have their types, every pipeline has a
job, and `None` is none of them.

* `TypeCorrect`, `JobsAreHandedOutOnce` (`OneRunnerPerJob`),
  `StagesKeepTheirOrder` (`StagesInOrder`), `FinishedLeavesNothing`
  (`NothingWaitsWhenFinished`) and `GreenIsEarned` (`GreenWasEarned`), each as
  `Spec => []...`.
* `PipelinesImplementRunLife`: every behaviour of `Spec` is one of the abstract
  life of a run in `RunLife`, a pipeline for a run.

They rest on one inductive invariant, `Inv`. What it adds to the properties, and
why:

* `Locks`: a job locked by a request is still pending and locked by that request
  alone, because whoever wants to write a locked row waits. This is what makes
  two runners asking at once get different jobs.
* `Earned`: a verdict of success was read off jobs that had all been reported as
  successful. By the time it is written one of them may have been canceled, but
  the report stays in `passed`.
* `WaitingIsKnown`: a request that is about to write a pipeline finished has on
  its list every job of it that still waits, and writes it off in the same
  commit. Nobody becomes pending again, so a list read earlier can only be too
  long.
* `FailuresStay`: behind a red verdict, read or written, stands a job that was
  not reported successful and that nobody is at any more (`Flunked`). Requests
  that settle the same pipeline from different reads therefore cannot turn red
  into green or green into red, which is what the refinement needs.

`MessageQueueProofs` holds for any number of messages, consumers, attempts,
purges and restarts. It proves `TypeCorrect` and `NothingIsLost`
(`Somewhere`) from `Inv`: every published message waits, is taken, is held by a
call that has still to put it somewhere, or is over (`Kept`). `Somewhere` counts
every call; the invariant must know which calls are past the point where they put
the message away, because a restart loses what the others hold (`Held`). A body
is gone, or about to be buried, only for a message that is over (`BodyGone`,
`Buried`), which is why a receive may skip it.

### The services and what stands around the repositories

`AccessProofs`, `StorageProofs` and `ServicesProofs` are about `Services`,
`ForgeProofs` about `Forge`. They hold for any constants that meet
`ServicesAssumption` and `ForgeAssumption`, which TLC evaluates in the runs. Those
say that bounds are numbers, that requests which are counted are finitely many at
a time, that the values which stand for nothing (`Nobody`, `NoRow`, `NotYet`,
`NoPort`, ...) are none of the things they stand beside, that access tokens are
not SSH keys nor machines people, that a role is more than none, that the default branch is a branch, an empty
line a line, and that there is a role of owner.

Each component is proved about under its own specification: an inductive
invariant holds at the start (`...Init`), goes through every action (`...Step`),
and implies the property. The last section of each module then says that a
behaviour of the composition is one of the component whose scene it is
(`...Begins`, `...GoesOn`), and each property of the run is a theorem
`Spec => []property`. What the invariants add to the properties, and why:

| Component | Invariant | What has to be known besides the property |
|---|---|---|
| `Accounts`, resets | `ResetInv` | a session is in its account's index from the step that stores it (`Listed`), so every session from before a reset has a reset that will still come to it, in the list it read or is about to read (`Covered`), or is the exception |
| `Accounts`, attempts | `BoundInv` | the count and those who passed the limit and have not counted yet stay below the limit and the callers together (`AttemptsFit`) |
| `OAuth`, chains | `ChainInv` | of one code at most one token is kept or carried by a request (`OneToken`), and none while the code is there (`CodeIsUnspent`) |
| `OAuth`, revocation | `RevokeInv` | a token that no revocation was late for or broken off over is in its grant's index, a revocation that read the index has it on its list, and one older than the last revocation has one still coming to it (`InIndex`); what a refresh takes off an index is gone from the store (`UnlistsGone`) |
| `Credentials` | `CredentialsInv` | what was removed has no row any more: a token is made once, and a key added again is not removed any more (`DeadIsGone`) |
| `Grants` | `GrantsInv` | unless a grant was written beside the removal: the removal has read every grant that is left (`RemovalSeesAll`), and when it is through there is none (`NothingLeft`), so that whoever tries a row then is refused (`LateAreCrossed`) |
| `Quotas` | `QuotasInv` | what is there and whoever was let in and has still to add to it (`RoomTaken`, `BytesTaken`) |
| `Registry` | `RegistryInv` | a blob has its file before its row (`Stored`), a manifest is kept over blobs with rows (`Whole`), a tag stands for a manifest (`Named`), and a push knows as much at each of its steps (`PushesFit`) |
| `Packages`, `Objects`, life | `LifeInv` | the row an upload reserved is its own, that of another was made by an upload that is over (`UploadsFit`); a row's identifier is its own (`RowsStand`) and a file about to be removed belongs to no row, nor to one to come (`DoomedIsGone`); a bucket that is gone took all with it (`BucketStands`) |
| `Packages`, `Objects`, contents | `ContentInv` | no inode serves two identifiers and what is staged is not what is served (`Inodes`); an upload that writes alone has written into the staging file, and only it (`Writers`); a commit that writes no digest finds the row telling what it sent or is noted in `unwritten` (`Told`) |
| `FunctionCalls` | `FunctionsInv` | calls of one function at one time are known to be (`Meet`); a counter that was read or is shown is what was recorded, or less if calls met (`CallsFit`, `Shown`); a row that is made anew has an identifier of its own (`RowIsOne`) |
| `Errors` | `ErrorsInv` | the same of reports (`ReportsMeet`, `ReportsFit`), and what is kept and who is arriving is no more than was sent (`Counted`) |
| `Monitoring` | `WatchInv` | the results beyond those kept are no more than the removals broken off and those still under way (`Bounded`); results and looks under way are no more than the looks begun (`Looked`) |
| `Databases` | `DatabasesInv` | who met nobody has the database to itself (`Alone`) and knows what the server holds for it (`OrdersFit`); a record without its database is about to go, or something was broken off (`HalfGone`); a database that `sole` names has nobody at it and opens (`SoleAtRest`, `SoleOpens`) |
| `Groups` | `GroupInv` | what a request looked at still stands unless something crossed it (`AskKnows`) |
| `Projects` | `ProjectsInv` | who removes a project that nobody else was using has it to himself (`Unshared`), and whoever uses such a project finds its row until the removal took it (`RowStands`); a row without its repository has a request about to make it (`HasRepository`) |
| `Templates` | `TemplateInv` | a count that was read is never ahead of those who took (`Counted`); a copy is the taker's own or what the source held while it was under way (`CopiesFit`) |
| `Pushes`, tips | `PushInv` | a tip that is not told is seen as moved by a request that has still to compare or to tell (`TipTold`, `TipLooked`) |
| `Pushes`, rules | `PushInv` | one change of the rules at a time writes them all, so the hook's file is that of the rows when nobody changes them; a push by force that met no change was held against the file as it is (`Enforced`) |
| `Issues` | `IssueInv` | numbers are those up to the last |
| `Suggestions` | `SuggestInv` | who is about to commit holds the file of a commit that is there, with one of its lines replaced (`ApplyFits`) |
| `Scanning` | `ScanInv` | only a decision relies on what it read (`ScansFit`); a scan about to save has read as ignored whatever was waived and is not in `beside` (`Heard`) |
| `Pages` | `PagesInv` | unless two publications met (`joined`): what is served is whole or a removal took a file of it (`remains`), publications are one at a time (`OneAtATime`) and what lies in `new` is what the one under way has unpacked (`NewFits`) |
| `Apps` | `AppInv` | what a request that met nobody knows of row and container is so (`AloneKnows`); a settled application is only looked at (`SettledFits`) |
| `Routing` | `RouteInv` | a running container has the port its row names (`PortsAreTheRows`); two that want one port asked at one time (`RivalsAreKnown`); a call dials a port that its target's row names, or its target is in `deserted` (`CallFits`) |
| `Workspaces` | `WorkInv` | while no two requests changed a workspace at once: a request at a workspace knows its row, and the container the row names holds what archives carry of the row's commit (`Steady`); nobody is at work in a workspace that is yet to be, and a sweep about to remove has seen the row go (`Alive`) |

Where a property excepts something with a history variable (section 3), the
theorem excepts the same and nothing more.

**Only model-checked.** The liveness properties, for which the prover has no rule
(fairness and ENABLED): `LineDrains`, `RunsEnd` and `EveryMessageEnds`. Every
safety property of a passing run is a theorem. The properties of the runs that
find a violation are not, for they do not hold.

## 6. What is coarser than the code

* `restack` and `approve` are one step each, though they read and then write.
* All writes of one transaction happen at once, so the order of its statements,
  and a deadlock between two transactions that the database breaks by aborting
  one, is not seen.
* Merging two trees is a nondeterministic choice between a conflict and a commit
  that contains both sides.
* `_settle_pipeline` reads the states of the jobs and the jobs that still wait in
  one step; `take_next_job` locks the rows its query returns in one step.
* The retry for a pipeline number (`NUMBER_ATTEMPTS`) is folded into `Start`; in
  `Issues` the request that lost the race ends, as it does in the code.
* `is_active` of an account or an OAuth client is never false: nothing in the
  code sets it. OAuth clients are a constant set.
* Signing in with a passkey and finishing a second factor verify and save in one
  step; nothing they read can change but by a deletion that comes before or after.
* Passwords, codes, signatures and digests are right or wrong; a digest is what
  was hashed.
* A tree is the set of pieces of work, the set of secrets or the one file that the
  module is about.
* The terminal of a workspace works in the container the row names.
* An archive of `git archive` or `docker cp` carries a piece of work whole or not at
  all: links and what is marked `export-ignore` are in `Workspaces`, the rewriting
  of `export-subst` and the modes of files are not. `.gitattributes` says the same in
  every commit. In `Pages` a commit is what the archive of its folder gives.
* A failed statement while a managed database is dropped ends the request, like
  a restart.
* Limits of an account are constants.

## 7. Not modelled

* API documentation: one row per document, replaced by one request.
* Secrets of a project (rows, encrypted), comments on issues, stars, profiles,
  feeds, and editing of names and descriptions: single-row writes nothing else
  depends on.
* Deleting a queue or an account while something of it is at work; logs, message
  sizes, titles, mail.
* Cryptography, parsing of pipeline files, regular expressions of the scan,
  three-way merging.
* The web console and the deployment, which keep no state of the system.

## 8. Plan

Done: the components of section 2, each checked by a run, and the proofs of
section 5. What is left:

1. `MessageQueue` as an implementation of a bag of messages that are handed out
   and come back, and `Registry` as one of a store of images, in the way
   `Pipelines` implements `RunLife`.
2. Action properties of rows that only move one way: a pipeline that is finished,
   a version that was published.
3. More of what section 7 leaves out, where two requests can meet in it.
