# Verification of qrmp-manage

TLA+ specifications of the parts of qrmp-manage that keep state and are hard to
test, the TLC runs that check them on small instances, and TLAPS proofs of what
matters most for every size. `PROJECT.json` maps every definition to the lines
it models. Paths are relative to the repository; `core/` stands for
`yanyan-core/src/main/java/com/yanyan/core`, `service/` for
`qrmp-manage/qrmp-manage-service/src/main/java/com/yanyan/service`, `web/`
for `qrmp-manage/qrmp-manage-webapp/src/main/java/com/yanyan/web`, and `assets/`
and `jsp/` for the directories of that name under
`qrmp-manage/qrmp-manage-webapp/src/main/webapp`.

## 1. The system

qrmp-manage is the administration backend of a QR-code payment platform: a
Spring MVC application (`qrmp-manage-webapp`) over transactional services
(`qrmp-manage-service`), MyBatis mappers (`qrmp-manage-persist`) and a small
framework (`yanyan-core`) that adds Shiro login, sessions, paging and utilities.
Requests run on the threads of a servlet container. What they share is either in
the database or in EhCache caches on the local heap, which hand out references
and not copies. The pages are JSPs with jQuery scripts: a small layer of the
project's own (`assets/js/app.js`, `assets/libs/jquery.service.js`,
`assets/plugins/jquery.table.js`, `assets/plugins/boostrap-tree`) over vendored
libraries.

### Inventory

| Component | State | Operations | What makes it correct |
|---|---|---|---|
| Password retry limiter (`core/shiro/RetryLimitHashedCredentialsMatcher`, `PasswordRetry`) | retry cache: user name -> counter and time of last try | `doCredentialsMatch`, `incrementAndGet` | at most `retryLimit` wrong passwords until the user is quiet for `lockTime`; no two logins get one count |
| Session limiter (`core/shiro/LimitedSessionFilter`, `InspectSessionFilter`) | cache: account -> deque of session ids; kick-out mark of a session | `onAccessDenied` of both filters | no more than `maxSession` sessions online; every request leaves the filter |
| Tree services (`service/AbstractTreeService`, `TreeDao.xml`, departments, resources, regions) | columns `parent_id`, `path`, `level`; managers of a department | create, update (move), delete; queries of ancestors and descendants | `path` answers what `parent_id` says |
| Resources, privileges, roles (`service/system/impl/ResourceServiceImpl`, `PrivilegeServiceImpl`, `RoleServiceImpl`) | permissions, grants to roles and staff, roles of staff | create, update, delete, grant | nobody holds a privilege that was not granted or was removed |
| Session persistence (`core/shiro/UserSessionDAO`, `web/ShiroServiceBean`, `service/system/impl/SessionServiceImpl`) | active-session cache, `s_session`, `s_session_his` | save, delete, restore, clear | rows of logged-in sessions only; every ended session archived, once |
| Unique ids (`core/util/IdWorker`) | static instance, last timestamp, sequence number | `getInstance`, `nextId` | ids of a worker increase |
| Realm (`core/shiro/UserRealm`, `web/ShiroServiceBean`) | authentication and authorization caches, passwords and locks | `doGetAuthenticationInfo`, `doGetAuthorizationInfo`, `clearCachedCache`; change of passwords and locks | what the caches allow was true since the last logout |
| Requests of a page (`assets/js/app.js`, `assets/libs/jquery.service.js`, `jsp/login.jsp`) | requests in flight, jQuery's count, the mask, the login dialog | `invoke`, its callbacks, the handlers of `ajaxSend`, `ajaxComplete`, `ajaxStop`, the login dialog | one callback per request; no second click while one is in flight; the mask is lifted; one dialog |
| Grant page (`assets/plugins/boostrap-tree`, `jsp/role/grant.jsp`, `RoleController`) | check boxes of each open page, grants of the role | click, select all or none, save, leave | grants are closed upwards, so that the menu shows what was granted |
| Tree table (`assets/plugins/jquery.table.js`, `jsp/resource/list.jsp`) | rows, forks, loaded flags, requests with a row index | expand, collapse, delete, `expandTo` | the rows are in the order of the tree, none lost or twice |
| Staff, default roles, corporations (`StaffServiceImpl`, `RoleServiceImpl`, `CorporationServiceImpl`) | accounts, the default administrator role of a portal | create, update, delete | accounts are unique; one default role per portal |
| Paging (`core/db/mybatis/plugin/PageInterceptor`, `jsp/include/pagination-bar.jsp`, list pages) | query, selected rows, total, page on the screen | `intercept`, the links of the bar, search, delete | whoever walks the pages sees every row once; links lead to pages with rows |
| Attachments (`AttachmentServiceImpl`) | rows and files | save, move, delete | every row names a file |
| Operators and contacts (`com/bwton/.../OperatorInformationServiceImpl`) | operator and contact rows | create, update | an update does not lose contacts |
| Login and logout pages, portals, dictionary, messages, operation log, console, API filters, MyBatis extensions, utilities | see "Not modelled" | | |

How they interact. A login passes the retry limiter (the credentials matcher of
`UserRealm`), then the session manager creates a session and `initSession` fills
it. Each request of a logged-in user passes `LimitedSessionFilter`, then
`InspectSessionFilter`; touching the session makes Shiro call
`UserSessionDAO.update`, which saves the row through `ShiroServiceBean`. A logout
or an expiry saves the row once more and deletes it, which archives it. An id
that the cache does not know is looked up in `s_session`; a miss there clears the
rows that are a day old. `getAllPrivileges` joins grants, roles and permissions
for the realm, which caches the answer. In the browser every script goes through
`$.ServiceClient.invoke`; the Ajax handlers of `app.js` put the mask on the page
and open the login dialog when an answer is 401.

What is hard:

- get-then-put on a cache (both limiters), and compound calls on a
  `ConcurrentLinkedDeque`: each call is atomic, the sequence is not;
- read-then-write in a transaction under repeatable read (tree moves and
  deletions, `updateSession`, uniqueness tests);
- forms that were filled before another administrator removed what they name;
- the `LIKE`/`substring` arithmetic on paths when a whole subtree moves;
- evictions, restarts, timeouts and failing inserts between the two copies of a
  session;
- an answer that comes after the page has changed: a row index read at the click,
  a 401 after the next login, a timeout before the answer, a throwing callback;
- a timer that clicks where the mask stops only the user;
- a wall clock that moves back, and a sequence number that wraps.

`PROJECT.json` lists each of these as a hazard, at its line.

## 2. Modules

Each component has one module; `MC...` modules extend it for TLC and
`...Proofs` modules hold its theorems; those of GrantPage, WebClient and TreeTable
are in BrowserProofs, which is why the specifications of the last two are named
`ClientSpec` and `TableSpec`. Definitions keep the names of the code.
A definition whose comment begins with "Mutant" is a faulty version of the one
below it; no specification uses it.

**RetryLimit.** One action is one access to shared state: `CacheGet`,
`CachePut`, `Increment` (the `AtomicInteger`), `ReadClock`, `TestLock`,
`StoreTime` (the plain field `lastRetryTime`, and the caller's comparison with
`retryLimit`), `Match`, `CacheRemove`. `PasswordRetry` objects are references,
so a thread can keep counting on one that the cache has lost. As in the code,
the counter is not reset when the lock time has passed: only its result is 0.
History: the counts an object let through (`tried`), and per user the wrong
passwords since the last quiet period (`burst`) and whether logins overlapped or
the counter was evicted (`disturbed`): the retry cache holds 10000 counters and drops
the least recently used one (`Evict`).

**SessionLimit.** The filter chain for one account. `DequeGet`, `DequePut`,
`TestQueued`, `Push`, `TestSize`, `RemoveVictim`, `Kick`, then `Inspect`, each
one call; sessions log in, log out, expire and are validated at any time. A
request whose `removeLast` meets an empty deque ends with
`NoSuchElementException`, as in the code.

**TreePath.** `"0/7/9/"` is the sequence `<<0, 7, 9>>`: as every id is followed
by a slash, `LIKE` is the prefix relation, `substring` drops leading ids and the
number of slashes is the length. A service call is a transaction of two steps:
its reads see a snapshot, its updates the latest committed rows. `GetAncestors`
keeps the quirk of `INSTR(path, '/m/')`, which never finds the first id of a path
(it is the root's 0). Calls overlap and are given any ids that ever existed: the
services do not ask whether a department or its parent is still there, and the form
keeps only the node itself from being chosen as its parent. Two history variables
say how far the properties go: `contested`, the ids that two running calls named at
once or a call named after their deletion, and `spoilt`, that some call has written
what no longer fitted the tables (`Sound`).

**Authorization.** One action per service method, which is a transaction.
`ReplacePermissions` is delete-and-insert of the permissions of a resource. A form
may be submitted after its ids or its resource were removed, as no service asks:
`updateResource` then inserts permissions of a resource that is gone. Such a
permission has lost the code of its resource in the string that the realm gets
(`StringPermission`). `deleteRole` is no action: its test for staff selects on
`a.staff_id`, a column that `s_staff` does not have (`StaffDao.xml:122`), so the call
ends with an error of the database and changes nothing.
`deleteResource` deletes the permissions before it revokes their grants, which it
then does not find: the grants stay, and the model has them. `intended` is the
history of what was granted and not removed.

**SessionStore.** A session is new, in the cache with a user, lost from the cache
(evicted, or the server restarted) or gone. `SaveTest`, `SaveRead`, `SaveWrite`
and `DeleteSession` are the accesses of one DAO call; an insert that meets a row
fails, and the deletion that follows an ending session's save still happens.
The cache drops the session used least recently, hence none that a thread works on
(`Evict`); `Restart` ends all threads wherever they are, between the save and the
deletion of an ending session too, and loses every session in memory. `Tick` lets
time pass only between requests and never further than the session
validation job allows, which rests on the configured times
(`SessionStoreAssumption`: timeout + validation interval + sync interval is less
than a day).

**IdWorker.** `GetInstance`, `NewWorker` and `ReturnWorker` are the
unsynchronised accesses to the static field, so two threads can create two
workers, both with worker id 1. `NextId` is the monitor; a thread that waits for
the next millisecond (`TilNextMillis`) keeps it. The clock advances and is set
back; as in the code a clock that moved back is only reported.

**Tree.** What a tree service promises: a forest in which one node is added,
moved to a parent outside its subtree, or removed when it has no children.
`TreePath!ImplementsTree` says that the tree which the *paths* tell (the last id
of each path) behaves like that: however many paths a move rewrites, it is one
`Move`.

**Realm** extends Authorization, composing the two: every action of Authorization
is an action of the composition (`Administer`), beside changes of passwords and
locks. `LoadUser` and `LoadPermissions` are the queries after a cache miss,
`PutUser` and `PutPermissions` what Shiro puts afterwards, so that a logout can
clear the caches in between; an entry is put before the password is compared.
`LoginCached` skips the query, and with it the test of the lock. An account can be
entered with blanks (`Spellings`): the query and the principal use the trimmed name,
the authentication cache the name as entered, so that `ClearCache` reaches the entry
of the trimmed name only. Entries leave by a logout or by eviction, never by age. History: the passwords accepted and the
permissions held since the last logout, and the staff whose last logout met a load
(`raced`).

**GrantPage.** Check boxes are sets of nodes; `CheckAncestors` and
`UncheckAncestors` name the boxes which the recursive functions of
`bootstrap-tree.js` change, and `MCGrantPage` compares the sets with the
recursions, call by call. A resource is one node with its "view" permission, as
in `buildPermissionTree`. Two administrators have pages of one role, and the last
save wins. `Menu` is what `findChildMenus` builds for a user with the role; its
`==` on `Long` objects holds for ids up to 127 (`SmallIds`).

**WebClient.** Scripts run to completion, so an action is one event with all the
callbacks it runs. A request is made by a click, a script, or a script without
the mask; its callbacks throw or not; it ends by an answer, a 401, an error, a
timeout, or an abort in `ajaxSend` while the dialog is open. When the callback of an
abort throws, `invoke` calls it again, and the second call may throw or not.
`AfterCallback` is the end of jQuery's `done`, with the count `active`. The dialog is
a frame: it counts its own requests, but its mask is on the page. Two things are
assumed: a masked page takes no input (a key pressed on a button that has the focus is
not modelled), and `layer.open` does not throw; if it did, the flag set at `app.js:82`
would stay without a dialog.

**TreeTable.** A node is its place in the tree. A click on a fork starts a request
that carries the row index it has read, and `Expanded` inserts the rows there:
`FindChildren` is the sorted answer, `SetData` the table that the loop of
`_setData` leaves. `MCTreeTable` compares it with the insertions of `_insertRow`
one by one (`InsertionsAgree`), which lose a row whose index is exactly the number
of rows. `Tick` is one run of `expand` in `expandTo`. The mask keeps the
user, not the timer, from clicking. Once the user and the timer have expanded the
same node the rows are shown twice and the model follows no further (`Followed`).

**Paging.** `Select` and `Count` are the two statements of `intercept`; the table
changes at any time. A row is its rank. `Links` are those of `pagination-bar.jsp`;
`Table.paginate` of `jquery.table.js` draws the same ones. History: the rows a walk
has seen, and the most rows there were since the select (`most`).
`GetPageNo` falls back to 1 when the active page has no link.

Realm is the composition with Authorization; GrantPage ends where Authorization
begins (`Save` is its `Grant`), and TreeTable relies on the mask of WebClient
(`NoDoubleSubmit` is the property it uses). The limiters and the store meet in the
session manager of Shiro, which is external: SessionLimit and SessionStore each
contain the part of its behaviour that they depend on.

## 3. Runs

| Run | Instance | Checks | Result |
|---|---|---|---|
| `retry_limit` | 2 threads, 1 user, 3 counters, limit 2, 4 logins, clock 0..3 | `TypeOK`, `CountsNotShared`, `SerialBurstLimit` | hold, 3 203 057 states up to symmetry |
| `retry_limit_race` | 2 threads, limit 1, 3 logins | `BurstLimit` | violated |
| `session_limit` | 3 threads, 1 session, 3 deques, `maxSession` 1, fair | `TypeOK`, `LimitRestored`, `NoneSlips`, `RequestsFinish` | hold, 472 603 states |
| `session_limit_many` | 2 threads, 3 sessions, 2 deques, `maxSession` 1, newest kicked | `QueuedPerThread`, `OnlineWithinDeques` | hold, 697 846 states up to symmetry |
| `tree_path` | 2 threads, 3 nodes (2 once a write has spoilt the paths), any parents | `TypeOK`, `LevelMatchesPath`, `PathMatchesParent`, `PathFindsFamily`, `NoOrphanNodes`, `NoOrphanManagers`, `ImplementsTree` | hold, 790 558 states up to symmetry |
| `authorization` | 2 resources, 2 permissions, 1 role, 1 staff member; with the realm in use 1 resource, 1 permission, 2 passwords, 2 spellings, 2 threads | `NoRevival`, `LeftoversOfDeleted`, `LoginsValid`, `PermittedAsHeld` | hold, 695 672 states up to symmetry |
| `session_store` | 2 threads, 1 session, timeout 2, validation 1, sync 1, retention 5, clock 1..14 | `SerialRowsLoggedIn`, `ArchivedOnce`, `EndedArchived` | hold, 1 299 410 states up to symmetry |
| `id_worker` | 2 threads, 2 workers, 2 sequence numbers, clock 0..3 set back once, 6 ids | `Increasing` | holds, 1 029 550 states |
| `grant_page` | 2 administrators, all trees of 4 nodes, both link types | `ParentsGranted`, `BoxFollowsChildren`, `GrantedInMenu`, `RecursionsAgree` | hold, 60 390 states up to symmetry |
| `web_client` | 3 requests, fair | `SettledOnce`, `NoDoubleSubmit`, `OneDialog`, `MaskLifted` | hold, 533 266 states |
| `tree_table` | 8 resources on 3 levels, fair | `InTreeOrder`, `OpenedAreShown`, `ForksTell`, `InsertionsAgree`, `TargetShown` | hold, 25 655 states |
| `paging` | up to 8 rows, page sizes 1, 2, 3 | `WalkSeesAll`, `LinksLead` | hold, 366 501 states |

Why the bounds are enough. Two logins suffice for every race on one counter, and
four pass the limit of 2, wait out the lock and start again. Three requests of a
session with `maxSession` 1 are the fewest with which its id is queued three
times, two trimming loops run and one finds the deque empty; three deques let
each request lose its own. Three departments give a path of three ids that moves
with its parent, and a third call's worth of overlap is not needed: what spoils a
call is one other write. Two departments are a parent and a child, enough for every
orphan and for a node that is put below itself, whose path then grows with each
move up to `MaxPath`. Two permissions and two resources allow one kept
and one removed or added in an update, and a leftover grant beside a live one, so
that the clean-up of one resource meets the grants of the other. The clock of
`session_store` spans nearly three retention periods, so a row can be written,
cleared and written again. Two sequence numbers make every second id wrap.
Three sessions and two deques let a session be online in a deque that is lost
while the other one turns over. Two threads and two spellings let a load put its
entry after a logout has cleared it, under either name, while another one reads. Four nodes give a chain of three
above a leaf, and a second child at every level. Three requests are a click, a script and one more that comes
while the dialog is open. Eight resources put siblings before and behind every
node on the way to the target. Eight rows with one row to a page make more pages
than the bar has links, so that its window moves at both ends.

All bounds (`MaxTime`, `MaxAttempts`, `MaxPath`, `MaxIds`, `MaxBack`, the finite
sets of references and ids) are guards of the actions named after them. Behaviours
stop at the bounds, or because a finite number of sessions or requests has come
and gone; deadlock is therefore checked where neither is so (`authorization`,
`paging`), and `RequestsFinish` stands for progress where there is a loop.
Two constraints keep products of unrelated states away: `MCTreePath!Bounded` gives
up the third department once a write has spoilt the paths, `MCRealm!Bounded` uses the
caches over small tables only, and large tables without the caches.

Fairness. `SessionLimit!FairSpec`: weak fairness of the steps of a request that has
started. The container runs every request thread, and no step of the filter waits
for another thread. `WebClient!ClientSpec`: every request ends, as jQuery ends it by an
answer or after its timeout of five minutes. `TreeTable!TableSpec`: the same, and the
browser runs a timer that is due. Logins, logouts, expiries, clicks and new
requests are not fair.

What the less obvious properties say. `OnlineWithinDeques`: when the filter is
quiet, an account has at most `maxSession` sessions online for each deque it was
given; only overlapping first requests give it a second one, so otherwise the limit
is exact. `QueuedPerThread`: overlapping requests queue an id at most once per
thread, however long the session lives. `LoginsValid` and `PermittedAsHeld`: how
stale the caches of the realm can be; a logout of any session of the account ends
it, unless a load overlapped with that logout. `ParentsGranted` is what
`checkAncestors` relies on when it stops at the first checked box. `WalkSeesAll`
holds for the estimated total too: it may promise a page that is empty, but never
hides one. It is about a table that nobody changes: every insertion or deletion ends
the walk. `LinksLead` is about one that others change, and names the link that may
find nothing: "next" when the total is estimated, or when rows went between the
select and the count. `NoOrphanNodes` and `NoOrphanManagers` hold for all overlaps and
name the departments that can lose their parent or keep their managers: those that two
calls were about at once, or that a form named too late. `PathMatchesParent`,
`PathFindsFamily` and `ImplementsTree` hold until a call writes what does not fit the
tables any more (`Sound`); overlapping calls that do not disturb each other are
covered. `NoRevival` and `LeftoversOfDeleted` hold for every form, however late: a
permission that comes back belongs to a deleted resource, whose code is missing in its
string, and so are the only grants that outlive their permission.

### Disagreements between the code and what it says

`retry_limit_race` ends in a violation, with a finding in `PROJECT.json`: two first
logins of a user each put a counter; one is lost, and more than `retryLimit`
passwords are checked.

The other properties that the code does not have are stated as far as it does, and
the definitions name the exception. TLC shows each of them when the condition is
dropped:

- two first requests of an account each put a deque, and the session in the lost
  one is never counted: `maxSession` is exceeded (`OnlineWithinDeques` counts
  deques);
- a department can be moved below its own descendant or by two calls at once, and the
  path column disagrees with `parent_id` from then on (`PathMatchesParent` and
  `PathFindsFamily` hold while `~spoilt`);
- a creation or a move that overlaps a deletion leaves a row without its parent, and
  the form of a deleted department sets managers of nothing (`NoOrphanNodes` and
  `NoOrphanManagers` except `contested`);
- `deleteResource` calls `revokePrivilegesOfResource` after it has deleted the
  permissions by which that call finds the grants (`ResourceServiceImpl.java:85-87`),
  so none is taken back, where the interface says all are (`PrivilegeService.java:33`):
  `LeftoversOfDeleted` says which grants stay;
- the update form of a deleted resource inserts its permissions under their old ids,
  and the grants that `deleteResource` left are in use again, though without the code
  of the resource (`NoRevival` is about existing resources);
- after a login with blanks around the account, its entry in the authentication cache
  survives every logout, with the password and the lock of that time
  (`UserRealm.java:114` trims, Shiro's key is the name as entered; `LoginsValid` is
  about the trimmed name);
- a full retry cache forgets a counter (`SerialBurstLimit` excludes it);
- a save that overlaps a logout inserts the row again after it was archived
  (`SerialRowsLoggedIn` excludes sessions whose requests overlap);
- without a count, a page that is not full is given the total
  `pageNo * (pageSize - 1) + rows`, where the comment at `PageInterceptor.java:89`
  says "only the current number": the total is too large by `pageSize - pageNo`,
  too small on later pages, and right only where the two are equal, as in `one()`
  (`LinksLead` excludes the next page of an estimated total);
- a request made while the login dialog is open is aborted also when the user is
  logged in, where the comment at `app.js:104` says it is so when not logged in: a
  late 401 opens the dialog again after the login;
- with overlapping requests the tree table puts rows at the wrong place, loses one
  (`_insertRow` tests `i > $trs.length`), or shows rows twice when the timer and
  the user expand one node (`InTreeOrder` and `OpenedAreShown` say which overlaps
  they exclude);
- the menu below a resource with an id above 127 is empty
  (`PrivilegeServiceImpl.java:107`; `GrantedInMenu` names `SmallIds`);
- a callback that throws leaves the mask on the page for ever, because `$.error`
  throws again and jQuery does not uncount the request (`MaskLifted` excludes it);
  if the request was aborted at once, its callback runs twice.

Others that were met while modelling and are in the models, without a run:

- `lockTime` is documented in seconds and compared with milliseconds
  (`PasswordRetry.java:19`); the model's `LockTime` is what the code uses.
- Ids of ended sessions stay in the deque, so the filter kicks before the limit
  is reached; two concurrent requests of a session push its id twice.
- No role can be deleted: `hasStaffOfRole` ends in an SQL error (`StaffDao.xml:122`).
- A session restored from its row starts its idle time anew.
- `nextId` reports "Refusing to generate id" and generates it.
- After a 401 the promise of a request stays pending, so neither `done` nor `fail`
  ever runs; a login alert that is closed by its icon leaves `isDoLogin` set and
  the form dead; the timeout of 300000 ms is commented as 30 s.
- A changed password, a lock or a revoked privilege takes effect at the account's
  next logout, or when its cache entry is evicted.
- `expandTo` polls for ever once the target is reached, or cannot be.
- From a page beyond the last one "next" leads further away.

Others outside the models: `shiro.properties` says 30 minutes where it
configures 18000000 ms; `spring-shiro.xml` says that invalid sessions are not
deleted and sets `deleteInvalidSessions` to true; `PortalServiceImpl.java:116`
combines two conditions with `&&`; the department list gives leaves a fork where
the resource list does not; `DepartmentServiceImpl.validate` is never called;
`StaffServiceImpl.isManager` does not advance its index.

## 4. Proofs

All from the named assumptions on the constants, which say that `None` and its
like are not ids, that numbers are natural numbers, that the threads of the
container are finitely many (`SessionLimitAssumption`) and that the times of the
session store are configured as they are: `Timeout + Validation + SyncInterval <
Retention`, five hours, five hours and five minutes against a day
(`SessionStoreAssumption`). A page makes finitely many requests
(`WebClientAssumption`), and the resources are a finite tree (`TreeAssumption`).
`BrowserProofs` extends GrantPage, WebClient and TreeTable, which share no state and
no names. One result needs more, and its ASSUME says so: `SerialBurstLimitAlways`
takes `RetryLimit # 0` (a limit of 0 does not refuse the first login after the lock
time, because the count is then 0).

| Theorem | Says |
|---|---|
| `RetryLimitProofs!TypeCorrect`, `CountsNotSharedAlways` | no object gives two logins the same count, for any number of threads, users and objects |
| `RetryLimitProofs!SerialBurstLimitAlways` | a user whose logins do not overlap and whose counter is not evicted has at most `RetryLimit` wrong passwords checked between two quiet periods, whatever the other users do |
| `SessionLimitProofs!TypeCorrect`, `LimitRestoredAlways`, `NoneSlipsAlways` | a deque over the limit has a request in its trimming loop; an admitted live session is queued, kicked or about to be kicked |
| `SessionLimitProofs!OnlineWithinDequesAlways`, `QueuedPerThreadAlways` | in a quiet filter at most `maxSession` sessions are online per deque; a deque holds an id at most once per thread |
| `TreePathProofs!TypeCorrect`, `LevelAlways` | the level counts the ids of the path, whatever the parents and however calls interleave |
| `TreePathProofs!NoOrphanNodesAlways`, `NoOrphanManagersAlways` | for all overlaps, a missing parent, or department of a manager, was named by two running calls at once or after its deletion |
| `TreePathProofs!PathsConsistent` | for any number of overlapping calls, up to the first write that does not fit the tables, each path is the path of its parent |
| `TreePathProofs!PathFindsFamilyAlways` | under the same condition `getDescendants` and `getAncestors`, which look at paths only, find exactly the family along `parent_id`, at any depth |
| `TreePathProofs!PathsImplementTree` | under the same condition the paths implement the abstract tree: initial states map to initial states, every step to a step of Tree or a stutter |
| `AuthorizationProofs!PrivilegesAsGranted` | every privilege in use on an existing resource was granted and not removed, however late forms are sent |
| `AuthorizationProofs!LoginsValidAlways`, `CachesBounded` | what the caches of the realm accept (for the trimmed name) and permit was valid, and held, since the last logout that no load overlapped |
| `AuthorizationProofs!RealmKeepsTables` | the composition with the realm implements the specification of the tables, so that results about the tables carry over |
| `AuthorizationProofs!LeftoversOfDeletedAlways` | in the composition, grants that outlive their permission are grants of deleted resources |
| `BrowserProofs!TypeCorrect`, `ParentsGrantedAlways`, `GrantedInMenuAlways` | on every tree, with any number of administrators and every link type that checks upwards and unchecks downwards, grants are closed upwards and in the menu |
| `BrowserProofs!BoxFollowsChildrenAlways` | with the default link type a checked box that has children has a checked child |
| `BrowserProofs!ClientTypeCorrect`, `SettledOnceAlways` | for any finite set of requests a promise is settled by the one callback of its request, whichever of answer, error, timeout and abort comes first, or by the second call after one that threw; the count of active requests is never negative |
| `BrowserProofs!NoDoubleSubmitAlways`, `OneDialogAlways` | two clicks are never in flight together; one login dialog is open however many answers are 401 |
| `BrowserProofs!OpenedAreShownAlways` | for every tree of resources the table shows the children of the open nodes, each once, also when the timer and the user expand two nodes at once |
| `BrowserProofs!InTreeOrderAlways`, `ForksTellAlways` | as long as no two requests were in flight together, the table is in the order of the tree and every fork tells what is below it, after deletions too |
| `PagingProofs!TypeCorrect`, `LinksLeadAlways` | for all page sizes, tables and changes between select, count and click, every link of a page with rows leads to a page that had rows, but for "next" in the two named cases |
| `PagingProofs!WalkSeesAllAlways` | for all page sizes and tables, counted or estimated, a walk along "next" through a table that nobody changes shows every row once and ends only when all were shown; with a counted total it ends as soon as they were |
| `SessionStoreProofs!TypeCorrect`, `EndedArchivedAlways` | a session that ended is in the history once no thread works on it, however its requests overlap and whenever the server restarts |
| `SessionStoreProofs!SerialRowsLoggedInAlways`, `ArchivedOnceAlways` | without overlapping requests a session has a row only while it is logged in, is archived once and never comes back |
| `IdWorkerProofs!IncreasingAlways` | between two adjustments of the clock the ids of a worker increase |

None of these invariants is inductive as it stands. What is added:

- *RetryLimit*: `Bookkeeping` (a thread holds an allocated object, a pending count
  does not exceed the object's counter, hence the next increment is new) and
  `Fresh` (an unallocated object is untouched). For the limit itself, `Apart` (two
  users never reach one counter), `Between` (the counter is at least the number of
  wrong passwords of the burst, and as recent as the last login) and `Within`
  (what one login in flight knows: its count leaves room for one more). This is
  why a counter that is never reset is harmless, and `Apart` is why other users do
  not matter.
- *SessionLimit*: `Bookkeeping` (a request past the lookup holds an allocated
  deque; a session with a request is not new). Without it a session that logs in
  after it was admitted would slip. The lemmas say what push and remove do to the
  ids a deque holds. `CountInv` adds the pushes to come (`Pushing`) to the places an
  id has in a deque (`Places`): a thread goes to push only if there is no place, and
  its push moves one from the first count to the second. For `OnlineWithinDeques`
  the sessions online are mapped into the places of the allocated deques.
- *TreePath*: for the level, types and `Parameters` are enough, as both columns
  move by the same amount (`RebaseLen`). For the paths, `PathInv` says that while
  nothing is spoilt every row hangs below a row or the root (`Rooted`) and has the
  path of its parent (`Matching`); a write that keeps `Sound` moves a whole subtree and
  nothing else (`MoveKeepsPaths`). For the orphans, `Naming` says what a running call
  can rely on: an id it names is a row or contested, two calls share contested ids
  only, and a department about to be deleted has no children or is contested.
  For the refinement, `FamilyOfPaths` says that the last id of a path is the
  parent, and `OutsideSubtree` that the rows with a node in their path contain its
  subtree, so that the parent of a sound move is outside of it.
  `PathFindsFamily` follows from `Rooted` and `Matching` in every state. What the queries find holds of exactly the rows whose parent it holds of
  (`DescendantsByParent`, `AncestorsByParent`), and only the rows below the node are
  so: of the rows where the two differ one has the shortest path, and its parent
  would differ too (`OffspringByParent`). The natural numbers enter as `LeastNat`,
  which takes the place of an induction theorem.
- *GrantPage*: `Closed` is preserved by a click because the ancestors of a node are
  a chain: above the first checked box everything is checked already. `Follows` is
  preserved because of the children of an ancestor exactly one is on the way to the
  box that was clicked (`OneChildOnTheWay`).
- *WebClient*: `ClientInv` adds that `active` is the number of requests in `Counted`,
  those sent, and those whose callback threw before jQuery uncounted them; hence
  `ajaxStop` comes with the last of them and not before, and a mask that is down has
  no click in flight. `Settled` says for one request how its status, its calls and
  its promise go together. While the dialog fetches its key or checks the password no
  request of the page is loading.
- *TreeTable*: `TableInv` says `TableCore` as long as only expansions of two different
  nodes were in flight together. `RowsShown`, `RowsAbove` and `RowsOnce` say which
  rows there are, `ForksLoaded` what a fork and `data("loaded")` have to do with each
  other, `RequestsPending` that the fork of a node stays closed while it is expanded
  and that no row before the index goes. That is why an index which another answer
  has made stale misplaces rows but loses none. Without an overlap `IndexRight` keeps
  the index exact, and the order follows from lemmas on sequences of priorities: what
  comes before a node comes before all that is below it, what comes behind it is
  below it or behind all that is, and only such rows stand in between
  (`BeforeBelow`, `BehindBelow`, `BetweenBelow`). The last is also why the row above
  the only row below a node is that node, which the deletion takes for granted.
- *Paging*: `PInv` adds that a positive total has at least one page, so that the
  bar is never drawn around page 0. `WInv` says how far a walk has come: it has seen
  the rows up to `no * size`, once. `EnoughPages` relates that product to the number
  of pages, a rounded quotient; a page that is not full is the last one. `LInv` says
  that the page on the screen, and the pages of a counted total, do not exceed those
  of the most rows since the select.
- *SessionStore*: for `EndedArchived`, `RequestInv` (whose session a thread has) and
  `RecordInv`: what a thread has found or saved is in the table or in the history
  for ever, what is in neither is still marked as changed, and a session that is
  gone and not archived has a thread which will archive it. No order of the saves
  matters. For the other two, `TimeInv` bounds how long a session is idle in memory,
  and `Followed` says, for a session whose requests do not overlap, that its row is
  at most `SyncInterval` behind its last access. Together they keep
  `clearExpiredSessions` from taking the row of a session in memory; of a session
  lost from memory it may take the row, which then cannot be restored. `Starts` is
  what the five ways to begin an update have in common.
- *Realm*: `LoadsFresh`, what a pending load has read is in the history, unless its account has
  logged out since, and then it is in `raced`.
- *Authorization*: `Homed` (a permission belongs to the resource whose form made it,
  and every grant is of an id that some form has carried) and `LeftoversOfDeleted`,
  the reason why the grants that `deleteResource` leaves are harmless: an id never
  moves to another resource, and a deleted one does not come back.
- *IdWorker*: `Recent`, what the fields of a worker know about the ids it made
  since the clock was last set back. While a thread waits in `tilNextMillis` the
  sequence number has wrapped, and only the next millisecond bounds them; the
  lemmas `LaterIsLarger` and `SameMillisecond` order ids by their parts.

Only model-checked: `RequestsFinish`, `MaskLifted`, `TargetShown` (liveness is out
of the prover's reach); `RecursionsAgree` and `InsertionsAgree`, which compare the
sets and sequences that the proofs use with the recursive functions and the loop of
the scripts (what a recursion or a fold computes for every input needs an induction
over data). `BurstLimit` does not hold.

## 5. Not modelled

Planned: Accounts and Operators (section 6). Left out for good:

- Login and logout pages: what they change is in RetryLimit, SessionLimit,
  SessionStore and Realm, and the dialog in WebClient; captcha and redirects
  remain.
- Eviction from the cache of the session limiter (10000 accounts): SessionLimit takes
  the deque of its account to stay.
- Stateless tokens (`/app/**`): the controller that would issue them is a sample
  that is not scanned, so no token exists.
- Portals, messages, bulletins, operation log, RSA keys: single statements on
  tables of their own.
- Data dictionary: `getEntry(code)` fills a cache and returns what the database
  holds, so the cache is never the source of an answer.
- API filters: decryption and signature test of one request, without state.
- Console, MyBatis extensions, utilities, Excel, XML: text, metadata and
  conversions without state. `MybatisThreadLocal` writes a plain static `HashMap`
  from all threads; what could go wrong is inside `java.util.HashMap`.
- `isManager` and `AttachmentService` are not called by anything in the
  application.
- Third-party scripts. The repository holds some 837 000 lines of JavaScript, of
  which nearly all are copies of jQuery, layer, echarts, DataTables, ace and other
  libraries, three times over; they are not this program. Its own scripts are a
  few hundred lines in four files and in the JSPs, and the parts of them that keep
  state are in WebClient, GrantPage, TreeTable and Paging.
- `yanyan-mybatis` and `yanyan-jdbc` (earlier copies of the application) and the
  ZooKeeper distribution.

## 6. Plan

In this order:

1. *Accounts*: uniqueness of account and cellphone under overlapping creations,
   the default administrator role (`unsetAdmin`, then insert).
2. *Operators*: contacts replaced without a transaction, when one of several steps
   fails or a form is saved twice.
3. Abstract specifications: a limiter with one atomic counter per user, which
   RetryLimit implements for users whose logins do not overlap; a set of at most
   `maxSession` sessions, which SessionLimit implements with one request at a time.
4. Proofs: every invariant of a run that does not compare recursions is proved; what
   is left are those of the modules above.
