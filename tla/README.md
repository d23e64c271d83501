# TLA+ models of generalcompute2api

generalcompute2api is an OpenAI-compatible gateway: it answers chat requests by
sending them to one upstream service under one of many upstream accounts, which it
keeps in a pool. These modules model the parts of it where concurrency, failures
and the order of events decide whether it is correct. Each definition names the
code it stands for in `PROJECT.json` ("map").

## Inventory

Paths are below `src/internal/`.

| Component | State | Operations | Hard because |
|---|---|---|---|
| Account pool (`account/`) | rotation queue, counts of leases, account list, waiting callers | Acquire, AcquireWait, Release, SyncAccounts, RemoveAccount | the lock is given up while a caller waits; snapshots and removals change counts under live leases; one wake-up per release |
| Resolver and failover (`auth/`, `gl/client/client_completion.go`) | shared pool, cooldown marks, refresh times; per request: account, tried accounts | Determine, RefreshToken, SwitchAccount, Release, auto-discard, cooldown, keep-alive tour | every access takes another lock; a request carries what it read before; each failure path must give back exactly one lease |
| Gateway client login (`gl/client/client_auth.go`) | cookie and token of an account, live sessions at Clerk, mails | refresh, sign in by a mailed link, heal a lost session, store | several callers sign in to one account through one mailbox; each works with the copy it read |
| Pool database (`pooldb/`) | keys, accounts, bindings, discard flags, tokens, test job row | add, remove, discard, rotate key, import, test progress | transactions of several actors; cascades take rows away under running jobs |
| Account tests (`poolui/`, `poolaccounthealth/`) | runner per key, context, persisted row | start, cancel, probe, classify, record, finish, restart | a second job starts while the first still writes; a cancel meets the start of a job between two locks |
| Chat history store (`chathistory/`) | entries, pending changes, revision; on disk one file per entry and an index, or one file of the old format | Start, Update, Delete, Clear, SetLimit, load, migrate | several files per save, each may fail, the process may stop in between |
| History sessions (`responsehistory/`, `httpapi/openai/chat/chat_history.go`) | entry id, what is to be written, disabled flag | start, progress, the endings, start a missing entry anew | the store trims, deletes or disables entries under a running session |
| SSE parser (`sse/`) | type of the current part | parse a line, trim overlaps, collect | two upstream formats; text and thinking in one line; leaked markers |
| Line pump and stream engine (`sse/stream.go`, `stream/`) | channels, buffers, timer, silence | scan, gather, flush, tick, end | two goroutines, two bounded channels, a timer, a ticker and a context |
| Tool sieve and parser (`toolstream/`, `toolcall/`) | pending text, captured block, fences, calls to hand out | feed, flush, read a whole text | a cut at any place must not change the result |
| Turn evaluation, prompt building (`assistantturn/`, `promptcompat/`) | none | what a reply amounts to; which tools are offered and demanded | two interfaces read one request by two sets of rules |
| Completion runtime and handlers (`completionruntime/`, `httpapi/openai/chat`, `httpapi/openai/responses`) | per request: accumulators, sieve, batch, items, attempt | start, line, finalize, retry, fail, cancel | events of an attempt that is retried, calls in the middle of a stream, a client that leaves |
| Response store (`httpapi/openai/responses/response_store.go`) | responses by owner and id, with a time to live | put, get, sweep | written from each way a request can end, also before the client learns of it |
| Upload cache, file uploads, configuration, server, UI rendering, captures, legacy upstream client, JavaScript mirror | | | see "Not modelled" |

How they interact. A handler calls `Resolver.Determine`, which reads the accounts
from the pool database, filters those that cool down, synchronises the shared pool
with the rest and waits in the pool for a lease. The completion runtime calls the
gateway client, which refreshes tokens (login), cools or discards accounts and
switches the request to another account when the upstream fails. The body of the
response goes through scanner and pump to `ConsumeSSE`, whose hooks are the chat or
the responses runtime: parser, accumulator, sieve, delta batch, events to the client,
progress to the history session. At the end of an attempt the turn is evaluated; an
empty one may be retried. The handler releases the account the request names when it
returns. The server's keep-alive loop walks all accounts the same way. The pool UI
changes the database and tests accounts beside all this.

What makes the parts correct:

- pool: limits respected, no lease lost or counted twice, no caller left asleep
  beside free capacity, every wait ends, no account overtaken in the rotation;
- resolver: every exit gives back what was taken, requests are sent under a lease,
  no account is tried twice, every request ends, only banned accounts are discarded;
- login and tests: a sign-in comes back with its own session, a row says "running"
  only while a goroutine runs the job or its last write has failed, a cancelled probe is
  no result, accounts are
  retired for cause, jobs end;
- history: what was acknowledged survives, what failed stays pending, a request is
  listed once and its entry shows how it ended;
- stream: what the handler sees is what the upstream sent, in its order, complete at
  a normal end; loop and goroutines end;
- completion: one ending, text and calls in the order of the reply, the same as a
  collecting handler would answer, items closed, the client's choice of tools kept,
  and a history and a response store that say what the client was told.

`PROJECT.json` lists every component with its status and, under "hazards", what in
this code is hard to test, at its line.

## Modules

| Module | Models | Extends |
|---|---|---|
| `LeaseTable` | abstract: what the pool promises, counts granted below limits, returned one by one, withdrawn as a whole | |
| `AccountPool` | `account.Pool` with the callers of AcquireWait; implements `LeaseTable` | |
| `AccountRotation` | the pool with a history of who was leased since whom | `AccountPool` |
| `Resolver` | requests, failover, keep-alive tour and an operator over the pool | `AccountPool`, `Selections` |
| `Selections` | a list without some of its entries, or with those at some places, as loops and WHERE clauses return it | |
| `PoolDatabase` | the tables and their transactions | `Selections` |
| `GatewayLogin` | refresh and sign-in of several callers, with Clerk and the mailbox as environment | `PoolDatabase` |
| `AccountTests` | test jobs, their runner, the request that refreshes a token, the operator, restarts | `GatewayLogin` |
| `ChatHistory` | the history store with its disk | |
| `HistorySessions` | requests and an operator using the store | `ChatHistory` |
| `SSEParser` | a line of the upstream's stream to parts, collection of all lines | |
| `LinePump` | scanner, pump and their channels | `SSEParser` |
| `StreamEngine` | ConsumeSSE and the accumulator over the pump | `LinePump` |
| `ToolMarkup` | the parser of calls over tokens | `Selections` |
| `ToolSieve` | the sieve | `ToolMarkup` |
| `ToolChoice` | what a request demands of the tools | |
| `Turn` | what a reply amounts to | `ToolMarkup` |
| `ChatRuntime`, `ResponsesRuntime` | the two streaming runtimes as operators on a record | `ToolSieve`, `Turn` |
| `Completion` | a request from handler to history entry | both runtimes, `ToolChoice` |
| `AccountPoolProofs`, `AccountRotationProofs`, `ResolverProofs`, `AccountTestsProofs`, `CompletionProofs` | theorems and their proofs, each about the module it is named for | that module |
| `HistoryProofs` | theorems about `ChatHistory` and `HistorySessions` | `HistorySessions` |
| `CompletionOrderProofs` | the theorem about the order of what a stream sends | `CompletionProofs` |
| `SequenceLemmas` | what the list operations of the code do to order and entries, and the induction behind it | `Selections` |
| `MC...` | the instances TLC checks | |

Operators named `...Kept`, `...Once` and the like that carry the comment "mutant" are
plausible mistakes in the definition they stand before; each property of a passing
run is violated by one of them.

### AccountPool

Every operation runs under `Pool.mu`, so it is one action. AcquireWait gives the
lock up between two attempts; `call[r]` says where a caller is: "trying" (about to
take the lock), "waiting" (in the select, on the list or just woken), "expired" (its
deadline has won the select and it is about to take itself off the list). Closing a
waiter's channel is its removal from `waiters`. When a caller is woken and its
deadline has passed, the select may choose either branch, as in Go. `inUse` holds 0
for an absent key. SyncAccounts keeps the rotation order of the accounts that stay
and appends new ones; the code sorts those with a token first, and the
order of the rest is that of the list, so any order of the list is a snapshot here.
The rotation may lag behind `lookup`: RemoveAccount takes an account off the queue
and leaves it in the list, so that a request that names it still gets it.

`held` is the lease a caller must give back. `forgotten` is a history variable: the
accounts whose count was deleted while somebody held them. The code has no such
memory, which is why its counts may be too low until those leases return, and
why `CountExact` and `LimitsKept` except these accounts. What always holds is that no
count is too high (`NoLeakedSlot`).

Limits are constants: `ApplyRuntimeLimits` has no caller outside tests, and the
configuration has no writer at run time.

### Resolver

`job[r]` is a request's program counter and its RequestAuth: account, tried accounts,
remaining attempts and the response it would pass on. Each access to the pool, the
database or the cooldown map is one action because each takes its own lock. The
sequence Load, Filter, Join, Enter, Admitted is Determine; Begin to Rejected is
CallCompletion; Discard, Cool and Evict are applyAutoDiscard and MarkAccountCooldown,
first the mark and then the pool; Switch, Pick, SwitchReady and SwitchFails are
SwitchAccount; Visit, Skip, Touch and EndTour are KeepAliveOnce. What the upstream
and the login answer is nondeterministic within the constant `Fault`; a banned
account may show it in an error response or a failed login (`Verdicts`).

`Release` in the code lowers the count of the account a request *names*; whether the
request holds a lease of it is not recorded anywhere. `ReleaseNamed` does the same,
which makes the double release visible.

The time of a cooldown is abstracted: `Thaw` may end it at any moment. Tokens are
abstracted to the success or failure of a login.

### PoolDatabase, GatewayLogin, AccountTests

A transaction or a single statement is one step. A cookie is the Clerk session it
belongs to and a token the session it was minted from, so that "whose session is
this" can be asked. `login[p]` is the place of a caller in Login: it may be refused,
send a mail, wait for a link, exchange it, store the new session, and ask again.
`holder`, `current`, `cancelled` and `stopping` are the mutex of a key, the runner's
map, its flag, and a stop whose two halves (raise the flag, end the context) are
separate steps, as in the code. A tester's steps are those of
`runPersistedAccountTests` and the probe: list, lock, chat, login, chat again,
condemn or restore, record, post, finish or reset, leave. `beginAccountTest` resets
the row before it has the mutex; so does `Begin`.

With the fault "store" the database may refuse any write of a job. A refusal in
`beginAccountTest` is answered and starts no goroutine. The later ones are dropped:
`UpdateAccountTestJobProgress` at `poolui/test_jobs.go:69`, `ResetAccountTestJob` at
73 and 78, `FinishAccountTestJob` at 81. A lost result makes a job `disturbed`; a row
whose last write failed is `torn` until it is written anew by the next job of its key,
the next start of a process, or the end of the key. Both are history variables: the
code has no such memory, and leaves a torn row "running" with nobody behind it. A
process whose `NewServer` cannot reset the rows does not start (`poolui/server.go:34`),
so `Restart` and `SecondServer` always do.

External: a link makes the session of the sign-in it was sent for, the upstream
mutes or bans an account at any moment (`Judge`), Clerk revokes sessions (`Revoke`).

### ChatHistory and HistorySessions

An operation changes the memory and starts a save; the phases of `saveLocked` are
actions, each of which may be the last one before a failure (`SaveFails`) or the end
of the process (`Crash`). All of it happens under one lock, so no operation starts
while `save # "none"`. Files are replaced atomically (`writeFileAtomic`). The order
in which a phase treats its files is left open, which contains the sorted order of
the code. An entry is its creation time and its revision; the index in memory always
equals the entries, and is not a variable. An index of the old format carries its
entries inline (`index.inline`) and is migrated at the first start; when the save of
the migration fails or is interrupted the next start migrates again. `acked` is a
history variable: what the last successful save wrote, or the old index held, and
nothing has dropped since.

A session of `HistorySessions` makes its calls one at a time and learns of trims only
from the error of its next update; then it starts an entry anew and writes to that.
A failed save is logged and otherwise ignored, as the entry is in memory. Update does
not ask whether the history is disabled; only the start of an entry does. `status`
and `owner` belong to the sessions: what was written to an entry, and for whom it was
started.

### SSEParser, LinePump, StreamEngine

A text is a sequence of tokens; tags, blanks, line ends and leaked markers are tokens
of their own. `LinePump` has the scanner, the channel of lines, the pump with its
buffers and timer, and the channel of results; a send that waits is a state of its
own that only the reader or the context ends. `StreamEngine` adds the loop with its
ticker and the handler's accumulator, and computes beside it (`collected`) what
`CollectStream` makes of the same lines: the reference for what is streamed.

### ToolMarkup, ToolSieve, Turn, ToolChoice, runtimes, Completion

A reply is a sequence of tokens, which are the pieces the parser and the sieve tell
apart (`ToolMarkup` lists them) with their place in the reply; the upstream cuts it
into lines anywhere, also between the halves of an opening tag. Parser and sieve are
functions on such texts. The sieve's loop is bounded by `MaxRounds`, two rounds for each
token at hand: a round takes text away, but for one that only starts a capture. The two
runtimes are functions from a record to a record:
what a part, a finalize, a failure adds to what was sent. `Completion` drives them: a
request is read (`ToolChoice` decides what is offered and demanded), the upstream
session made, lines come, the attempt ends, is finalized, retried or settled, the
client may leave at any moment, and the history entry may be cleared or the history
switched off between any two steps. A handler that does not stream collects the whole
reply and evaluates it once.

`stored` is what the response store keeps for the owner of a response: a whole answer
once it is good, a stream's response with its outcome, and nothing of a client that
left; `Expire` may end its time at any moment after that. The store is one map under
one lock whose keys contain the owner and a fresh id, so one response stands for all.

The sieve keeps its pending text in one buffer and its fence state between chunks;
`ready` is its single slot for calls that wait for the next chunk. Keep-alive frames,
ids, usage numbers and the wording of events are left out.

## Runs

| Run | Instance | Shows |
|---|---|---|
| `pool` | 3 callers, 3 accounts with 2 leases each, 2 in all, a waiting list of 2, 3 snapshots, targets and exclusions | exact counts, no leaked slot, every limit, nobody overtaken, nobody patient asleep beside free capacity, refinement of `LeaseTable` |
| `resolver` | 2 clients, 2 accounts of which 1 is banned, an operator, every upstream fault | releases on every exit, sends under a lease, no leaked slot, no account retried |
| `resolver_liveness` | 1 client and the keep-alive tour, logins and tokens failing | every request and every wait in the pool ends; refinement of `LeaseTable` under the composition |
| `account_tests` | 2 jobs and 1 request, an account with credentials and one without, 2 keys, 1 event from outside, any write of a job refused | accounts retired for cause, own sessions; rows have goroutines, cancelled probes are no results, undisturbed rows are exact and jobs end, each but for a write that failed |
| `chat_history` | 2 requests, an operator, 3 entries, limits 1 and 2, an empty disk or an old index with up to 2 entries, 5 clock ticks | failures stay pending, acknowledged entries survive crashes and migration, a request is listed once, its ending is shown |
| `stream` | up to 3 lines of 12 kinds, channels of 1 | what is streamed is what would be collected, in order; the loop, pump and scanner end |
| `completion` | 12 replies, chat and responses, streamed or not, every form of tool choice, 1 retry | one ending, the order of the reply, streamed equals collected, finish reasons, items closed, the tool choice kept, the history entry and the stored response tell what the client was told |
| `double_release`, `wrong_discard`, `history_latched`, `fenced_call`, `forbidden_discard` | small | the findings below |

The bounds. Three callers give one that holds, one that waits and one that overtakes;
a snapshot that misses an account and one that brings it back are both there. Two
clients suffice for one to change the pool under the other; the finding about the
double release needs a third that profits from it. The attempts of a completion are
one, which the pool's size raises to two, so that the first attempt fails and the
second one runs out. Three entries under limits of one and two give trims of one and
of two entries, an entry started anew that trims a running one, and several files in
each phase of a save; the clock (`MaxClock`) bounds the operations. In the tests of
accounts one event (`MaxEvents`) from a cancel, a revoked session, every operation of
the operator, a verdict of the upstream, a restart and a second server meets every
step of two jobs and a request, with lost mails and refused writes; failures of the
network, which end a login as a lost mail does and condemn nobody, would double the
states and are left to the theorems. Three sign-ins (`MaxSignIns`), one of them before
the import, leave two to the three callers; a sign-in beyond them fails as one whose
mail is lost does. The run `pool` keeps the global limit configured; that the limit
derived from a snapshot, which may shrink below what is leased, holds as well is a
matter of the theorem `LimitsAreKept`. `resolver_liveness` has the failures of logins
and of the network; with refused writes and 5xx answers it does not finish in its
time, so that a request ends after a discard that failed is not checked. Three lines
let a buffered line meet another of its kind or of the other and then a stop;
`MinChars` of two makes a text reach it by gathering. The replies of `completion` are
cut into lines of one token (`MaxLine`) or arrive whole, which contains the cuts that
matter to a buffer: within a tag, before and after a block, and none at all.

Fairness. Liveness is checked under weak fairness of each goroutine's own steps: the
Go scheduler runs every goroutine that can run, `sync.Mutex` hands the lock over to a
starved waiter after a millisecond, and every `AcquireWait` has a deadline (120 s by
default), which is the separate weak fairness of `TimesOut`. A caller that is woken
and beaten to the lock may go round any number of times; only the deadline ends this.
In `AccountTests` the fair steps are those of the jobs and the logins: each HTTP call
ends within the client's timeout and the wait for a mail within two minutes. In
`StreamEngine` it is the progress of loop, ticker, pump and scanner; the context of a
request is done once its handler has returned, which `net/http` guarantees. No
fairness is assumed of clients, the operator, the upstream's lines, its faults, or
the end of a cooldown.

Deadlock is checked except in `completion`, `stream`, `account_tests` and their
violation runs, which stop when the request or the jobs have ended.

## What is proved

TLAPS checks these for all accounts, callers, limits, snapshots, entries and requests.

*Pool* (`AccountPoolProofs`). The inductive invariant is `PoolInv`: `TypeOK`,
`CallsSound`, `MembersOnly`, `NoLeakedSlot`, `CountExact` and `TotalBounded`.
`TypeOK` is not inductive alone: that a caller is never twice in the waiting list
needs to know that callers on the list are asleep (`CallsSound`). That the global
limit survives a snapshot needs that only members are counted, each at most
`MaxInflight` times. Each step is first brought into one of five shapes
(`StepShapes`): no change of counts, one lease, one release, a synchronisation, a
removal; the invariants and the refinement are proved for the shapes. `LimitsAreKept`
follows from the invariant by numbering the holders of each account, which maps
leases one to one to counted slots. `PoolImplementsLeaseTable` is the refinement: an
initial pool is an initial table and every step is one of the table's or changes
neither counts nor members. The assumptions are the named ASSUMEs of `AccountPool`:
finite sets of accounts and callers, snapshots without duplicates that are not
empty, and positive limits per account.

*Rotation* (`AccountRotationProofs`). `TurnsStayFair` rests on `RotationKept`: an account
that stands before another in the queue has not been leased since the other was, so the
queue read from its front is the history. Each operation does one of three things to
the order: a lease sends one account behind all others (`BumpOrder`), a snapshot keeps
the order of those that stay and appends the rest (`SyncOrder`), a removal drops
one. `NoPatientCallerIsForgotten` needs more than that somebody is awake whenever
somebody sleeps: `EnoughAwake` says that while anyone sleeps, as many callers are
awake as the accounts, or the global limit, have leases left to grant. Every release
adds one lease and wakes one caller; every grant uses up one of each. The property's
premise is in the theorem as in the run: a caller that names or excludes an account, or
gives up, may take a wake-up with it, and the code does lose it then.

*Resolver* (`ResolverProofs`). `LeaseInv` says of every step of a request whether it
holds a lease and that the lease is of the account it names. The property alone is
not inductive: an eviction on the way to a switch still needs the lease, the same
eviction on the way out may have none, which `job.next` tells apart. One lemma per
group of actions reduces each action to the new `job` of one request
(`PrivateStep`, `LeaseChange`, `CallStep`, `CallChange`). `FailoverLeaksNothing` adds
that counts are never above the leases out: every step takes one lease and counts
it, gives one back and lowers the count (or lowers it without having a lease, the
double release), or drops counts.

`RequestInv` adds to `LeaseInv` the types of pool and requests and what a request
remembers (`JobTyped`): at each step that may take a lease, the accounts it has had are
among those it has tried or are excluded from the wait. `tried` alone does not say this,
since an account is put there only when it is given up. `FailoverMakesProgress` follows,
since a lease goes to an
account outside that set (`FreshAccount`). The keep-alive tour is a request with other
rules (`KeeperOk`). `ResolverImplementsLeaseTable` reduces every step of requests, tour
and operator to one of four shapes (`PoolShapes`: borrow, ask, return, replace) and
reuses the lemmas of the pool's refinement; that the list a request carries to a
snapshot has no duplicates rests on `WithoutFacts`. Assumed are the ASSUMEs of
`AccountPool` and `Resolver`: the database lists no account twice, and at least one
attempt per completion.

*Account tests* (`AccountTestsProofs`), for any number of jobs, requests, keys,
accounts, faults and events; the bounds of the run (`MaxEvents`, `MaxSignIns`) are
arbitrary too. `TestsAreTyped` is the invariant under all others: tables, jobs and sign-ins
have to be typed together, because a row follows its key and a job with an account in
hand must be inside its list. A sign-in has a number of its own from the mail to the
session (`LoginsSound`), which is why a shared mailbox does not mix two of them up
(`SignInsAreTheirOwn`). `StepKinds` sorts the steps by what they do to jobs and rows;
the remaining proofs have one case per kind.

- `RunningRowsAreBacked`: `Backed` asks for a job that has not *ended* the row yet, which
  is more than one that is alive; a job that leaves has ended it, or has failed to and
  the row is torn. `MendedRows` says which steps mend torn rows: those that leave the
  row idle, written anew by a job that begins, or gone.
- `CancelsLeaveNoResults`: not inductive without the mutex (`MutexHeld`) and without
  knowing that a result cut short is in a row only while the job that wrote it still
  holds that mutex, is cancelled, and is on its way to the reset (`CutsAreReset`). Torn
  rows are excepted: when the reset fails the cut result stays in the row, and a job
  behind it may end it.
- `VerdictsAreTold`: a job's verdict is followed from the answer of the upstream to the
  row (`VerdictsTold`), and no text of a login says "forbidden" (`NothingForbidden`).
  That neither a refusal of Clerk nor the error of a completion does is the theorem's
  hypothesis; `forbidden_discard` shows that the code needs it.
- `LoneJobsAreExact`: while nothing touches the row of a job, row and job tell the same
  story at every step (`Followed`): the first n accounts of the list with their results
  and the counts of n results, with one result more in the job's counts between the
  recording and the posting. A job that begins is followed because it resets the row
  (`BeginFollows`) and stays so until another one of its key, a change of the key, a
  second server or a refused write of its own disturbs it (`DisturbedStay`).

Assumed are the types of what the import brings (`ImportedAssumption`), that its
sessions are those of the first sign-ins, within the bound (`SignInAssumption`), and that
"nobody" is no caller; an import may bring an account more than once. `NoText` is the
empty text; that it differs from every other
text is a lemma, not an assumption.

*Lists* (`SequenceLemmas`). The library's induction theorems take an operator and cannot be
used, so induction is done on sets: a set of naturals has a least element
(`NatLeast`, from the well-foundedness of inclusion of finite sets, which takes no
operator), hence `SetInduction`, hence recursive functions are total (`FiniteRecursion`).
`WithoutFacts` is what this is for: a list without some entries keeps the order and
gains nothing. `Without` is a recursive function in `Selections` because `SelectSeq` and
`FoldLeft` take an operator and stay opaque to the provers.

*History* (`HistoryProofs`). `HistoryInv` adds to the two properties what each
phase of a save has already achieved (`Phases`), what memory knows of the
acknowledged entries (`Memory`) and that no revision is ahead of the clock. Five
operations end in the same rebuild of the index, so `RebuildKeeps` is proved once,
for entries that satisfy `Rebuildable`, and each operation shows that its entries do.

*Sessions* (`HistoryProofs`). `SessionsUseTheStore` shows that the composition
of requests and operator is a behaviour of `ChatHistory`, so that its invariant, and
with it durability, holds beside any number of requests. `SessionInv` is the inductive
invariant of the sessions: the entry a session names was issued and started for it,
and no other of its entries is in memory (`Ownership`); what is listed in memory or on
disk was issued (`Issued`); sessions run only while the store does, and what they have
written is the status of their entry (`Running`). That a request is listed once is not
inductive without `Ownership`: an update that misses its entry starts another one, and
only the absence of the first from memory keeps the second alone. `RequestsListedOnce`
and `EndingsAreShown` follow. Steps of the store beside the sessions only drop entries
or copy memory to disk (`OthersDrop`, `StoreStep`). The assumptions are those of
`ChatHistory` (finite entries, positive limits, an old format whose revisions are not
ahead of the clock) and that "nobody" is not a request.

*Completion* (`CompletionProofs`), for every request, reply, cut of the reply into lines,
number of retries and moment at which the client leaves or the history is cleared. The
inductive invariant `IInv` says of a request that waits (`WaitingOk`) that nothing of an
outcome was sent, answered, stored or written to the entry, and of one that has ended
that it was left, told, refused or answered (`LeftOk`, `ToldOk`, `RefusedOk`,
`AnsweredOk`), with answer, store, stream and entry in agreement in each case. None of
the properties is inductive alone: `OneEnding` needs to know that an attempt whose
finalize is put off has sent no outcome (`Running`, against `Ended`); `HistoryTells` needs
what the stream has said so far, and that the failure a handler writes to the history is
the failure it sends. `FinishNamesCalls` rests on the flag `called`, kept equal to "calls
were sent" through the sieve, the flush and the last reading of the reply. `ItemsClosed`
rests on `ItemsOk`: indexes and identifiers below their counters, none used twice, and
only the message open between two blocks of calls. `ChoiceKept` follows the tools a request allows
(`ChoiceRead`) into each place where calls are found: the parser drops all others
(`CanonicalCalls`), the sieve hands out only what the parser found (`SieveOk`), and both
start from the same list. That list is longer than the client's: `appendImplicitTools`
adds some twenty names (`read_file`, `write_file`, `execute_command` and others) to every
list that is not empty, and the other dialects bring tools of their own. A call of one of
these is let through whatever the choice allows and satisfies "required", so the
property excepts them. Of parser and sieve these proofs use no more than this, and
that they return sequences; that they find the right calls is what the run checks.
Assumed are `RequestsAssumption`, which says what forms a choice of tools can take and
that no declared tool bears the name reserved for "any tool", and `RepliesAssumption`,
that thinking and text of a reply are sequences.

*Order* (`CompletionOrderProofs`), under the same assumptions. `SentInOrder` says that the
text and the calls a client gets are in the order of the reply and nothing twice. It is
not inductive: what is still to be sent lies in the unread part of the reply, in the
sieve and in the delta batch, and each of them has to lie behind what was sent. Every
token knows its place in all that the upstream sends, so a stretch of the reply is
described by two places (`Within(s, a, b)`: in order, behind a, up to b), and the
invariant `OrderInv` by the place `seen` up to which it was read:

- the unread part of the attempt is what follows `seen`, thinking before text (`InParts`);
- what was sent goes up to some place, what batch and sieve hold goes on from there up to
  `seen`, in this order, and no frame tells anything that comes before what another one
  told earlier (`RtRead`, `SentAt`; calls have a place of their own, up to which they were
  sent);
- the accumulated text is that of the attempt, up to `seen` (`AccAt`), because the last
  reading of a response may find calls in it;
- the sieve holds nothing while thinking is still to come (`ReadsInTurn`), since thinking
  is sent past it. That is why the order of an attempt's parts is needed at all.

The argument goes from the inside out. What the parser finds is a selection: tokens of
its text, in their order (`Drawn`), through stripped fences, matched tags, dialects,
inserted wrappers and nested calls. So a block cut out of a stretch gives calls of that
stretch and leaves a text before and one behind it (`CutLies`); a chunk that passes the
sieve gives events one behind another and leaves the rest in it (`EventsAt`, `SieveAt`,
one round of `ProcessChunk` at a time, by induction over its rounds); the runtimes turn
the events into frames (`FrameSent`), emptying the delta batch before any call; and the
actions of the request read a line, judge an attempt and open the next one, whose tokens
come behind all before. The recursion in the parser is over the positions of a text, so
`SetInduction` and `FiniteRecursion` of `SequenceLemmas` serve for the inductions.

Only model-checked:

- liveness (`CallsReturn`, `RequestsEnd`, `StreamEnds`, `PumpEnds`, `JobsEnd`), which is
  out of the prover's reach under fairness, like ENABLED;
- the stream (`TypeOK`, `SeenInOrder`, `TextMatchesCollect` of `StreamEngine`): the
  accumulator folds lines with `FoldLeft`, whose value on a list of any length is an
  induction over data with an operator in it. `SeenInOrder` moreover is a fact about the
  lines of the run, not of all lines: what `TrimOverlap` takes away depends on whether
  two chunks happen to overlap;
- `StreamTellsTheWhole` and `RetriesShowNothing` of `Completion`. They say that sieve and
  parser find the same in a text, and hold of the run's replies rather than of all: the
  cuts named in the findings below break the first one.

## Findings

With a run:

- `double_release`: a failed SwitchAccount has given the account back and leaves its
  name in the request; the handler's deferred Release gives it back again. If another
  request holds it, the limit of the account is exceeded by one.
- `wrong_discard`: an error body is classified after the failover, so that the ban of
  one account is filed against the last account tried.
- `history_latched`: a save that fails after it has removed a detail file leaves an
  index that lists it; every later start then refuses the whole history.
- `fenced_call`: a line end that arrives as a chunk of its own does not count for the
  sieve's fence state; the example of a tool call in the fence that follows is sent as
  a call.
- `forbidden_discard`: Clerk refuses the token of a healthy account with a 403 that says
  "forbidden" in its body, and the sign-in by mail fails too; the login fails with that
  body (`gl/client/client_auth.go:254`), and the word retires the account as banned. The
  401 and 403 of a completion do not do this, as their body is not passed on
  (`gl/client/client_completion.go:97`); the body of another error does
  (`poolui/probe.go:221`), which is the fault "forbidden chat" and in no run.

Seen while modelling, without a run of their own:

- Pool and resolver. Determine gives up when it has tried as many accounts as the pool
  has now (`auth/request.go:200`), which another request may have shortened. When every
  account cools down the filter returns all of them, and the keep-alive tour then takes
  accounts its comment says it skips (`auth/keepalive.go:28`). LoadAccountsForAPIKey
  ignores bindings and whether the key is enabled, so an account without a binding
  serves and cannot be discarded.
- Account tests. The errors of the writes of a job's row are dropped
  (`poolui/test_jobs.go:69`, 73, 78, 81): a refused one loses a result, or leaves the row
  "running" without a goroutine. A second job resets the row before it has the mutex, and
  the first goes on writing into it. A cancel before or at the start of the runner is lost
  although the UI was told "idle". A successful probe takes back the operator's discard
  made meanwhile (`poolui/probe.go:166`); a ban seen by the first probe is dropped when
  the login after it fails otherwise (`poolui/probe.go:119`). A token verified earlier
  overwrites a newer one. Starting the stand-alone pool UI resets the rows of jobs that
  run in the gateway. Adding or importing an account restores it when it was discarded.
- Login. It signs in again without limit while Clerk refuses the sessions it makes; a
  request keeps the cookie it loaded, so each later refresh signs in again.
- History. With a limit of one, two streaming requests trim each other's entries and
  start them anew; a finished entry may be trimmed by the entry of an older request that
  is started anew. A migration whose save fails is repeated at the next start from the
  old index, over newer detail files.
- Stream. Thinking that follows text within one flush interval is dropped when a line
  stops the stream (`sse/stream.go:203`): the pump flushes only if text, parts or
  detection are buffered. `TextMatchesCollect` therefore asks less of thinking.
- Sieve. Calls found in a chunk overwrite calls that wait (`tool_sieve_core.go:46`);
  a shell or minimax block swallows text that follows it in its chunk; an unclosed
  marker at a line start swallows the rest of the reply. `StreamTellsTheWhole` excludes
  these cuts by name.
- Handlers. A retry forced by `tool_choice: required` follows text already shown. The
  completed response mints new ids and indexes for calls sent in mid-stream. A client of
  the responses interface that leaves keeps its entry at "streaming". Chat deltas number
  the calls of every block from zero.
- Tool choice. A choice of one tool does not keep a reply from calling the implicit ones
  (`toolcall/toolcalls_parse.go:39`), whether they were offered or not. `tool_choice: ""`
  is a demand in the responses interface; a selector of
  type "auto" loses its demand; "none" takes the description of the tools away, yet
  calls in the reply are still read and sent.

## Not modelled

- Upload cache and file uploads: the gateway client refuses uploads, so they do nothing
  in the server that runs.
- Legacy upstream client (`deepseek/`): not wired by the running server.
- The parts of the tool parser that repair JSON, normalise arguments to a schema, or
  read dialects other than the wrapper, the shell fence and minimax; prompt texts and
  token estimates. These are conversions of texts without state.
- Configuration, server wiring, page rendering, captures, test drivers, and the
  JavaScript mirror of the stream handling, which no part of the Go server calls.
- Time: a timer fires and a deadline passes at any moment they are armed.
