# A verification development of Casbinex

Casbinex makes [casbin-cpp](https://github.com/casbin/casbin-cpp) available to
Elixir programs: a NIF library with one global enforcer, a Postgres adapter that
stores the rules, and a pool of database connections. This directory holds TLA+
modules that model that code, the TLC configurations that check them on small
instances, and proofs, checked by TLAPS, of what holds for instances of every
size. Line numbers refer to the repository these files lie in.

## 1. The system

| part | source | its state | its operations |
|---|---|---|---|
| Elixir module | `lib/casbinex.ex` | none | fifteen stubs that the NIFs replace when the library is loaded |
| NIF layer | `c_src/casbin_nif.cpp` | the global pointer `enforcer` (15) | `createEnforcer`, `destroyEnforcer`, `enforce`, three queries, nine mutators |
| casbin-cpp (external, v1.44.0) | `Makefile:9` fetches it | the rules in memory, a cache of decisions | `Enforce`, `InvalidateCache`, `AddPolicy`, ... |
| Postgres adapter | `c_src/pg_adapter.cpp` | the table `casbin_rule` | `LoadPolicy`, `SavePolicy`, `AddPolicy`, `RemovePolicy`, `RemoveFilteredPolicy` |
| connection pool | `c_src/pg_pool.{h,cpp}` | a queue of four connections, a mutex, a condition variable | `connection`, `freeConnection`, through the RAII class `PoolConnection` |
| migrator | `c_src/migrator.cpp` | the columns of the table | `RunMigrations`, from the adapter's constructor |
| term conversions | `c_src/casbin_nif.cpp` (18-71) | none | `ListToString`, `ListToVector`, `VectorToList` |
| libpqxx (external) | `c_src/linux/*/include/pqxx` (headers only) | a transaction's status and focus; the server's session behind a connection | `work`, `exec`, `stream_to`, `commit`, and the destructors |

How they interact. A call of the Elixir module runs a NIF on the scheduler thread
of the calling process. The function table (347-364) marks no NIF as dirty and
nothing takes a lock, so calls of different processes run at the same time in
the same process memory, through the same global pointer. A handler tests
the pointer, converts its arguments, and calls casbin through the pointer, which
it reads again; a mutator calls `InvalidateCache` before. casbin changes its own
memory and then calls the adapter. The adapter borrows a connection, which may
block the scheduler thread until another thread returns one, and runs its
statements in a transaction. An exception of libpqxx runs through casbin back to
the handler, which answers `false` or `{:error, _}`.

What is hard here, and where (the full list, with lines, is `hazards` in
`PROJECT.json`):

- *interleavings*: an `enforce` beside a mutator, any call beside
  `destroyEnforcer` or `createEnforcer`, threads at the pool;
- *ordering*: the cache is emptied before the policy changes, the memory changes
  before the database does, `notify_one` comes after the unlock, the connection
  goes back after its transaction is over;
- *failure*: a statement that fails, an exception in the middle of a COPY, a
  connection that breaks and is never reopened, a commit whose answer is lost, a VM that
  dies between memory and table, an operation of two parts of which one fails, a migration that
  throws halfway and is tried again;
- *limits*: more threads than connections, filters with unusual field indices,
  rules with more than seven fields.

What makes each part correct:

- *NIF layer*: no call goes through a null or dangling pointer, no enforcer is
  leaked or deleted twice; an answer is the decision of the policy as it is then.
- *Adapter with casbin*: an answer `true` is durable; memory and table hold the
  same rules as far as no call failed; nothing comes back by itself.
- *Adapter alone*: what it writes for a rule is what it reads back and what it
  deletes; a call changes the table entirely or not at all, and whatever it
  throws, its connection goes back clean.
- *Pool*: no connection is shared, lost, or returned with an open transaction; no
  thread sleeps while a connection is free.
- *Migrator*: whichever way adapters start together, the table ends up with the
  columns the adapter uses, and whoever tries again after a failure succeeds in the end.

## 2. The modules

| module | models | proofs |
|---|---|---|
| `ConnectionPool` | what the pool promises: connections are lent and taken back in single steps | |
| `PgPool` | `pg_pool.{h,cpp}`, statement by statement between lock, wait, unlock and notify | `PgPoolProofs` |
| `Rbac` | the rules, the matcher of `test/data/rbac_model.conf`, what each mutator asks casbin to change | `RbacProofs` |
| `RuleService` | what the NIFs promise to callers that let only reads overlap: one set of rules, decided, changed part by part and saved in single steps | |
| `CasbinNif` | `casbin_nif.cpp`: handlers on concurrent scheduler threads | `CasbinNifProofs` |
| `PolicyStore` | the rules in memory and in the table (`pg_adapter.cpp` under casbin) under failures and crashes | `PolicyStoreProofs` |
| `Migrator` | `migrator.cpp`: `RunMigrations` of several adapters at once | `MigratorProofs` |
| `PolicyStorage` | what `pg_adapter.h` promises: a set of rules, to and from which calls add and remove | |
| `PgStorage` | `pg_adapter.cpp` as data: the columns of a rule, the rows a filter selects, the rules read back | `PgStorageProofs` |
| `NifTerms` | what the NIFs take from a caller's terms | |
| `AtomicCalls` | what a call promises: all or nothing, and an answer that says which | |
| `PgSession` | `pg_adapter.cpp` as control: constructor by constructor, statement by statement, with exceptions | `PgSessionProofs` |
| `MC_*` | instances for TLC | |

The adapter appears in three modules because three things can go wrong
independently. `PgSession` shows that a call is atomic, whatever happens inside
it. `PolicyStore` and `PgStorage` use that: there a call on the table is one step.
`PolicyStore` asks what becomes of the two copies of a rule when these steps
fail, and takes rules as values; `PgStorage` asks what a rule is when it is
written and read, and leaves failures out.

### PgPool and ConnectionPool

`m_mutex`, `m_condition` and `m_pool` are the members of `PGPool`; `conn[t]` is
the `_connection` of the thread's `PoolConnection`; `txn` is the set of
connections with an open `pqxx::work`; `pc[t]` is the place in `connection()`,
in the operation, or in `freeConnection()`. `Call`, `Lock`, `Wait`,
`Reacquire`, `Front`, `Pop`, `Return` are `PoolConnection`'s constructor and
`connection` (27-42); `Begin` and `Finish` are the transaction of the adapter
operation, which ends by return or exception alike; `LockFree`, `Push`,
`Unlock`, `NotifyOne` are the destructor and `freeConnection` (44-56).
`SpuriousWakeup` is what the C++ standard allows of `wait`. Reading the head of
the queue and removing it are separate steps, and the mutex is a variable that
the steps really acquire: exclusion is a result and not an assumption.

`ConnectionPool` has three actions, `Request`, `Acquire` and `Release`.
`ImplementsConnectionPool` states that `PgPool` implements it, with a thread
owning its connection from `Pop` to `Push`.

### CasbinNif

`enforcer` is the global pointer. Objects are enforcers: `status`, `policy` and
`cache` are what lies behind the pointer, `rows` the table. `pc`, `this`, `req`,
`todo`, `dec` are the locals of a thread's handler: where it is, the object it is
inside of, the request, what is left of a mutator, the decision. `vm` becomes
`"null"`, `"dangling"` or `"race"` at the first undefined behaviour, and
nothing is said of what follows.

`ImplementsRuleService` states that `CasbinNif` implements `RuleService`. The mapping takes
the pointer, the objects behind it and the caches away: `Usable` is whether the service is
on, `RulesInForce` the policy of the enforcer that is published, `Asking` the threads in
`enforce` before their decision, `Unsaved` the part of a mutator that is in memory and not
yet in the table, `dec` the answer. The step that decides is `Evaluate` or a `Lookup` that hits.

All nine mutators take the same path, and differ in what they ask casbin to change
(`Rbac`): `MutateGuard` (the test of the pointer), `Invalidate`
(`InvalidateCache`), `Enter` (the call through the pointer), then for each part
`Edit` (memory) and `Persist` (adapter, which may throw), and `EnterAgain` for
the next part. `Enforce` takes `EnforceGuard`, `Lookup`, `Evaluate`, `Store`;
the queries `QueryGuard`, `Find`, `Read`; creation `Construct`, `Publish`;
destruction `DestroyGuard`, `Delete`, `Clear`. Whether a mutator answers `false`
or `{:error, _}` after an exception is not distinguished: both are `"error"`, and so
is the `badarg` that `removeFilteredPolicy` (313-314) and `getFilteredPolicy` (335-336)
raise for an index that is no integer (`TakesIndex`).

What casbin does inside a call is external, and two things are assumed of it: its
cache map is only ever changed as a whole step (it has a lock of its own), and an
evaluation or a query only reads the policy. Should an evaluation not be safe beside
another in some version of casbin, the results below hold with `Overlap = {}`, which
`OnlyReadersOverlap` includes.

The constant `Overlap` says which kinds of call (reader, writer, lifecycle) the
application lets overlap, and `PairedLifecycle` whether it creates an enforcer only
when there is none. The code enforces neither; a run or a theorem that
needs such discipline of the callers says so by these constants.

### PolicyStore

Calls come one at a time here; failures and crashes come between any two steps.
`memory` and `rows` count the copies of each rule in the enforcer and in the
table: the table has no uniqueness constraint (`migrator.cpp:8-18`), `LoadPolicy`
appends what it reads, casbin erases the first copy it finds, `DELETE` removes all.
A call is `ChangeMemory` or `SkipPart`, then `Commit`, `Fail` or `FailInDoubt`
for each part, then `Reply`; `Crash` may come at any point, and `CreateEnforcer`
and `DestroyEnforcer` between calls. `todo` and `pc` are the position in the
call, `done` the rules of its committed parts. `promised` and `suspect` only
observe: what callers were last told of each rule, and the rules whose
copies may differ since a call failed on them.

### Migrator

`columns` is the number of columns of the table that the unqualified name
`casbin_rule` stands for: none, the eight of earlier releases, or the nine of
`createTable`. An adapter's `pc` is where its `RunMigrations` is, and through
`Test` what the count it has read makes it do. The count (29-32), the creation
(5-21) and the new column (23-27) are separate transactions, hence separate
steps; `OtherColumns` is what a table of the same name in another schema adds to the
count. Each of the three may throw, because the server refuses the statement or the connection
is lost: nothing is changed then, or, if the connection is lost during the commit, perhaps the
whole of it (`Throws`). `Crash` ends an adapter between two steps, and `Start` is the next
try. `faults` counts what was thrown and what crashed, up to `MaxFaults`; that `ALTER` fails
because the column has come meanwhile, or `CREATE` because another one commits while it runs, is
not a fault of that kind and follows from `columns`.

### PgStorage, PolicyStorage and NifTerms

`types` are the policy types of the enforcer's model, `model` the rules in its
memory, `table` the rows. A field is a text with two attributes: blank space around
it, which `Trim` (13) takes away, and the number of its quotes, which `esc` (92, 109) doubles. A row has the
seven columns `v0` to `v6`, each a field or `NULL`. `Row` is what the INSERT (131-149)
and, with `Escaped`, what `SavePolicy` (81-115) makes of a rule: what lies beyond
the seventh field is cut. `Line` is what `LoadPolicy` and `LoadPolicyLine` (10-23,
50-57) make of a row. `Equal` and `Selects` are the conditions of the two DELETE
statements (171-179, 202-205). `First` and `Bound` are the counter and the bound of
the loop over a filter: an `unsigned int` and a `size_t`, to which the `int`
`field_index` is converted, so both wrap. `Overruns` and `NoSuchColumn` say when the
loop reads beyond the values, and when the query names a column `v7`.

Each operation of the adapter is an action, with the change of casbin's memory that
comes before it; `CreateEnforcer` loads under any model. `outcome` is `"undefined"`
once the null assertion that `operator[]` makes for an unknown type (22), or the memory
beyond a filter's values (204), has been used; nothing is said of what follows.

`PolicyStorage` has `Add`, `Remove` and `RemoveFiltered` of a set of rules.
`IsStorage` states that `PgStorage`, seen through `Lines(table)`, implements it, with
loading and saving as stutters.

`NifTerms` gives the filters of `MC_PgStorage` their values: a term that is no list
of one-byte characters becomes the empty string without an error
(`casbin_nif.cpp:18-34`), which is a legal argument.

### PgSession and AtomicCalls

`pool` is the queue; `conn`, `txn` and `stream` are the locals `c`, `txn` and `stream`
of an operation: `txn` is the transaction's `m_status`, and a stream is `"open"`
while it is the transaction's focus. `session` is what the server keeps for a
connection: its transaction, whether it is in a COPY, whether it has locked the table, the rows
that its DELETE has locked (`held`), and the rows that its commit will take away (`minus`) and
put there (`plus`). `table` is what is committed, and `inserted` only observes: the rows that
other adapters have inserted since the call began.

`Call` is the constructor of `PoolConnection`, `Begin` that of `pqxx::work`, `Exec` the
statement of the operation, `OpenStream`, `WriteRow` and `Complete` the COPY of
`SavePolicy` (74-122), `Commit` is `commit()`. Any of them may throw, which is
`Leave`; then, as at the end of the call, the locals are destroyed in the order C++
prescribes: `DestroyStream` (which completes the COPY, an exception or not),
`DestroyTxn` (which rolls back), `Checkin`. `Break` closes a connection at any time,
one in the pool as well: nothing opens it again, and it takes its turn in the queue
like the others. `Other` is an adapter in another VM that commits the insertion or the
deletion of a row. The lock that TRUNCATE takes keeps it out of a save. The locks of a DELETE
keep it from deleting the same rows, and not from inserting equal ones: the table has no
unique key (`migrator.cpp:8-18`), and such a row outlives the commit. `AtomicCalls`
therefore promises of a removal that it takes all of its rows in one step, but for those that
others inserted while it ran.

The headers state the effects of these calls on transaction and COPY
(`dbtransaction.hxx:27-35`, `transaction_base.hxx:86-99`, `stream_to.hxx:191-205`); what
PostgreSQL does with the commands is external. The table is a set of rows here, so a
row that is stored twice is not distinguished; `PolicyStore` counts copies.

## 3. What is checked

Runs that must pass:

| run | instance | shows |
|---|---|---|
| `pool` | 3 threads, 2 connections, 1 spurious wake-up | `ExclusiveUse`, `NoneLost`; a thread waits only while all connections are in use or being passed on (`WorkConserving`); somebody can always go on (`SomeoneRuns`), and the steps come to an end (`StepsRunOut`); the inductive invariant `IInv`, with `CleanCheckin` and `NoLostWakeup`; that `PgPool` implements `ConnectionPool` with its liveness; that a waiting thread is served once the others stop (`ServedWhenOthersStop`) |
| `nif_readers` | 3 threads, 2 objects; only reads overlap, creation is paired | `NoUndefinedBehaviour`: the pointer tests suffice then, and no policy is touched by two threads; `CacheCoherent`; `AnswerCurrent`; `NoLeak`; that `CasbinNif` implements `RuleService` (`ImplementsRuleService`) |
| `nif_free` | 2 threads, 2 objects, no roles, the superuser's request too; everything overlaps | up to the first undefined behaviour, `PublishedAlive`, and `NoEscalation`: no race, failure or new enforcer lets a request through that nothing let through before; only a mutator that adds a rule does |
| `store_faults` | 3 rules, 2 failures or crashes | `DurableAck`, `StoredEnforced`, `Agreement`, `NoResurrection`, `CopiesBounded` (each fault adds at most one copy of a rule), and `IInv`; before the first failure `RemovedForGood` and `RowsFollowMemory` |
| `migrator_alone` | 3 adapters, no other table, 3 statements that throw or crashes, retries | `MigratedHasV6`; `FailedWasOvertaken`: a migration in which no statement was refused and no connection lost fails only if another adapter did the work; `RetriesMigrate`: an adapter that tries again and again succeeds once the faults have ended, whatever they left; `IInv` |
| `storage_clean` | 7 rules of 2, 3 and 7 fields, 6 filters, one model | under `CleanRules` and `CleanFilters`: `SameRules`, `CallsSucceed`, and that `PgStorage` implements `PolicyStorage` (`IsStorage`) |
| `storage_wild` | padded, quoted, overlong rules, a type that one model lacks, negative and large indices, empty values | `EveryRowLoadable`, `OverrunOnlyBelow`, and that what was loaded is saved with its quotes doubled and otherwise unchanged (`SavesLoaded`) |
| `session` | 3 connections, 2 rows, 3 failures or broken connections, another adapter that inserts and deletes | `IdleInPool`, `IInv`; that a call implements `AtomicCalls`; no call fails unless a statement failed or its connection broke (`FailsForAReason`); every call ends (`CallsReturn`), since each of its steps uses up one of those it has left (`CallsRunOut`); calls keep succeeding while a connection is left (`SuccessRecurs`) |

Runs in which TLC finds that the code does not do what the repository states:

| run | statement | what happens |
|---|---|---|
| `nif_null` | "Must create and enforcer first." (`casbin_nif.cpp:113`): a call without an enforcer is refused | `destroyEnforcer` runs between the test (112) and the use (121): the call goes through `nullptr` |
| `nif_stale` | after `removePolicy` answered `true`, `enforce` is `false` (`test/casbinex_test.exs:67-68`) | an `enforce` that had evaluated the old policy stores its decision after `InvalidateCache` (158); the cache answers `true` until the next mutator |
| `store_duplicate` | the same | a removal fails in the database but not in memory; adding the rule again makes a second row; after a restart both are loaded, and a removal that answers `true` erases one |
| `storage_empty` | "RemoveFilteredPolicy removes policy rules that match the filter from the storage." (`pg_adapter.cpp:190`) | an empty value, which matches any field in memory, is compared with the column (204): the rules go from memory, their rows stay, and the next `createEnforcer` loads them again |

Divergences that show when a constant or a set of rules is changed, and that
have no run of their own:

- `TableInPolarity = FALSE`: the deletions name `polarity.casbin_rule` (169, 200), all
  else `casbin_rule`; no deletion reaches the table while the memory changes.
- `OtherColumns` above 0: the count of `migrator.cpp:31` is over all schemas, so that
  with a second `casbin_rule` neither test is true and `RunMigrations` returns without a
  usable table; `MigratedHasV6` is violated.
- `Rules <- QuotedRules` in `storage_clean`: `SavePolicy` escapes what `stream_to` escapes
  again (92, 109), and a saved rule with a quote is another rule when it is loaded: each save
  doubles the quotes once more, which `SavesLoaded` states.
- `Rules <- PaddedRules`: fields are stored as given and trimmed when loaded (13).
- `Filters <- NegativeIndex`: with index -1 the loop of 203 does not run, and all rows
  of the type are deleted.
- `Models <- TwoModels` with `OtherTypes`: a row of a type that the model lacks is
  pushed through a null assertion (22).
- the rule of eight fields in `WildRules`: its last field is not stored and no error is
  raised (141-147), though "AddPolicy adds a policy rule to the storage." (126)

**Bounds.** With three threads at two connections one thread always waits, and two
may be woken for one connection; one spurious wake-up is enough for a thread to
find the queue empty again. Two threads in the NIF layer suffice for each race
that the code can have, since each is between two calls, and `nif_readers` has a
third so that two readers meet beside a writer that waits for them; two objects allow an
enforcer to be replaced or created again. One user, one role and one resource give
a request that is allowed directly, through the role, or not at all, and a
`DeleteRole` with both of its parts. With two failures a call fails and its
repair fails too, which the duplicate needs one of. In `session` three faults break two
of three connections and fail a statement on the third, or break all three; two rows let a
save be interrupted between them. `storage_*` have rules that are
prefixes of each other and one that fills all columns. `UIntRange` and `SizeRange`
stand for 2^32 and 2^64, scaled to 16 and 64: all that matters is that indices and
lengths are far below the one and the one far below the other, and the theorems hold
for every such pair. Three faults let each of the three adapters of `migrator_alone` fail once, or
one of them in each of its statements. `MaxQuotes` bounds the quotes of a field that is saved again
and again (two, from one); the theorems have no such bound. `MaxSpurious`, `MaxFaults` and
`Objects` only bound the state space. Roles have no roles in these instances (`Groupings`), though the
matcher's `g` is transitive; casbin's role manager follows links to a limited depth only, which
`HasLink` does not model and these instances do not reach. The theorems of section 4 have no such bounds.

**Deadlock** is checked, except where the model stops at undefined behaviour
(`nif_free`, `nif_null`, `nif_stale`, `storage_wild`, `storage_empty`) or where no further enforcer may be
created.

**Fairness** is assumed in three modules. `PgPool` has weak fairness of each thread's
steps after its call. A thread that can run is run by the operating system, and a
query returns or fails. Nothing is assumed of the order in which the mutex or the
condition variable serve threads, and a thread can be overtaken without end, which is
why `ServedWhenOthersStop` asks the others to stop calling. Calls themselves, and
spurious wake-ups, have no fairness. `PgSession` has weak fairness of `Step`, the next step of
the call that is under way: the thread runs on, and the server answers or the
connection is found closed. Which of the outcomes of a step comes is not assumed; failures
are bounded by `MaxFaults` in number and not in place, so `SuccessRecurs` says that a queue which
rotates passes the broken connections by. It asks that calls keep coming, since nothing
makes them. `Migrator` has weak fairness of each adapter's `RunMigrations`: a statement returns or
throws. Nothing makes an adapter try again, so `RetriesMigrate` is about those that are
constructed again and again; faults end, being at most `MaxFaults`, and their place is free.

**Mutants.** For each property of a passing run a definition named as a mutant
stands beside the one it changes; with it in place TLC finds the property violated.

## 4. What is proved

Every property of the passing runs is stated by a theorem, for instances of every size, except
the five that speak of fairness (the last paragraph of this section). The refinements are
proved step by step, without their fairness. The assumptions on constants are those named in the modules:
`PoolAssumption`, `NifAssumption`, `StoreAssumption`, `MigratorAssumption`, `StorageAssumption`,
`SessionAssumption`. Among them are that sets which are counted are finite, that
there is a connection (`POOL_SIZE` is 4), and that the rows of one call are finitely many.

### PgPoolProofs: all finite sets of threads and connections

- `PoolTypeOK`, `PoolExclusiveUse`, `PoolNoneLost`, `PoolCleanCheckin`, `PoolNoLostWakeup`, and
  `PoolImplements`: every step of the pool is a step of `ConnectionPool` or leaves it unchanged. All
  follow from the inductive invariant `IInv`, which adds `LocationInv` to the five: between lock
  and unlock the thread owns the mutex, and what `front` returned is still the head of
  the queue. The argument for `NoLostWakeup` counts: each `Push` is followed by a
  notification of the same thread, and each thread that takes a connection was active.
- `PoolWorkConserving` is what `NoLostWakeup` and `NoneLost` come to: every connection is in the
  queue or held, and as many threads are on their way to the queue as it has connections, so while
  one thread waits the others make up the number of connections.
- `PoolSomeoneRuns`, `PoolStepsRunOut`: from `WorkConserving`, unless all are idle, some thread can
  take its next step; and each such step uses up some of a budget (`StepsLeft` for each
  thread). The loop around `wait` would spoil that budget, since a woken thread may have to wait
  again: the thread that calls `notify_one` has three steps left for the one it takes, and
  gives two to the thread it wakes. The two theorems together are what termination under weak
  fairness of the threads rests on.

### CasbinNifProofs: all sets of users, roles, resources, threads and objects

The theorems differ in what they ask of the callers, which is what the code leaves to them:

| asked of the callers | theorems |
|---|---|
| nothing | `NifTypeOK`, `NifPublishedAlive`, `NifNoEscalation` |
| lifecycle calls overlap with nothing (`LifecycleExclusive`) | `NifNoBadPointer`, `NifNullNeverUsed`; if they are paired as well, `NifNoLeak` |
| that, and readers do not overlap with writers (`ReadersApart`) | `NifCacheCoherent`, `NifAnswerCurrent`, `NifDeniedOnceRemoved` |
| nothing but reads overlap (`OnlyReadersOverlap`) | `NifNoUndefinedBehaviour`, `NifImplementsRuleService` |

- `PointerInv`: past the test the pointer is usable, and the object a thread is in is the one
  published; `OverlapInv` says which threads can be where.
- `CacheInv` adds to coherence that a decision on its way to the cache is still right, and that a
  mutator past the invalidation finds the cache empty. Two writers may overlap for that, as each
  empties the cache and neither fills it; they are then a data race, so
  `NifNoUndefinedBehaviour` needs more.
- `LoadInv`, for the refinement: what a new enforcer has loaded is still what the table holds when
  it is published, and between `delete` and the assignment of `nullptr` nobody gets through.
- `NifNoEscalation` follows every place a permission can come from (`Granted`): rules in memory, rows,
  cached decisions, decisions under way. It rests on `AllowedMonotone`: more rules never
  allow less, so a removal, whole or half done, grants nothing.

The runs `nif_null` and `nif_stale` violate `NullNeverUsed` and `DeniedOnceRemoved` without these
assumptions: they cannot be dropped.

### RbacProofs: the operations of the NIFs on any rules

Besides the lemmas the other modules use, what a call that runs through does to decisions, with
roles of roles: `RbacDeleteRole` (after both parts nobody else has the role and it allows nothing),
`RbacDeleteRolesForUser` (only the user's own rules are left to allow its requests), `RbacAddRole` (the
user may do what the role may, and nothing allowed before is refused).

### PolicyStoreProofs: any rules, any number of failures and crashes

- `StoreTypeOK`, `StoreDurableAck`, `StoreStoredEnforced`, `StoreAgreement`, `StoreNoResurrection`,
  for either value of `TableInPolarity`. `IInv` adds `CallInv` (nothing is promised of a
  rule in flight, committed parts stay as they were committed) and `CopiesInv` (what is not
  suspect has one copy in each place or none).
- `StoreRemovedForGood` and `StoreRowsFollowMemory` are about the time before the first failure,
  where deletions find the table (`Faultless`). Their invariant, `FaultlessInv`, is that
  nothing is suspect then; with `IInv` it says that each rule has one copy in each place or
  none, the part of the call under way aside.
- `StoreRemovedUnlessSuspect` and `StoreCopiesBounded` are about the time after it, and put a limit to
  what `store_duplicate` shows: a removal answered `true` fails to work only for a suspect
  rule, and a rule has at most one copy more than there were faults. `CountInv` is the inductive
  form of the second: a rule that is not in memory, or is on its way from there to the table, has
  a row for each fault that kept one there, and no more.

### PgStorageProofs: all rules and filters, all widths of the integers

- With no assumption: `StorageTypeOK`; `StorageEveryRowLoadable`, because a rule is added only if
  the model has its type; `StorageGapless`, no row has a field after a NULL; from that
  `StorageSavesLoaded`: whatever blanks, quotes or lengths the rules had, a save after a load
  keeps them all and changes nothing in them but that it doubles their quotes; `StorageAddsKept`, an
  addition puts the first seven fields of the rule, trimmed, into the table and takes nothing
  from it; and `StorageOverrunOnlyBelow`, which is arithmetic modulo the two ranges.
- For rules of at most seven fields without blanks, quoted or not: `StorageAddsRule`, an addition
  stores the rule as it is. The comment at 126 promises that for all rules; the padded and the
  overlong ones are among the divergences above.
- Under `CleanRules` and `CleanFilters`: `StorageTableIsModel`, `StorageSameRules`,
  `StorageCallsSucceed`, `StorageRemovesMatching`, and `StorageImplemented`: `PgStorage`
  implements `PolicyStorage`. They rest on two lemmas: `Line(Row(r)) = r`, and that
  `Selects(f, Row(r))` is what casbin means by a match; `TableIsModel` is the invariant.
- Under `CleanRules`, with any filters: `StorageCleanFilterRemoves`, a deletion with one clean filter
  is right whatever was used before; and, if no filter has a negative index
  (`NaturalFilters`), `StorageNothingLost`: an empty value or one beyond the last column makes
  the adapter keep rows that it should delete, as `storage_empty` shows, and never delete
  one that it should keep. A negative index can, which is the divergence `NegativeIndex` above.

### PgSessionProofs: any finite number of connections, any rows and faults

- `SessionTypeOK`, `SessionIdleInPool`, and `SessionImplements`: every step of a call is a step of
  `AtomicCalls` or changes nothing there. `IInv` adds to the invariants which locals exist at
  each place of a call (`LocalsInv`) and what the server has been told by then (`ServerInv`):
  at `Commit` the session holds exactly the effect of the call on the table as it is then, which
  for a save needs the lock that TRUNCATE took. For a removal it holds the rows of the call that are
  in the table, but for those inserted since the call began: what others delete cannot be among
  them, since they are locked.
- `SessionFailsForAReason`: the order of the steps is never itself the cause of a failure; the COPY is
  complete and the stream closed when the commit comes.
- `SessionCallsRunOut`: `StepsLeft` counts the statements, rows and destructors before a call; every
  step of the call lessens it, a step that throws too, and nothing else changes it.

### MigratorProofs: any number of adapters, no other table of the name

`MigratorIInv`, `MigratorTypeOK`, `MigratorHasV6` and `MigratorFailedWasOvertaken`. `AnswerInv` says
what a count still says when it is acted on: the table only ever goes to the present one. It
holds whatever statements throw and whatever a commit in doubt has done, for any number of
faults. `MigratorFailedWasOvertaken` follows from it: a migration that fails although no
statement of it was refused and its connection held, found the table complete.

### Only model-checked

Liveness under fairness is out of the prover's reach: `ServedWhenOthersStop`, the fairness part of
`ImplementsConnectionPool`, `CallsReturn`, `SuccessRecurs` and `RetriesMigrate`. So is ENABLED, and with it that
`Runnable(t)` is whether a step of `t` is enabled, which the definition repeats guard by guard.
Of the first and the third, `SomeoneRuns` with `StepsRunOut`, and `CallsRunOut`, are the parts that are
proved.

## 5. What is not modelled

- *casbin-cpp* is not in the repository. Its part in a call is external: memory first,
  then the adapter; the first copy of a rule removed; decisions cached; an empty value of a
  filter matching every field.
- *libpqxx*: the repository holds its headers, once for each of two architectures, and they are
  most of the lines under `c_src`. The adapter uses the classes `connection`, `work`, `result` and
  `stream_to`, and `PgSession` has their effects on transaction, COPY and connection; the bodies are
  in a library that is not here. Large objects, cursors, pipelines, arrays, notifications
  and the conversions of numbers are used by nothing in this program, and nothing
  is said of them. This is why the share of all lines that the modules stand for
  is small, while `casbin_nif.cpp`, `pg_adapter.cpp`, `pg_pool.cpp` and `migrator.cpp` are covered
  handler by handler.
- *An enforcer on a policy file*: `createEnforcer` with a path that does not begin with
  `postgres` (84-86) takes casbin's own file adapter, under which mutators write no rows. `Construct`
  is the other branch.
- *Term conversions*: `VectorToList`, and strings that contain a NUL, on which `enforce` (121)
  and `VectorToList` stop, are not modelled; fields are values without characters.
- *`lib/casbinex.ex`*: stubs without state. What its callers may do at the same time is the
  constant `Overlap`.
- *Composition*: NIF threads, store, storage and pool are composed by contract and not in one
  state space: `PgPool` gives each call a connection of its own, `PgSession` makes
  the call atomic, `PolicyStore` and `PgStorage` build on atomic calls, and `CasbinNif` has
  the table as a set that a call changes in a step or not at all. Calls of several threads on
  several connections at once meet in `PgPool` and in `Other` of `PgSession` only.
- *Tests, build and packaging* have no behaviour of the program.
