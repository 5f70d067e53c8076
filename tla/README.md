# TLA+ models of zentral

This directory holds TLA+ specifications of the parts of zentral (the source
tree under `src/`) that hold state and interleave, along with the TLC
configurations that check them. `PROJECT.json` lists every component, every run,
the mutants that show each passing property can fail, the source lines each
definition translates, the findings and the hazards.

## The system and its parts

| Part | Source | What it does | State and concurrency |
|---|---|---|---|
| Configuration resolver | `zentral/conf/config.py` `Resolver` | Fetches files, AWS secrets, SSM parameters and S3 bucket files for `{{ type:key }}` placeholders. It caches them in a dict: secrets and parameters for 600 s, files and bucket files forever. | A cache shared by every thread of the process. It has **no lock**: the cache is checked, the getter is called, and only afterwards is the slot overwritten. |
| Placeholder proxies and filters | `config.py` `EnvProxy`, `ResolverMethodProxy`, `*Filter`, `_make_proxy` | Each read evaluates the placeholder: it gets the raw value, then applies `jsondecode`, `base64decode` and `element:` from left to right. | Pure. It keeps no state apart from the resolver. |
| ConfigDict / ConfigList | `config.py` `BaseConfig`, `ConfigDict`, `ConfigList` | These wrap dicts and lists. Placeholder strings are stored as `Proxy` objects and resolved on every read. Nested containers are wrapped on read. | A nested container is built **without** the parent's resolver (line 179), so it gets a new `Resolver` and a new cache. |
| MDM management views | `contrib/mdm/views/management.py` | Create, update and trash kernel-extension policies, enrollment packages and configuration profiles. After the commit, the affected devices get a push notification. | Concurrent requests, serialised by `select_for_update` on the meta business unit row. `transaction.on_commit` delays the notifications. |
| MDM command dispatch (modelled from the spec: `MdmDispatch`) | `tests/mdm/test_commands.py` only | Works out the next command for a device or user channel, and handles the acknowledgements and errors. | Per-channel state in the database, changed by device check-ins and by administrators. Devices can drop commands. The implementation is not in this tree. |
| Account forms and `create_zentral_user` (modelled: `UserAccounts`) | `server/accounts/forms.py`, `.../create_zentral_user.py` | Invitation domain check, service accounts, and the idempotent creation of users and API tokens. | Check-then-create against the database, which concurrent runs can race. |
| Santa serializers (modelled: `SantaRuleSet`) | `contrib/santa/serializers.py` | Validate rule set updates and reject conflicting and duplicate rules. | Pure validation. |
| scepclient releases (modelled: `ScepRelease`) | `contrib/filebeat/scepclient_releases.py` | Downloads a release zip and extracts the binary into a cache directory, once. | The file system, shared by workers. A download can crash partway. |
| Middlewares, realm backend | `server/base/middlewares.py`, `inventory/events/middlewares.py`, `realms/backends/base.py` | CSP headers, deployment info, a per-event machine cache, and the realm session key. | Local to the request. Nothing interleaves. |

The parts interact as follows. Every other part reads its settings through
ConfigDict. A ConfigDict resolves its proxies through a Resolver. The
Resolver's cache is where threads interleave.

## Modules

### `ConfigResolver` (with `MCConfigResolver`): the resolver cache

The model has these variables:

- `cache[r][ck]` is the `_cache` of each Resolver instance `r`. The key
  `ck = <<"SECRET", name>>` and so on, as built at lines 102, 111, 121 and 131.
- `upstream` holds the current version of each secret or file.
- Each thread has a program counter `pc`, the read it serves `req`, and the
  value its getter returned `got`.
- `returned`, `hi` and `floor` are ghosts. `returned` is the read this step
  answered. `hi[k]` is the highest version of `k` any read has returned so far.
  `floor[t]` is `hi` of thread `t`'s key at the moment its read began. A read
  that returns less than its floor has gone back to a version older than one
  the process had already served before that read started.

`_get_or_create_cached_value` is split at the one place where another thread
can step in:

- `CacheHit` / `CacheMiss` cover the lookup and the expiry test (lines 83-90).
- `Getter` / `GetterFails` cover the upstream call at line 94, which returns or
  raises.
- `Store` covers the expiry computation, the overwrite and the return
  (lines 95-99).

Time is kept as each entry's age in ticks, capped at `TTL`. The code's test
`time.time() < expiry` only tells ages below TTL apart from the rest, so the
cap is exact. `Rotate` is an operator changing a secret.

**Fairness.** The clock keeps running (`WF(Tick)`). A thread inside a getter
eventually writes its result (`WF(Store)`). An upstream call eventually
succeeds (`SF(Getter)`): strong fairness is needed because `GetterFails`
disables it again. The code retries nothing itself. The assumption is that
the secret store is eventually reachable.

### `PyDict`: dict operations

This module holds the operations of a Python dict that `ConfigDict` changes
its `_collection` with. A dict is a sequence of `<<key, value>>` pairs in
insertion order. `Put` is `d[k] = v`: an existing key keeps its position. `Drop`
is `del d[k]`.

### `ConfigDict` (with `MCConfigDict`): ConfigDict methods and conversions

The variables follow the code:

- `coll` is `_collection`, a sequence of `<<key, entry>>` pairs kept in
  insertion order.
- An entry is a plain value `Val(x)` or a `Proxy(p)`.
- `out` is what the last call returned or raised.

`FromPython` / `ToPython` are `_from_python` / `_to_python`. The outcome of
resolving a placeholder (a value, `KeyError` or another error) is the
constant `Resolution`, so the filter chain is abstracted here.

Each method is one action: `GetItem`, `Get`, `SetItem`, `DelItem`, `Pop`,
`PopItem`, `SetDefault`, `Update`, `Clear`. `Init` is built from every small
input dict. The ghost `call` only names the step in a trace.

### `ConfigValues`: stored entries and their resolution

This module is shared by `ConfigDict` and `ConfigList`. It defines the plain
value `Val(x)`, the `Proxy(p)` for a placeholder, the errors, and
`FromPython` / `ToPython` (`_from_python` / `_to_python`, lines 176-188).

### `ConfigList` (with `MCConfigList`)

`ConfigList` has one action per method:

- `GetItem` and `GetSlice` cover `__getitem__` with Python's index and
  slice-bound normalisation.
- `Iter` covers `__iter__`.
- `SetItem` and `DelItem` cover the `BaseConfig` methods.
- `Pop` covers `BaseConfig.pop`. It calls `list.pop(key, default)` and always
  raises `TypeError`.

Resolving a read is `ResolveAll`: a list of values, or the first error.

### `ProxyChain` (with `MCProxyChain`): placeholders and filters

- A placeholder is `[type, filters]`.
- `Matches` is `PROXY_VAR_RE`.
- `MakeProxy` is `_make_proxy`, a `FoldLeft` that wraps each filter around
  the chain built so far.
- `Get` is the recursive `get()` of the proxy and filter classes.
- `Subscript` is `ElementFilter`'s `get()[key]` with `int(key)`.

Texts and JSON documents are model values. Their decodings (`JsonOf`, `B64Of`)
and shapes (`Kind`, `Members`) are constants. One `Read` step resolves one
leaf from any content of its source.

### `MbuArtifacts` (with `MCMbuArtifacts`): the MDM management views

Each request is one transaction under READ COMMITTED, with these variables:

- `db` holds the committed rows. A row keeps its MBU and its trashed flag.
- `wr` holds the transaction's own writes.
- `lock` holds the row locks, which are held until commit.
- `pc` and `ctx` hold the request's step and its view, MBU, row and snapshot.

A request takes three steps:

1. One of:
   - `SelectPolicies`: the create view's `select_for_update().filter(...)`;
   - `LoadRow`: `get_object()` of the update and trash views, without a lock;
   - `NewRow`: the package and profile creates.
2. `Save`: the `UPDATE` or `INSERT`, waiting for the row lock.
3. `Commit`: the writes become visible and the locks are released.

The `transaction.on_commit` push notifications to the MBU's devices are
external I/O and are left out.

### `UserAccounts` (with `MCUserAccounts`): users, invitations and service accounts

This module models the `User` table shared by three writers:

- the `create_zentral_user` command;
- `InviteUserForm`;
- `ServiceAccountForm`.

Its variables:

- `users[n]` is the row of username `n`, or `NoUser`. A row holds `email`,
  `is_superuser` and `is_service_account`.
- `tokens` is the set of users that hold an API token.
- `invited` is a ghost set of the users an invitation was saved for.
- Each process has `pc`, its `job`, the lookup result `found`, the row it
  fetched (`loaded`), and the `done` outcome of its last job.

Every ORM query is its own step, since the code runs in autocommit and opens
no transaction. The actions are:

- `ByName` and `ByEmail` cover the two lookups of the command (lines 52-71).
- `Write` covers the create, skip or promote of lines 73-96.
- `Token` covers the token creation.
- `Mail` covers the password-reset mail.
- `Validate` covers `InviteUserForm.clean_*`.
- `InviteSave` covers `InviteUserForm.save`.
- `Clean` covers `ServiceAccountForm.clean`.
- `ServiceSave` covers `ServiceAccountForm.save`.

`accounts.models` is not in the tree. The model takes the schema of Django's
`AbstractUser`, where username is unique, and assumes email is unique too. An
`INSERT` that breaks either index raises `IntegrityError`. Nothing catches it,
so it is recorded as the outcome `crash`.

Emails are model values. `DomainOf` is what `split("@")[1]` yields, and
`MailDomain` is where the mail is delivered. The two differ only for a quoted
local part that contains `@`.

### `ScepRelease` (with `MCScepRelease`): the scepclient binary cache

`get_scepclient_binary` is called by several worker processes at once, and
they share the release directory. The variables:

- `onDisk` holds the binary paths that exist.
- `data[pl]` is the set of 64 KiB chunks present in each file.
- Each worker has its line `pc`, its `plat` argument, the zip member it is
  extracting (`member`), and its write offset `off`.
- `served` is a ghost. It holds the file contents whose path a call returned.

The actions are:

- `Call` covers the directory setup and the `os.path.exists` test.
- `Download` covers the download into the call's own temporary zip, as one
  step. The zip is private, so nothing else sees it. A failure raises.
- `Open` covers `open(path, "wb")`, which creates or truncates the file.
- `WriteChunk` writes one chunk at the worker's own offset.
- `CloseBinary` moves on to the next member.
- `Chmod` returns the path, or raises `FileNotFoundError`.
- `Crash` models a worker that is killed at any line, for example by the
  server's worker timeout during a slow download. What it wrote stays on disk.

### `SantaRuleSet` (with `MCSantaRuleSet`): the rule set update validator

The serializers are a pure computation over the request and the database, and
they follow Django REST framework's two stages:

1. The field stage. A blank `custom_msg` is rejected here, as a `CharField`
   without `allow_blank`. Each rule goes through `RuleUpdateSerializer.validate`
   (`RuleValidate`), and `validate_configurations` checks the names
   (`UnknownConfigs`).
2. Only when every field is valid does `RuleSetUpdateSerializer.validate` run.
   `RuleSetErrors` is its loop: the `keys` set for duplicates, the conflict
   query (`Conflicts`) over `SelectedConfigs`, and the bundle check, with each
   later error of a rule overwriting the earlier one.

`IsValid` gives one of three results: the field errors, the `rules` errors of
`validate()`, or the cleaned rules. `Validate` is the one call of `is_valid()`.

The database is a constant input. It holds configuration names, stored rules
`[ruleset, config, type, sha]` and uploaded bundles. `Rule.BUNDLE_POLICIES`
and the target types come from `santa.models`, which is not in the tree, so
they are constants as well.

### `MdmDispatch` (with `MCMdmDispatch`): command dispatch for one device

The dispatcher is not in this tree. This module is written from spec §3, §4.1
and §7, and from what `tests/mdm/test_commands.py` asserts of it. Every map
entry is therefore marked `spec_modelled`. The tests fix three points the spec
leaves open:

- `_get_next_queued_command` returns only a queued command. A command already
  sent is not returned again (`test_device_information`).
- `_install_artifacts` and `_remove_artifacts` skip an artifact version whose
  command ended in Error (the `*_previous_error` tests).
- The `DeviceArtifact` row is written or deleted only on `Acknowledged`.

The variables:

- `bp` is the blueprint's artifacts. `latest[a]` is the newest version.
- `installed[a]` is the `DeviceArtifact` version, 0 for none.
- `awaiting` is `awaiting_configuration`. `queued` counts the queued
  `DeviceInformation` commands.
- `held` is the command the device was sent and is executing.
- `errored` is the set of commands whose status is Error.
- `lost` counts commands the device dropped. `edits` counts administrator
  changes.

`NextCommand` is the resolution order of §4.1: a queued command, then
`DeviceConfigured`, then the first install of `InstallSet` in priority order,
then the first removal of `RemoveSet`, else none. `AfterAnswer` is
`process_response`.

The actions:

- `Poll`: an Idle check-in. It gets the next command, or an empty response
  that changes nothing.
- `Answer(st)`: `process_response` with `Acknowledged` or `Error`, then the
  next command, in the same request.
- `Lose`: the device drops what it holds. The command stays sent with no
  result.
- `Publish`, `Assign` and `QueueInfo`: the administrator's changes.

Only the Device channel is modelled. The User channel has independent state of
the same shape. Platforms, `auto_update` and `install_before_setup_assistant`
are left out, because neither the spec nor the tests say how they change the
choice.

## Runs

| Run | Checks | Result | What it shows |
|---|---|---|---|
| `resolver` | EventuallyFresh | pass | Two threads read a secret and a file of the same name through one resolver while both change. A rotated secret is always served eventually, whatever refreshes interleave. |
| `resolver_race` | ReadsNeverGoBack | **violation** | T1 and T2 both miss. T1 reads v0. The secret rotates. T2 reads v1, stores it and returns it. T1 then stores v0 over the slot (line 96). A read that begins after T2's has returned hits the slot and gets v0, older than what the process already served, for a whole TTL. This contradicts spec §5, which calls concurrent refreshes idempotent overwrites of one cache slot. With one thread and two Resolvers, the nested-section case of line 179 breaks the same property. |
| `dict_reads` | ReadsReturnResolution | **violation** | `setdefault(k1, pOk)` on an empty dict returns the stored `Proxy`, not its value (line 274). `get` answers a present key whose placeholder raises `KeyError` with the default (line 252), where spec §7 says resolution errors are fatal; TLC reaches that case once the setdefault case is taken out of the property. |
| `proxy_chain` | TypeOK, FiltersComposeLeftToRight | pass | The wrapper chain, read recursively, applies the filters left to right and stops at the first exception. |
| `list_api` | TypeOK | pass | Every ConfigList method over lists of up to two values and placeholders, negative indices and clamped slices included. No read hands out an unresolved `Proxy` or a raw placeholder, and every stored entry is what `_from_python` makes of the value. |
| `kext_first_create` | AtMostOnePolicy | **violation** | Two first creates of a kernel extension policy for an MBU that has none. `select_for_update` locks only existing rows, so both select nothing, lock nothing and insert a policy. This contradicts spec §5 and the comment at line 151. |
| `users` | TypeOK, CommandLeavesUserAsRequested | pass | One process runs every command, invitation and service-account job in sequence against the same table. A command that reports success leaves the user with the requested email, superuser flag and token. |
| `users_race` | NoUnhandledError | **violation** | A `create_zentral_user` run and an invitation for the same name both pass their checks, and the second `INSERT` raises an unhandled `IntegrityError` (forms.py line 94). Spec §7 says a duplicate is a form field error. |
| `invite_domain` | InvitesOnlyToAllowedDomains | **violation** | `"x@corp@y"@evil` passes `EmailValidator`, and `split("@")[1]` yields the allowed `corp`. The invitation is saved and mailed to `evil` (forms.py line 83). |
| `scep_partial` | ReturnsCompleteBinary | **violation** | Worker 1 finds no binary, downloads, and opens the final path for writing (line 45), which leaves the file empty. Worker 2 then sees the path exist (line 24) and returns it. A worker killed during extraction leaves the same partial file, which is then returned for ever. |
| `mdm_dispatch` | ConvergesToBlueprint | pass | The device may acknowledge, fail or drop any command, and the blueprint and versions may change under it. Once `DeviceConfigured` is acknowledged, the device always ends up with its blueprint: every assigned artifact at its latest version and every other artifact removed, except where that exact command failed. |
| `santa_rules` | RejectsExactlyTheFaultyRules | pass | Every update in the bounded universe is checked: single rules of every kind, pairs of plain rules, with and without a configurations list, known and unknown names, against two databases. A rejection lists exactly the faulty rules at the stage that rejects them, and an update without one is accepted. |

Each passing property has a mutant in `PROJECT.json`: a plausible bug in the
mapped code that TLC must catch. The mutants are:

- an expiry that is ignored;
- `os.environ.get` in place of `os.environ[...]`;
- a filter chain built in reverse;
- a list item stored without `_from_python`;
- a service account row saved without its email;
- a promotion that is never saved;
- the rules of the rule set being updated counted as conflicts;
- "not yet installed" read as "no `DeviceArtifact` row", so a new version is
  never installed.

Some bugs that were met while modelling are not the first counterexample of
any run. They are listed as hazards in `PROJECT.json`:

- A device that drops a command and checks in again gets a new command while
  the first is still outstanding. An invariant `lost + (held # None) <= 1`
  fails in four steps, against spec §3's at most one outstanding command.
- A device that answers `DeviceConfigured` with Error gets it again on every
  check-in, so its artifacts are never installed.
- `element:0` cannot read the JSON key `"0"`, and `element:-1` reads from the
  end of an array.
- `TrashEnrollmentPackageView` notifies nobody, and
  `UpdateKernelExtensionPolicyView` moves a policy to the MBU of the URL and
  notifies only that MBU. The notifications are not modelled.
- `ConfigDict.update` applies only the last positional mapping, and
  `update(**kw)` raises `UnboundLocalError`. The model keeps this behaviour,
  and the dict runs call `update` with one mapping.
- A Santa rule set validated while another rule set update is being applied
  can pass the conflict check. The view that applies an update is not in the
  tree.
- `{{ env:X | gzip }}` and `element:x.y` do not match `PROXY_VAR_RE`, so they
  are read back as literal text. Spec §4.2 says an unknown filter is a
  resolution error. `ResolvesAsSpecified` in `ProxyChain` states that reading,
  and TLC breaks it in two steps; no run checks it.
- `ConfigList.pop` always raises `TypeError`. The model keeps this behaviour.

## Bounds

- **Resolver.** One name is enough: the properties are per key, and no code
  path relates two names. `TTL = 2` ticks gives an entry that is fresh, one
  that is about to expire and one that has expired. `MaxVersion = 2` lets a
  second rotation land while an older refresh is in flight. Two threads are the
  fewest that can race. Two sources with the same name can collide in the cache
  only through the key prefix.
- **Dict.** Two keys, two scalars and two placeholders: one resolves to a
  scalar and one raises `KeyError`. Two keys make order observable (`popitem`,
  `update`). The update calls carry one positional mapping, as the
  configuration code calls it.
- **List.** `MaxLen = 2`, with indices `-3..2`: every in-range index from both
  ends, and one past each end.
- **ProxyChain.** Up to two filters. The type and filter words include an
  unknown one of each (`vault`, `gzip`). The element keys are `0`, `-1`, `a`,
  and `x.y`, which falls outside the key alphabet. There is a JSON object with
  a `"0"` key, an array, a base64 text and a plain text.
- **MBU views.** Two requests, two MBUs and three policy rows. In
  `kext_first_create` no MBU has a policy yet and both requests run the
  create view, which is the case `select_for_update` cannot lock.
- **Users.** The `users` run has one process. Its jobs give each of the two
  names:
  - a command with an email that is free and one that is a service account's;
  - a blank name with an invalid email;
  - invitations to three emails, one of them taken by a service account;
  - a service account, blank name included.

  TLC explores every sequence of jobs, so every lookup outcome is reached:
  create, skip, promote, email owned by another user, and username or email
  clash. The race runs use two processes, which is the fewest that can race.
  `invite_domain` adds the one email whose split domain and delivery domain
  differ.

- **scepclient.** Two workers, the fewest that can race. There are two
  platforms, both in the zip, so one call extracts a binary another call did
  not ask for. `Chunks = 2` makes a file that is partly written differ from
  an empty one and from a complete one.
- **MDM dispatch.** There are two artifacts, so the priority order and an
  install ahead of a removal are observable. Two versions let a new version
  supersede an installed or failed one. Three administrator changes allow
  assign, publish and unassign, or a queued command among them. One dropped
  command reaches the re-send. `Init` has both values of `awaiting` and every
  blueprint.
- **Santa.** There are two rule types, since `BUNDLE` is the only one with its
  own checks, and two hashes. The inputs cover:
  - every policy;
  - a custom message that is absent, blank or set;
  - one value in one list and/or in its `excluded_` list;
  - two rule sets, as the updated one and the other;
  - a configurations key that is absent, empty, known or unknown.

  The second database holds a rule of the other rule set, a rule outside any
  rule set, a rule of the updated set, and one uploaded bundle. Pairs of
  rules reach duplicates and a duplicate that also conflicts. Each behaviour
  is one `is_valid()` call, so the run does not check deadlock.

## Fairness

Only `EventuallyFresh` is a liveness property, and it assumes three kinds of
fairness:

- `WF(Tick)`: the clock keeps running.
- `WF(Store)`: a thread that got a value stores it.
- `SF(Getter)`: the upstream store is eventually reachable. Strong fairness is
  needed because a failing call disables the getter again.

The code retries nothing itself. A later read simply misses again.

`ConvergesToBlueprint` assumes weak fairness of `Poll` and of `Answer`: an idle
device keeps checking in, and a device holding a command eventually reports a
status for it (spec §7: retries are driven by device re-polling). The status
may be Error. `Lose` has no fairness, and the administrator's actions are
bounded. The property is conditioned on `DeviceConfigured` being acknowledged
at some point, because an Error for it is re-sent for ever.

## What is not modelled yet, and the plan

Next, in this order:

1. **MbuArtifacts lost update.** A property for a trash or update that writes
   back a stale row loaded without a lock (line 196).
2. **TOTP / U2F** registration, a check-then-create like the invitation.
3. **MdmDispatch**: the User channel, `auto_update` and
   `install_before_setup_assistant` once their effect on the choice is known.

Not modelled, and why:

- The middlewares and the realm session check are formatting local to one
  request, with no interacting state.
- The read-only views are query and template code.
- The TOTP and U2F forms delegate to external libraries.
- The Santa fileinfo tree builders are formatting.
