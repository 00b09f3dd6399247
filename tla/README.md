# A verification of the Tyk Identity Broker

The Tyk Identity Broker (TIB) is a small HTTP service that stands between
identity providers (social login, LDAP, SAML, another web application) and the
Tyk API management platform. An administrator describes each way to log in by a
*profile*; a user who logs in through a profile is given a session for the Tyk
dashboard, a session for the developer portal, an OAuth token or an API token.

This directory models the parts of TIB that keep state and whose correctness
depends on the order in which things happen. The modules are written from the Go
source; `PROJECT.json` maps each definition to the lines it models.

## The system

| component | source | state it keeps | operations |
|---|---|---|---|
| Profile management API | `api.go`, `tap/profileActions.go`, `backends/in_memory.go`, `data_loader/file_loader.go` | the map of profiles in memory, the profiles file, its backups | add, update, delete, list, get; each change is followed by a flush to disk |
| Token handlers | `tap/identity-handlers/tyk_handler.go` 340-514, `tyk-api/tyk_api.go` 485-592 | a reference to the last token of each identity, in the identity store; the tokens themselves live in Tyk | look up, revoke, issue, store |
| Dashboard and portal handlers | `tyk_handler.go` 148-338, `tyk_api.go` 347-451 | developer records and nonces, in the dashboard | create nonce, find, create and update developer |
| Social provider and login state | `tothic/tothic.go`, `toth/toth.go`, `providers/social.go` | path parameters under one key per profile, a session cookie per browser | begin, callback |
| MongoDB loader and backend | `data_loader/mongo_loader.go`, `backends/mongo.go` | the profiles collection | load, flush, set, get, delete |
| Redis backend | `backends/redis.go` | identity references, path parameters | set, get, delete |
| Start-up | `main.go`, `initializer/`, `configuration/`, `data_loader/data_loader.go` | globals: stores, data loader, session store, error handler | `init`, `main` |
| Login entry points | `http_handlers.go`, `providers/tapProvider.go` | none | set up handler and provider for one request, dispatch |
| LDAP, proxy and SAML providers | `providers/active_directory.go`, `proxy.go`, `saml.go` | one object per request, a connection, a request-tracking cookie | `Init`, `Handle`, `HandleCallback`, `HandleMetadata` |
| Utilities | `internal/jwe`, `providers/util_*.go`, `error/`, `log/` | none | pure functions and output |

How they interact. `net/http` runs each request in a goroutine of its own. The
globals of `main.go` are shared by all of them: `AuthConfigStore` (profiles,
always in memory), `IdentityKeyStore` (token references, Redis in the shipped
binary, any backend when TIB is embedded) and `tothic.pathParams` (Redis). A
login finds its profile in `AuthConfigStore`, builds a fresh provider and a fresh
identity handler, and the provider, immediately or in the callback of a second
request, calls `CompleteIdentityAction` of the handler, which calls Tyk over
HTTP. The profile API changes `AuthConfigStore` and calls `Flush` of the data
loader, which writes it to a file or to MongoDB; at the next start
`LoadIntoStore` reads it back.

What is hard, and which properties make each part correct:

* **Profile API.** `RWMutex` guards one access to the map; nothing guards the
  check, change and flush of a request together, and nothing guards the files.
  Correct means: a refused request changes nothing, what is saved is what the
  store held, an `ok` means it is saved, no step destroys the last copy of a
  list (which fails in one case, see `NothingLost` below), a restart brings back
  what was saved.
* **Token handlers.** Four calls to other processes, each of which may fail or
  lose its answer, and most of whose errors are logged and passed over. Correct
  means: one live token per user and profile, no login revokes a token of
  somebody else, a user who is turned away is given nothing, every login is
  answered.
* **Portal handler.** A read-modify-write of a record in another process, whose
  read takes every error but 401 for "no such developer". Correct means: the
  nonce in the redirect is the one in the record, one record per SSO key.
* **Social login.** Two requests of one browser with state between them, part of
  which is shared by all users of the profile. Correct means: a callback is
  completed with the provider its login began with.
* **MongoDB.** A flush deletes all and inserts one by one, `SetKey` deletes and
  inserts, and nothing makes either one step. Correct means: the collection holds
  only what somebody asked to keep, and what was written undisturbed stays and is
  what readers find.
* **LDAP, proxy and SAML logins.** A chain of calls to servers that know the
  users, under a profile that may be edited meanwhile. Correct means: only an
  identity that the server of the profile has vouched for is acted on, a login
  that can succeed does unless a call of its own fails, what is opened is
  accounted for, different people get different keys, except in ways that can be
  listed.
* **Start-up.** `init` returns early on errors, `main` serves all the same.

`PROJECT.json` lists each hazard at its line with the properties that cover it.

## Modules

`Registry` states what the profile API promises: a registry with atomic add,
update and remove, a saved copy that is the registry of some moment of the
present or unreadable, and a restart that finds the saved copy.

`ProfileAPI` is the API as it is. A request is a handler with a program counter:

| action | code |
|---|---|
| `Receive` | `IsAuthenticated`, decoding, the comparison of IDs in `HandleAddProfile` and `UpdateProfile` |
| `Check` (`Reject`, `Accept`) | the `GetKey` at the top of `AddProfile`, `UpdateProfile`, `DeleteProfile` |
| `Change` | `SetKey` or `DeleteKey`, one critical section |
| `ReadOld` | `Flush`: `ReadFile` of the profiles file, with its error |
| `OpenBackup`, `WriteBackup` | `Flush`: `WriteFile` of the backup, named by the second |
| `TakeSnapshot` | `Flush`: `store.GetAll`, one critical section |
| `OpenSave`, `WriteSave` | `Flush`: `WriteFile` of the list, and the test of the wrong error at line 92 |
| `Crash`, `Restart` | the process is killed; `init` loads the file |
| `Tick` | the second changes |

`kv` is `InMemoryBackend.kv`, `disk` and `backups` are files, `oldSet`, `stamp`
and `newSet` are locals of `Flush`. Profiles are reduced to an ID and a value; a
file is a profile list, missing, empty (truncated, not yet written) or not JSON.
`ioutil.WriteFile` is two steps because a crash, an error or another request may
come between the truncation and the write; a write over what another one put
there since may leave the tail of the longer text. The two read-only handlers
are left out. `changed` and `held` are history variables. `ProfileAPIProps` holds the
properties, `MCProfileAPI` the instances.

`TokenIssuer` is the two token handlers. A login is a handler with the steps
`Lookup`, `Invalidate`, `Issue`, `Save`. `store` is the identity store, `live`
and `issued` are Tyk's tokens and whom they were issued for. `Invalidate` is a
DELETE that was carried out (answered, or its answer lost), was not, or was
refused with 401, which the two handlers treat differently; `Issue` makes a
token whose answer arrives, cannot be decoded (taken for the empty token) or is
lost, or fails. `Found` is where the two backends differ: the memory store
decodes what it encoded, the Redis store does not encode strings but decodes
everything. `leaked` is a history variable: the identities that a failed call or
a crash left with a token no reference names.

`TokenLedger` states what the policy promises step by step: an account of the
token each identity holds, to which a token is added only when the identity holds
none, and from which an identity is struck off when a call of its fails. Its
`held` is `Books` of `TokenIssuer`, the live tokens of the identities that are
not in `leaked`.

`SocialAuth` is a social login. A login of a browser is two requests, each with
its steps:

| action | code |
|---|---|
| `Arrive` | `HandleAuth`, `GetTapProfile`, `Social.Init`: the profile is loaded and its providers are built, or the request ends: blank, or in a panic on an unknown action |
| `SetParams` | `SetPathParams`: the provider is stored in Redis under the key of the profile; an error is logged |
| `Begin` (`Redirect`, `BeginFault`) | `GetAuthURL`: the provider is read back, the session goes into the cookie, the browser to the provider |
| `Authenticate` | the user logs in at the provider, or declines |
| `Return` | `HandleAuthCallback`: the profile is loaded again |
| `Resolve` (`Complete`, `Incomplete`, `ResolveFault`) | `CompleteUserAuth`, `checkConstraints`, the call of `CompleteIdentityAction` |
| `Edit` | the profile API changes a profile in memory |
| `Crash` | the process is killed and started again; `init` may return before it sets up the session store |

`params` is `tothic.pathParams`, `cookie` says whose session each browser holds,
`prepared` whether `Store` and `TothErrorHandler` are set; where they are not,
the code dereferences nil and `net/http` drops the connection (`aborted`).
`Authorized` is what the library and the provider do with a code: only the
provider that issued it accepts it. A session of another login in the cookie may
or may not be an obstacle, depending on the provider, and is left open.
`disturbed` is a history variable: the logins that a fault, an edit of their
profile, a login of the same profile at another provider or another login of the
same browser has interfered with while they were under way.

`PortalLogin` is a login to the dashboard or the portal:

| action | code |
|---|---|
| `AskRegular`, `AskAdmin` | `CreateIdentity`, `CreateSSONonce`, `CreateAdminSSONonce`: a nonce from one API or the other |
| `Lookup` (`Read`, `Unknown`, `Undecoded`) | `GetDeveloperBySSOKey` and the tests of its three results |
| `Create`, `Update` | `CreateDeveloper`, `UpdateDeveloper`: the whole record is written |
| `Redirect` | the browser is sent to the return URL, if the profile has one |
| `Redeem` | the portal or the dashboard takes the nonce, once |
| `Edit` | the developer changes something in the record |
| `Crash` | the process is killed |

`devs` is the dashboard's collection of developer records, `found` and `copy` the
record a login has read. A nonce has the name of its login, a record that of its
first user or of the login that created it, which makes every new one fresh. A
call may be refused, be carried out and its answer lost, be answered with
something undecodable, or with 201 where the code expects 200; where the code
then calls `Error` of a nil error or asserts the type of nothing, the login is
`aborted`. The dashboard may or may not take a second record of one SSO key. The
expiry of nonces after 60 seconds is left out, and an answer decodes as a whole or
not at all: of JSON in which one field has another type, the code would keep the
others and write the record back without that field. Three history variables say what
the properties must make allowance for, by its cause: `disturbed` are logins
whose nonce another login of their user may have overwritten or whose write lost
its answer, `doubtful` users whom a lookup took for unknown although there was a
record or somebody was about to create it, `edited` the records with a change
that no copy in a login's hands predates.

`MongoStore` is the profiles collection and the two programs that write it: the
broker, whose loader reads it at the start and flushes the memory back after each
change, and a program that embeds TIB and keeps its profiles there.

| action | code |
|---|---|
| `Connect`, `ConnectFails`, `Load` | `MongoLoader.Init` with the call of itself after a failure, `LoadIntoStore` |
| `Receive` | a request to the profile API, or `SetKey`, `GetKey`, `DeleteKey` of `MongoBackend` |
| `Change` | `AddProfile`, `UpdateProfile`, `DeleteProfile` in memory |
| `Snapshot` | `Flush`: `store.GetAll` |
| `Erase` (`EraseDone`, `EraseNothing`, `EraseUnset`), `EraseFails` | `Delete` with or without filter, by a flush, `SetKey` or `DeleteKey`, and what each does with its error |
| `Insert`, `InsertFails`, `Finish` | `Insert` of one record after the other, in any order |
| `Read` | `Query` of `GetKey`, whose error is dropped |
| `CrashBroker`, `CrashOther`, `Restart` | one of the programs is killed |

`coll` is the collection, `kv` the broker's memory, `loader` is
`MongoLoader.store`: connected, never set, or set to the store that failed, which
is where the retry leaves it. Records are an ID and a value, of one organisation
that has a name. With several, the broker's memory, whose key is the ID alone
(`mongo_loader.go:62`), has room for one profile of an ID only, and the next flush
would delete the others'; with an empty `OrgID`, the filter of `SetKey` and
`DeleteKey` is the ID alone. A failing delete may have deleted any part, a failing insert may have been
carried out. `mixed` are the writers that met another one of the same keys or
whose delete failed; `settled` the keys whose last writer was neither and
succeeded, `saved` what it left.

`SafeRegisters` states what the collection promises although nothing locks it: a
register for each key, safe in Lamport's sense. A writer that has its keys for
itself writes them as if at once, a read of a key at rest finds what it holds, a
read of another key may find anything. `WriterKeys` and `WriterDocs` of
`MongoStore` are the writes under way, `settled` the keys at rest.

`LoginFlows` is what logins by LDAP, by a proxied server and by SAML have in
common: `Ask` and `Dispatch` are the three handlers of `http_handlers.go` and
`GetTapProfile` with each of its errors (`Unusable`, `Unsupported`), `Submit` the
way to a provider that reads a form; `Edit`, `Close` and `Crash` are the
administrators and the operating system. It EXTENDS nothing of the providers,
which each have a module, and `Logins` composes them: one profile, one set of
accounts, any number of logins.

| module | action | code |
|---|---|---|
| `LDAPLogin` | `Dial` | `connect`, whose error is only logged, and the test of the form |
| | `Bind` | the bind of the administrator or of the user; on no connection it panics |
| | `Search`, `Rebind` | `getUserData`: exactly one entry, and with an administrator the bind of the user to it; an attribute without values panics (`AttributePanics`) |
| | `CompleteLDAP` | `CompleteIdentityAction`, and the only `Close` |
| | `Reap` | the server closes a connection that a login has left open, if it ever does |
| `ProxyLogin` | `Forward` | the request to the target and the gates its answer must pass (`Passes`), the name of the user (`ProxyUser`) |
| `SAMLLogin` | `SetUp` | `Init` and `initialiseSAMLMiddleware`: it panics (`SetUpPanics`), or leaves a middleware that is nil, has no metadata, has no key or is ready (`Leaves`) |
| | `Redirect`, `Parse`, `Describe` | `Handle`, `HandleCallback`, `HandleMetadata` with what the middleware is |
| | `Authenticate`, `Initiate` | the user at the identity provider, asked to by the broker or not |
| `Logins` | `Complete` | `CompleteIdentityAction` of the other providers |

A password is the person it belongs to, so that who has proved to be whom can be
read off a state. `held` is the profile as the last request of a login loaded it,
`conns` are the open LDAP connections, of which the server serves `MaxConns`;
there is no limit in the code. `AccountOf`, `EntriesOf`, `SlugOf` and
`FullNameOf` are what DN templates, filters, `Slug` and claims make of a name;
`claims` of a profile is what its mapping finds in an assertion. A name may come
out empty (`NoName`): of `Slug`, of an assertion without mapped claims
(`SAMLUser`), of a JSON answer with an empty field, which goes before the other
sources (`ProxyUser`), and the identity is handed on all the same. `colon` says
that a password has a colon, so that the Authorization header yields no name
(`HeaderName`).
`disturbed` is the history variable of `UndisturbedSucceeds`: logins one of whose
calls failed, a connection refused by a full server included. An edit or a crash
disturbs nobody there: `Deserving` looks at the profile a login was loaded with,
and a login whose assertion is for another identity provider than that of the
edited profile is not one that could succeed. Crashes are followed by starts that
complete; `SocialAuth` has the others.

## Runs

| run | instance | shows |
|---|---|---|
| `profile_concurrent` | 2 requests of 6 kinds on 2 IDs with 2 values, all faults, 1 crash, 2 seconds, first file with one profile, missing or not JSON | `FilesAreSnapshots`, `RejectedLeavesNoTrace`, `Answered` however requests overlap |
| `profile_sequential` | 3 requests one after the other, reads and backups may fail, 1 crash | `NothingLost`, `AckedIsOnDisk`, `ImplementsRegistry` |
| `profile_swallowed` | 1 request, the save may fail | `SettledIsOnDisk` is violated: `file_loader.go:92` |
| `profile_overlap` | 2 overlapping requests, no fault | `SettledIsOnDisk` is violated: an older list is saved last |
| `token_policy` | 3 logins, 2 identities (one per action), 3 tokens, all faults, 1 crash, memory store, logins of one identity one at a time | `OneTokenPerUser`, `RevokesOnlyOwn`, `RefusedKeepsToken`, `ImplementsLedger`, `Answered` |
| `token_redis` | 2 logins, no fault, Redis store | `OneTokenPerUser` is violated: `redis.go:154` |
| `social_mixup` | 2 logins with any requests, 2 browsers, 2 profiles (one restricted to a provider and a domain), 2 providers, a member and a guest, all faults, 1 edit, 1 crash | `MixupsFailClosed`, `UndisturbedSucceeds`, `Answered` |
| `social_asked` | the same without faults, edits and crashes | `SentWhereAsked` is violated: `tothic.go:99` |
| `portal_policy` | 2 logins, 2 developers and a dashboard user, all faults, any number of changes and crashes, with and without return URL | `OwnNonces`, `FailedLeavesNothing`, `RedirectedIsAdmitted`, `OneRecordPerUser`, `EditsKept`, `Answered` |
| `portal_unknown` | 1 login, 1 developer, calls may be refused | `CreatesUnknownOnly` is violated: `tyk_handler.go:283` |
| `mongo_policy` | 2 requests of any kind on 2 keys with 2 values, an empty collection or one record, all faults, any number of retries, 1 crash of either program | `OnlyGiven`, `SettledIsStored`, `ReadersFindSettled`, `AbortedAfterRetry`, `ImplementsRegisters`, `Answered` |
| `login_policy` | 2 logins of any provider, 2 people, 3 names (one finds two entries and has the slug of another, one finds no entry), 5 forms, 11 profiles or none, two of them at first, 1 edit, 1 account that may be closed, all faults, any number of crashes, 1 LDAP connection that the server may close when it is idle | `OnlyVouched`, `ConnectionsAccounted`, `ExhaustedForGood`, `UndisturbedSucceeds`, `IdentitiesApart`, `Answered` |

Bounds. `MaxClock` and `MaxCrashes` bound the clock and the crashes;
`Requests`, `Logins` and `Tokens` are finite sets whose members are used once.
Two seconds are enough for flushes in the same and in different seconds; two
overlapping requests for every race of two handlers on the store and on the
files; three requests in sequence for a change, a failed flush and a flush that
saves both; three logins for a token that is given, revoked and given again to
one user while another has one. Two identities and two values let a property
tell own from foreign and old from new. Two social logins, of one or two
browsers and of one or two profiles, are enough for each kind of interference;
one edit changes or removes a profile at any moment, and one crash separates any
two steps or leaves the broker without session store. The browser of the first
login has a fixed name, which loses nothing because the other is free. Two
requests to MongoDB are two writers, a writer and a reader, or a writer before
and after a crash; two keys let a flush overlap a single write in part, and
each key may be absent, old or new. Two logins under one profile that is edited
once are under one profile or two, of one provider or two, and one connection is
a limit that a failed login of the two reaches. The runs turn deadlock checking off
because the requests and logins are finite and a behaviour in which all have
been answered stops.

Fairness. `FairSpec` is weakly fair to the steps of each handler: a goroutine
that can run is run, and every call returns with an answer or an error. Nothing
is assumed of clients, users, administrators, the clock or crashes. `Answered` is the only
property that needs it. It says two things: `NeverStuck`, that no answer of
another process and nothing another request does leaves a handler without a next
step, and `Served`, that each request gets to its end.

`NothingLost` says when a list that was once saved can disappear for good. The
file is truncated only when its list is in a backup; but a backup is named by the
second, and a flush in the same second writes over it. After a kill between the
truncation and the write of a flush, a restart and a change in the same second,
that backup is the only copy and the new one is of the empty file. So the property
allows the loss of a copy only to a flush that opens a backup of the name it has,
and the sentence of the repository's README that the file is "backed up to a new
file" (line 1229) does not hold within a second. Two adds that both pass the lookup
of their ID, and an update that overtakes a delete, are in the concurrent run, but
no property there claims that the registry survives them: `ImplementsRegistry`
would exclude them and is claimed of one request after the other.

`OnlyVouched` says what each provider has answered to the login, no more. With
`LDAPAdminUser` the entry belongs to the owner of the password. Without it the user
binds first, and nothing compares the entry that is then found with the one who
has bound: it is another's if the filter does not find the owner's, or if the
owner's account was closed in between. A SAML identity names the person that was
asserted and nobody else, but it may name nobody. `IdentitiesApart` lists in
`Alike` all the ways in which two people come to share an SSO key, and with it a
developer record and a token: the empty name, slugs, a change of the profile, a
proxy profile whose gates do not tell who is turned down, namesakes. These are in
the code, so the property does not exclude them; it says that there are no others.

`ExhaustedForGood` makes no assumption about the server's timeouts: while it keeps
the connections of logins that are over, no login by LDAP succeeds, and `Reap`, if
the server has such a limit, is the only way out but a restart.

What the violations mean. Each of the five is a disagreement between what the
README of the repository (lines 222, 966 and 1229) or a comment (`tothic.go`
117, `tyk_handler.go` 257) promises and what the code does; `PROJECT.json` quotes both. The conditions under which the promise does
hold are the assumptions of the passing runs next to them: no overlap, no failed
save and one path for `AckedIsOnDisk` (`SamePath` of `ProfileAPI`: with a
`ProfileDir`, `Flush` saves to `path.Join(ProfileDir, FileName)` at
`file_loader.go:89` while the load and the backup read `FileName`, and nothing
that is saved is ever loaded); the memory store and no overlapping
logins of one identity for `OneTokenPerUser`; `disturbed` for
`UndisturbedSucceeds` of `SocialAuth`; `doubtful` for `OneRecordPerUser`. A login that arrives at a broker whose `init` returned
early ends blank or aborted; no text of the repository promises otherwise, so no
property excludes it, and `UndisturbedSucceeds` speaks of error answers only.

## Proofs

The theorems hold for any sets of requests, profiles, values, logins,
identities and tokens, any faults and any number of crashes. They rest on
`ConstantsAssumption` of the module (markers differ from data, bounds are
naturals), which TLC evaluates in every run.

`ProfileAPIProofs` needs no condition.
`Typing` proves `TypeOK`; its content is that nothing unreadable gets into a
buffer. `Snapshots` strengthens `FilesAreSnapshots` by the buffers in flight:
every list that is being copied, and the store itself, is in `held`. `NoTrace`
needs an invariant that ties the form of a request to its program counter: a
request past `Check` was authenticated and consistent, and one that changed the
store can no longer be answered with a rejection.

`ProfileAPISequentialProofs` assumes `Sequential`. Its invariant is that at most one
request is in flight and that the file only changes in its last two steps; from it
follows `ListsAreKept`, which is `NothingLost`: the file that is about to be
truncated is in a backup or was not one to keep. With one path and no failing save
follow `AckedIsDurable` and the refinement `RegistryImplemented`, proved as usual by
mapping the initial state to an initial state and each step to an abstract step
or a stutter.

`TokenIssuerProofs` proves `TokenTyping` and `OwnTokensOnly` from one invariant:
every reference, in the store or in a handler, is to a token issued for the same
identity; it needs that a fresh token is one no reference names yet.
`PolicyHolds` assumes the memory store, the policy switched on and no
overlapping logins of one identity. Its invariant says where the token of an
identity that has not leaked may be: under its key, or in the hands of the one
login that is about to store it, and nowhere while a login is about to issue.
`RefusedHasItsToken` follows from the same invariant: a login that is turned away
had revoked nothing, and no other login of the identity is about to store a token.
`LedgerImplemented` is the refinement of `TokenLedger` under the same assumptions,
by one lemma per action: each changes the books of one identity, or strikes
identities off. `RedisNeverRevokes` is the other side of the run `token_redis`,
for any number of logins, overlapping or not: with that store no login ever finds
a token, so no token ends but by its expiry.

`SocialAuthProofs` proves `SocialTyping` with the fact that a login that has not
ended has no outcome, `FailsClosed` from the step that completes a login, which
is the only one that reads the provider and the account it vouches for, and
`UndisturbedLogins` from `OnTrack`: as long as nobody has interfered with a
login, its profile exists, the key of the profile holds its provider and the
cookie its session. That invariant shows where the shared key is harmless: what
another login writes is either the same provider or marks this one disturbed.

`PortalLoginProofs` has one invariant for all of its theorems: a copy is of a
record of the login's user, a nonce in a record is that of a login of its user
that has got past its write, and a login that has not has no record of its own
name. `StepWrites` reduces every step of a login to the four things it may do to
the records, so that the lemmas about records (`UsersStay`, `Appears`,
`NonceComes`) need not look at the handlers again. `OneRecord` adds that a login
about to create a record of an undoubted user is the only one and finds none,
`Admitted` and `NothingLeft` that an undisturbed login's nonce is in a record from
its write to its redemption and in none if it failed, `ChangesKept` that every copy
of a changed record has the change.

`MongoStoreProofs` proves `NothingInvented` from the fact that plans, the memory
and the collection hold given records only, and `WritesSettle` from the one that
matters: a writer that is not in `mixed` is the only one of its keys, and the
collection restricted to them is what it has inserted so far. Beginning a writer
unsettles its keys, which is why a settled key has no writer under way that could
still change it, dead ones included; `SettledFound` and `AbortsAfterRetry` are
action properties that follow. `RegistersImplemented` is the refinement of
`SafeRegisters` and needs no condition: beginning a writer is an abstract `Begin`,
the end of one that was not in `mixed` a `Settle`, any other end or a crash a
`Cease`, and every single delete and insert between them a stutter, because the
keys under it are not at rest.

`LoginsProofs` rests on two facts: a step of one login leaves what the others hold
alone (`Others`), and accounts only close. So one invariant about a single login
(`Local`) is preserved by a lemma per action about the login that steps
(`AskKeeps` to `CompleteKeeps`) and by one about those that do not (`LocalSame`).
`Local` says what a login holds at each of its steps: for LDAP that a login without
connection is one whose dial failed, that the entry it found is the only one that
its name matches and stays so when accounts close; for SAML that an undisturbed
login has the middleware its profile yields; and of each identity who vouched for
it, which is `VouchedLogins`. `KeysApart` shows that the list of `Alike` is complete:
a name that is not empty is one that was typed, given by the target to its user,
made up for this login, or the mail address or full name of the asserted person.
It needs the one fact about two logins: that with an administrator the
entry found for one name is the same for both (`ApartByLDAP`), which holds because
the later of two searches finds a part of what the earlier one did.
`ExhaustedUntilRestart` needs that a login past its bind has a connection of its
own (`Connected`): when the logins that are over hold all of them, no login that is
still under way can be past it. That holds until the server closes one of them
(`Reap`).

That every request is answered is proved in part. A request takes a bounded
number of steps: the program counter runs through a fixed chain, and neither a
fault nor another request sends it back (`NeverBack` and its likes). From that and
weak fairness of its own step follows `Served`, for any number of requests and any
values (`EveryLoginAnswered`, `EveryRequestAnswered`), provided `NeverStuck`: a
request under way always has a step that it can take. `NeverStuck` speaks of
`ENABLED`, which the prover cannot expand, so it is a hypothesis of those theorems;
TLC checks it as a part of `Answered`. In `MongoStore` the chain is bounded for the
calls of the backend, which insert at most one record (`BackendCallsAnswered`); a
flush inserts as many as the memory has, which takes an induction over its list.

Only model-checked: `NeverStuck`, and so the whole of `Answered`; `Served` of
`MongoStore` where it concerns flushes; the violations.

## Not modelled

The reverse proxy copy (`providers/reverse_proxy.go`) is third-party code that the
proxy provider does not call; logging, error pages and constants are output; JWE
decryption is a call into a cryptographic library, which the social login has as a
call that may fail. Reading the configuration and the environment, and the choice
of the Redis or the memory backend in `initializer`, happen once and decide which
of the modelled parts run; so they are constants and initial states here. Reads
that change nothing are left out: `HandleGetProfile`, `HandleGetProfileList`,
`GetAll` of the backends, the health check. `DumbLoader` does nothing.

The content of profiles, tokens and HTTP messages is abstracted to what the
properties distinguish. Pure functions on strings (`Slug`, the DN and filter
templates, the claims, the mapping of groups) appear as what they do to names, as
constants or not at all; how they treat each character is left to the unit tests
of the repository. The libraries for OAuth, SAML and LDAP and the servers behind
them are external: `PROJECT.json` marks each definition that stands for one.

Three assumptions of the models are worth knowing. A call returns, with an answer
or an error: the client that fetches SAML metadata (`saml.go:126`) and the one that
calls Tyk (`tyk_api.go:26`) have no timeout, so that this is a promise of the
network (go-ldap gives up a dial after 60 seconds, by its default). The collection
is read and written by one operation at a time, record by record, as MongoDB does
it. And what the answers of other processes can be is as listed above: Tyk's
records are decoded as a whole or not at all, and MongoDB's are of one
organisation.
