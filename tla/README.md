# TrustMate in TLA+

TrustMate is a small certificate authority service written in Go. This
directory models the parts of it that hold state, checks the models with TLC on
small instances, and proves some of the results with TLAPS for instances of any
size. `PROJECT.json` lists components, runs, mutants, the map from definitions
to source lines, findings, hazards and theorems.

## 1. Inventory

### Parts and how they interact

One binary, `trustmated`, runs as one or several replicas over one database
(SQLite for a single process, Postgres for several) and one keystore (a
directory of encrypted files of one process, a Vault server that replicas
share, or a PKCS#11 token).

| Part | Source | State | Operations that change it |
|---|---|---|---|
| ACME nonces | `api/acme.go`, `store/*/acme.go` | `acme_nonces` | new-nonce, the nonce on every ACME response, `ConsumeIfValid` |
| ACME accounts | same | `acme_eab_tokens`, `acme_accounts` | `handleIssueEABToken`, `handleACMENewAccount` |
| ACME orders | same, `api/certificates.go` | `acme_orders`, `certificates`, `client_roles` | `handleACMENewOrder`, `handleACMEFinalize` |
| Certificates and clients | `api/certificates.go`, `clients.go`, `auth.go` | `certificates`, `client_roles`, `audit_log` | issue, issue with a role, revoke |
| CRL and OCSP | `revocation/*.go`, `api/revocation.go` | the CRL cache of each replica | `CRLBuilder.CRL`, `Invalidate` |
| Profiles | `profiles/registry.go`, `api/profiles.go` | `profiles`, the registry's map | `Registry.Load` |
| Time stamping | `tsa/*.go`, `api/tsa.go` | issuer and last genTime in memory, rows and keys | `Respond`, `handleRotateTSA`, restart |
| Startup | `bootstrap/*.go`, `cmd/trustmated/main.go`, `store/postgres/advisorylock.go` | the advisory lock, all tables, keys, the output directory | `main`, `bootstrap.Run`, the loaders |
| Migrations | `store/migrate/migrate.go` | `schema_migrations` and the schema | `Run`, `apply` |
| Keystores | `keystore/*.go` | key files, Vault keys or token objects, cache, locks per reference | `Generate`, `Get`, `FreshRef` |
| MCP server and CLIs | `cmd/trustmate-mcp/*.go`, `cmd/trustmate-admin`, `cmd/trustmate-management`, `cliclient/client.go` | the output directory | the tools that issue, stamp and revoke, `saveNew` |

The ACME routes issue through the same `issueLeafCertificate` and
`assignRoleOrRevoke` as `POST /v1/clients`. All handlers share the store and
nothing else, so requests on one replica and on several interleave between any
two store calls. The exceptions are the CRL mutex, the registry's lock, the
responder's lock and the keystore's lock per reference, all inside one process.
The MCP server and the command lines are clients of the REST routes; several of
them may write to one directory.

### What is hard about it

- Handlers are sequences of store calls without a transaction around them.
  Between two calls another request may run, the call may fail, take effect
  and report an error, or the process may die.
- Two one-shot things (an order, an EAB token) must survive races and retries
  without yielding two products.
- Replicas keep state of their own (CRL cache, profile map, TSA issuer) that
  the store does not know of.
- Times are compared with different precisions, clocks go back, and several
  things happen in one second.
- The first start migrates a schema and generates a CA in a dozen steps, any
  of which may be the last, and other replicas start at the same time.
- A client whose connection broke cannot tell whether its certificate was
  issued, and the key it generated is on no other disk.

### What correct means

Orders and tokens are used once; answers tell what is stored; certificates
carry the role they were granted and none without a role is left behind;
an acknowledged revocation is visible; authorization does not use a revoked
certificate; registries are whole directories; time stamps increase; a restart
serves what was served; there is one CA; a schema is what its ledger says;
keys are never overwritten and every signer can be had again; what a client
reported about its files stays true.

## 2. Modules

Every module has the state as `VARIABLES`, `Init`, one action for each step
between two points where something else may happen, `Next` and `Spec`. A store
call takes an outcome: `"ok"`, `"lost"` (failed without effect) or `"ghost"`
(took effect, reported an error). Requests are slots (`Workers`) with a program
counter `pc[w]` and the handler's local variables `req[w]`. Variables marked
history in the declarations record something for a property and guard nothing.

| Module | Models | Notes |
|---|---|---|
| `AcmeNonces` | nonce table and clock | extended by the next two |
| `AcmeOrders` | new-order and finalize, step by step | composes nonces, orders, certificates, roles, audit |
| `Jws` | keys as written and as parsed, thumbprints, `Verify`, `VerifyHMAC` | extended by the next |
| `AcmeAccounts` | EAB tokens and new-account with the checks on its two signatures | composes nonces, signatures, tokens, accounts |
| `ClaimOnce` | abstract: a ticket is claimed once and makes one product | implemented by `AcmeOrders` and `AcmeAccounts` |
| `Certificates` | issue, onboard, authorize, revoke, CRL on each replica | composes `requireRole`, the ledger and `CRLBuilder` |
| `Profiles` | `NewRegistry` at startup, `Load` file by file, the reload route, issuing from the registry | |
| `Tsa` | time-stamp requests, rotation, certificates a client gets under the profile `tsa`, restart of one replica | composes the responder, `IssueIdentity`, the issue route, the keystore's view |
| `Migrations` | `Run` and `apply` on concurrent replicas | |
| `Bootstrap` | `main` from the lock to serving, `bootstrap.Run`, the session of the advisory lock | composes lock, store, keystores, process memory |
| `Startup` | a replica's life: open and migrate the store, bootstrap, serve, end | extends `Bootstrap`, composed with the instance `Store` of `Migrations` |
| `KeyMap` | abstract: a map in which a key, once there, stays | what the interface `KeyStore` promises |
| `KeyStore` | file, Vault and PKCS#11 backends | implements `KeyMap`; `backend` and who calls from which process are chosen in `Init` |
| `Mcp` | tool calls of MCP servers and CLI commands, with the files they save | |
| `AcmeOrdersProofs`, `AcmeAccountsProofs`, `ProfilesProofs`, `TsaProofs`, `KeyStoreProofs`, `McpProofs` | proofs | one each; the first has the nonces too |
| `CertificatesProofs` | proofs about `Certificates` | the shape of a step; what it preserves, and the theorems |
| `StartupProofs` | proofs about `Migrations`, `Bootstrap` and `Startup` | each part, then the composition |
| `MC*` | instances: symmetry sets, fault sets, function constants | |

What the data abstracts to:

- Nonces, serials, order, account and key ids are random in the code; here the
  next one is a fresh element. `OrderRoom`, `SerialRoom`, `KeyRoom` and
  `VersionRoom` bound how many requests may still draw one.
- Cryptography is ideal: in `Jws` a signature is known by the key that made it
  over this very content, a hash by what was hashed. A jwk is the key its
  members decode to and the form it is written in, because `Thumbprint` hashes
  a canonical form and the account row stores what the client wrote.
- The verdict of CSR, JSON and time-stamp checks, and in `AcmeOrders` of the
  account's signature, is an input of the action (`authentic`, `genuine`, a
  name that is `None`). A request that such a check rejects before it touches
  any state is left out in `Certificates`; where a nonce is spent first it is
  kept.
- Certificates are the facts the properties compare: status, identifier, the
  order or caller they were issued for, in `Bootstrap` the certified key and
  the signing key, in `Mcp` the call they were issued for.
- A file in `Mcp` is whose key, certificate or token it holds and whether it
  was written to its end; a base name is a member of `Names`.
- A PKCS#11 token takes any number of pairs for one reference, and the lock per
  reference is inside one process. `KeyStore!Apart` therefore assumes that two
  processes on one token do not generate at the same time. It stands for: the
  fixed references are generated under the advisory lock, and the fresh ones
  are random and do not meet. A lost session of that lock is outside it.
- `Encode` in `Profiles` keeps what matters of `json.Marshal`: the version
  number is part of the encoding that is compared.
- Clocks are ticks; in `Tsa` and `AcmeAccounts` a tick is a second, the
  precision stored in the database. `AcmeAccounts.GetToken` leaves open how
  `After` answers within the second of the expiry.
- `audit_log` is the set of entries; its order is not used by any property.
- GET routes for orders, authorizations, certificates, profiles, audit and
  clients only read and are not actions. A problem document on an ACME GET
  issues a nonce, which is the action `NewNonce`.

## 3. Runs

All bounds are constants of the modules or sets in the configurations. Deadlock
is checked except in `Startup` and `BootstrapToggle`, where processes end and
the bound on starts runs out, `Mcp`, where the calls are counted,
`Profiles`, whose versions are bounded, and `Tsa`, where a process that cannot
load its identity stays down. With two workers no run takes much more than
three minutes.

| Run | Instance | States | Shows |
|---|---|---|---|
| `AcmeOrders` | 2 requests, 1 order, 2 accounts with different roles, 2 identifiers, 2 faults anywhere | 134,854 | `SingleIssuance`, `ValidOrderBacked`, `CertFromOrder`, `ReplyTruthful`, `OrderForward`, `ImplementsClaimOnce` |
| `AcmeOrdersLive` | 2 requests, 2 orders, a clock, a role assignment may fail, fair | 199,860 | `NoIdleCert`, `NonceSingleUse`, `ClaimsComplete` |
| `AcmeAccounts` | 2 requests, a P-256 and an RSA key, each jwk written in 2 ways, 2 tokens, a clock, 2 faults | 1,295,171 | `OneAccountPerKey`, `AccountBacked`, `TokenAccounted`, `LocationIsOwn`, `ImplementsClaimOnce` |
| `CertificatesCRL` | 2 requests on 2 replicas, revoke and CRL, a clock, an audit entry, a CRL's query or its signature fails or a replica dies | 1,142,113 | `AckedListed`, `LockAccounted`, `StalenessBounded`, `CRLSound` |
| `CertificatesClients` | 2 requests, 3 client certificates, onboard, issue and revoke, 1 fault or crash anywhere | 1,050,631 | `NoEscalation`, `NoLateAuthorization`, `RevokeDecidedOnce` |
| `Profiles` | 2 replicas that start, restart, reload and issue, 2 profiles, 2 contents, 1 edit at any moment of a read, 1 fault | 775,968 | `OneSnapshot`, `VersionsStored`, `MemoryExact`, `IssuedTraceable` |
| `Tsa` | 2 rotations, 2 time-stamp requests, and any two of: a client's certificate under `tsa`, a clock set back, a restart, a fault | 2,288,002 | `GenTimesIncrease`, `DriftBounded`, `SignerStored`, `RestartSafe` |
| `Startup` | an old and a new replica on a new database and one Vault-like keystore, 3 starts, 1 failed statement, exit, failed unlock, crash or lost session, a client certificate under `server-tls`, fair | 245,549 | `SchemaRecorded`, `InOrder`, `UpMigrated`, `OneOfEach`, `UpConsistent`, `StartsEnd` |
| `KeyStore` | 2 callers on files, Vault or a token, one or two processes, 3 faults, fair | 28,224 | `ImplementsKeyMap`, `CallsEnd` |
| `Mcp` | 2 servers and a CLI on one directory and one name, 3 calls, 2 faults | 1,150,684 | `FilesSound`, `SerialTold`, `SavesFree` |
| `ProfilesSpin` | 1 reload at a time, 1 edit | stops | `NoVersionSpin` is violated (section 6) |
| `BootstrapToggle` | 1 replica, 2 starts | stops | `TSABootstrapped` is violated (section 6) |

Why the bounds are enough for what they are meant to show: every property
relates at most two requests, replicas or rotations, so two of each give every
pair of positions in the code; two faults let a first failure be followed by a
failure of what handles it (the compensating revoke, the retry); a clock that
ticks once (twice in `Tsa`) has a before and an after for every expiry;
three versions and one edit bring a profile to version 2 and beyond (two edits
were checked once, with the same result); three key pairs are one for every
Generate that may be in flight and one left; three calls on one name are two
that collide and one that comes after. In `Tsa` the events that disturb a
rotation are taken two at a time (`MaxEvents`); all four together were checked
once, with the same result. In `Startup` one fault is enough to end
or to separate two starts at any point, and `KeyStore` and `StartupProofs`
cover more of them part by part. Where a run restricts the places of faults, it
is because the property is about those: `NoIdleCert` holds when
role assignments fail and nothing else does, which is the failure
`assignRoleOrRevoke` compensates. `CertificatesCRL` lets the audit
entry of a revocation fail, the fault that separates the row from the cache, and
the query or the signature of a CRL build or its whole replica, the faults that
end a build with the mutex taken; its requests come from the administrator.
`CertificatesClients` has every caller and every fault.

Symmetry is used in runs without liveness, over sets whose elements no
definition tells apart.

Each property has a mutant: the model with one definition changed as a
plausible slip in the code would change it (a blind UPDATE, a lost check, an
off-by-one, a forgotten unlock, the wrong order) on which TLC finds the
property violated.

Some properties carry a condition, because the code does not give more:

- `MemoryExact` and `IssuedTraceable` need that no two reloads overlapped. Two
  that do may pick one version number, and the later one overwrites the row of
  the earlier one.
- `RestartSafe` needs that the clock was not set back, since rows are ordered
  by `created_at`. Rotations that overlap may store in one order and swap in
  the other; then the identity in use and the one a restart loads need not be
  the same, and the property says that both are of that batch of rotations. A
  row that a client got under the profile `tsa` has no key reference: while it
  is the newest one, `LoadTSAIssuer` fails and the process does not start. The
  property says that a restart loads what it should or nothing.
- `SavesFree` excepts a file that appeared while the call ran and one that
  `os.Stat` failed on: `checkFree` takes every error of `Stat` for a free name.
- `StartsEnd` says of every process that it gets its store open, and of one that
  waits for the lock that it comes to serve. The code does not give it without
  exceptions, and the property lists them: the process itself dies or a call
  of its own fails; the TSA is on and its newest row has no key of ours; the
  lock stays with a replica whose unlock failed; a session was lost under the
  lock; or a first run ended half way. After the last one no start need ever
  come up on that database: `Run` skips everything once there is a root, and
  the loaders fail on what is missing; before there is one, the keystore
  refuses to make the root's key again.
- `OneOfEach` allows one more generation of rows for every lost session of the
  advisory lock: a second replica then enters `Run` next to the first. On a
  shared Vault both certify the same keys, which the property still demands; a
  token in Vault's place is not in that run.
- `UpConsistent` leaves out the certificate whose newest row belongs to a
  client: `LoadServerTLSConfig` takes the newest `server-tls` row, and the API
  issues under that profile too.

### Fairness

- `AcmeOrders`: weak fairness of each request's next step. `net/http` runs a
  request on its own goroutine, a store call returns, and no handler waits for
  another request.
- `Startup`: weak fairness of each replica's next step, whether it opens the
  store or runs `main`; `compose.yml` says `restart: unless-stopped`, statements
  are answered, and the lock goes with the session of a process that dies. A
  connection that keeps the lock after a failed unlock need never be closed.
- `KeyStore`: weak fairness of each call, strong fairness of taking a
  `sync.Mutex`, which starves no waiter; Vault's client has a timeout.

No fairness is assumed of requests that arrive, of faults, of crashes, of the
clock or of the operator.

## 4. Proofs

TLAPS checks these for all values of the constants: any numbers of requests,
orders, accounts, keys, tokens, serials, nonces, profiles, rotations, tool
calls, replicas, keystores, processes, faults and lost sessions.

| Theorem | States |
|---|---|
| `AcmeOrdersProofs!TypeCorrect` | `Spec => []TypeOK` |
| `AcmeOrdersProofs!IssuesOnce` | `Spec => []SingleIssuance` |
| `AcmeOrdersProofs!ClaimIsExclusive` | `Spec => []SoleClaim` |
| `AcmeOrdersProofs!NoncesOnce` | `Spec => []NonceSingleUse` |
| `AcmeOrdersProofs!OrdersForward` | `Spec => OrderForward` |
| `AcmeOrdersProofs!OrdersRefineClaimOnce` | `Spec => ImplementsClaimOnce` |
| `AcmeOrdersProofs!ValidIsBacked` | `Spec => []ValidOrderBacked` |
| `AcmeOrdersProofs!CertsFromOrders` | `Spec => []CertFromOrder` |
| `AcmeOrdersProofs!RepliesTruthful` | `Spec => []ReplyTruthful` |
| `AcmeOrdersProofs!NoneLeftIdle` | `FaultPoints \subseteq {"assign"} => (Spec => []NoIdleCert)` |
| `AcmeAccountsProofs!AccountsUnique` | `Spec => []OneAccountPerKey` |
| `AcmeAccountsProofs!AccountsBacked` | `Spec => []AccountBacked` |
| `AcmeAccountsProofs!TokensAccounted` | `Spec => []TokenAccounted` |
| `AcmeAccountsProofs!LocationsOwn` | `Spec => []LocationIsOwn` |
| `AcmeAccountsProofs!AccountsRefineClaimOnce` | `Spec => ImplementsClaimOnce` |
| `CertificatesProofs!AcknowledgedListed` | `Spec => []AckedListed` |
| `CertificatesProofs!MutexAccounted` | `Spec => []LockAccounted` |
| `CertificatesProofs!CRLStaleness` | `Spec => []StalenessBounded` |
| `CertificatesProofs!CRLAgreesWithOCSP` | `Spec => []CRLSound` |
| `CertificatesProofs!RevokedOnce` | `Spec => []RevokeDecidedOnce` |
| `CertificatesProofs!LateTurnedAway` | `Spec => []NoLateAuthorization` |
| `CertificatesProofs!RolesFromAdmins` | `Spec => []NoEscalation` |
| `CertificatesProofs!RevocationsFinal` | `Spec => [][RowsAdvance]_vars` |
| `KeyStoreProofs!KeyStoreRefinesKeyMap` | `Spec => ImplementsKeyMap` |
| `ProfilesProofs!SnapshotsWhole` | `Spec => []OneSnapshot` |
| `ProfilesProofs!VersionsAlwaysStored` | `Spec => []VersionsStored` |
| `ProfilesProofs!MemoryAlwaysExact` | `Spec => []MemoryExact` |
| `ProfilesProofs!IssuedAlwaysTraceable` | `Spec => []IssuedTraceable` |
| `TsaProofs!GenTimesAlwaysIncrease` | `Spec => []GenTimesIncrease` |
| `TsaProofs!DriftStaysBounded` | `Spec => []DriftBounded` |
| `TsaProofs!SignersStored` | `Spec => []SignerStored` |
| `TsaProofs!RotationsRestartSafe` | `Spec => []RestartSafe` |
| `McpProofs!TypeCorrect` | `Spec => []TypeOK` |
| `McpProofs!FilesStaySound` | `Spec => []FilesSound` |
| `McpProofs!SerialsAreTold` | `Spec => []SerialTold` |
| `McpProofs!SavesStayFree` | `Spec => []SavesFree` |
| `McpProofs!WholeFilesStay` | `Spec => [][WholeStays]_vars` |
| `StartupProofs!TypeCorrect` | `Store!Spec => []Store!TypeOK` |
| `StartupProofs!RecordedTogether` | `Store!Spec => []SchemaRecorded` |
| `StartupProofs!AppliedInOrder` | `Store!Spec => []InOrder` |
| `StartupProofs!UpIsMigrated` | `Store!Spec => []UpMigrated` |
| `StartupProofs!StartupRefines` | `StartupSpec => Store!Spec /\ Spec` |
| `StartupProofs!StartupMigrates` | `StartupSpec => [](SchemaRecorded /\ InOrder /\ UpMigrated)` |
| `StartupProofs!GenerationsCounted` | `StartupSpec => [](\A c \in Held : Cardinality(Ours(c)) <= 1 + lost)` |
| `StartupProofs!OnceOnSharedVault` | `SharedVault => (StartupSpec => []OneOfEach)` |
| `StartupProofs!OnceWhileLocked` | `StartupSpec => [](lost = 0 => OneOfEach)` |
| `StartupProofs!ServesMatchingOnVault` | `SharedVault => (StartupSpec => []UpConsistent)` |
| `StartupProofs!ServesMatching` | `StartupSpec => [](lost = 0 => UpConsistent)` |

The assumptions are those of the modules: `NonceAssumption` (the bounds are
naturals), `OrdersAssumption` (accounts have roles, `None` is no value),
`AccountsAssumption` and `JwsAssumption` (`None` is no value, EC keys are keys),
`CertificatesAssumption` (the two bootstrap client certificates differ and are
among the serials, the intermediate is not, `None` is no value),
`KeyStoreAssumption` (`None` and a torn file are no keys), `ProfilesAssumption`
(finitely many requests, `None` is no value), `TsaAssumption` (the first
identity is one, its reference is not among the fresh ones, the clock can show
a time), `McpAssumption` (`None` is no server, name or tool) and
`StartupAssumption`, which puts together what `Bootstrap` and
`Migrations` ask of their constants (there are replicas, finitely many, each
with a keystore and a natural number of migrations; `None` is no value); the
other bounds are naturals. TLC evaluates each of them in a run. What a theorem
assumes beyond them stands in its statement: that only role assignments fail in
`NoneLeftIdle`, which is the condition of `NoIdleCert`'s run; `SharedVault`
(`~Replaces`, and all replicas on one keystore), which is the instance of the
run `Startup`.

**Orders.** `SingleIssuance` is not inductive: that signing makes no second
certificate needs that the signer is alone and that nothing was signed since
its claim. `ClaimInv` adds: a request past the claim finds its order
`processing` (`HeldIsProcessing`); no two hold one order (`OneHolder`); a
certificate's order is past `ready` (`IssuedIsClaimed`); while a request is
about to sign, its order has no certificate (`NothingSigned`); a serial not in
use belongs to no order (`AbsentIsUnissued`). `Claim` is the only step that
takes a hold, and it found the order `ready`, so nobody held it and nothing
was issued. The proof has one lemma for the steps that leave orders and
certificates alone and one for each of the others. It rests on `Typed`, which
adds to `TypeOK` which local variables are set at which point.

**Refinement of orders.** A ticket is claimed when its order is `processing` or
`valid`, and its products are the certificates issued for it. `Claim` maps to
`Claim`, `IssueLeaf` to `Make` by `ClaimInv`, everything else stutters.

**What an order yields.** `BackInv` is what a request relies on at each point
(`Fulfils`): from the checks of finalize on, the order is its account's and has
its CSR's name (`Agrees`); what it signed is for that order and stays good
unless the request takes it back, and by the time of the record it is audited
and has its role (`Signed`); an answer that is out is as stored (`Truthful`).
The hard cases are the steps of another request on the same order, and they are
where `ClaimInv` enters: only the holder of the claim records, revokes or
assigns, and it is alone. `Writes` sums up what a step of one request may do to
the tables, so that everybody else's part is shown once and not once for each
action. `NoIdleCert` is inductive next to these: while only role assignments
fail, the holder of a good certificate without a role goes on to give it the
role or to take it back.

**Nonces.** `NonceInv` adds that a nonce not issued yet was never used and is
not in the table; every step of `AcmeOrders` is one of the steps of
`NonceStep`.

**Accounts.** `AccountInv` says what is true of a request at each point: it is
signed by the key it presents (`Signed`), its binding, if it verified, is for
that key (`Vouched`), and past the claim its token is consumed on its behalf,
unexpired at the time that was stamped, the token of no account and of no other
request (`Holds`). Of the rows it says that each has a key, its thumbprint and
a token that vouched for the key (`Backed`), that no two have one thumbprint
(`Unique`), and that answers tell an enrolled account of the signer (`Told`).
`EnrolmentFacts` is where the two signature checks enter: what passes them is
signed by, and bound to, the presented key. The conditional UPDATE gives
`Holds`, the unique index `Unique`; nothing else writes tokens or accounts. The
claim maps to `ClaimOnce!Claim` and the insert to `Make`, by `Holds`.

**Certificates.** `CertInv` has three parts. `Sane` is what a request knows at
each point. `CRLInv` is about lists: `LockAccounted`; all that a replica
acknowledged is dead and on its cached list and on a list that is being signed
(`Listed`); a list has everything that died before its build began (`Timely`)
and nothing else (`Sound`). The case that matters in `Listed` is `Invalidate`
while a build has read the store and not stored its list: it cannot happen,
because the builder has the mutex (`Holder`), and this is why `LockAccounted`
belongs to the invariant. `Timely` compares clocks: the build stamps its start
before it reads, so what it misses died at or after that stamp, and the expiry
counts from there. `DecisionInv` is about rows: the one request that hit a good
row keeps its reason and, once it answers, its audit entry (`Decided`); a
caller that was late is still dead at the second read (`Late`); a role is given
once, to a certificate signed for the granting administrator (`Granted`).
The proof does not go through the product of actions and conjuncts.
`RequestSteps` shows that each action of a request has one shape,
`RequestStep`, a conjunction of what it may do to rows, to CRLs, to decisions,
to callers and to roles; for that shape it is shown once that each part is
preserved. Ticks and crashes are separate lemmas. `RevocationsFinal` reads the
same shape as an action property: a revoked row never changes again. A row's
`at` is the clock of its commit, which the staleness bound counts from; the
`revoked_at` of the code is read just before the UPDATE and may be earlier.

**Keystores.** `KeyInv` says: the points of a call fit its kind and backend
(`Fits`); who shares a directory, or generates on one token, is one process
(`Together`); a Generate past its lock is its holder (`Locked`), and what it
found free stays free until it succeeds (`Free`); the key a file is made of is
nobody else's (`Unseen`); what is about to be renamed or returned is the whole
key (`Ready`); what was handed out, cached or made is what is stored (`Kept`).
On files and tokens, `Locked` and `Together` let no two Generates of a
reference both be past the check; Vault's create is conditional itself. The
rename, the Vault create and the token's create map to
`KeyMap!Put`, returns to `Hand` or `Make`, everything else stutters.

**Profiles.** `ProfilesInv` has three parts. `SnapInv`: a load has built its map
for all names that are not left to do, out of the directory it read (`Built`),
so the swap puts in one whole reading. `VersionInv`: the stored versions of a
profile are exactly 1 to `Latest` (`UpTo`), and the version a load is about to
store is at most one past the latest, even when the latest has moved on since
it looked. The bound on versions belongs to the argument: `InSequence` counts
the loads that may still store the profile (`Pending`), which is why the
requests must be finite, and `Room` is what a load needs of it. `ExactInv`, while no two loads overlapped: one load at
a time is past its start (`Apart`), the version it picked is still the right
one, hence it adds a row or writes the content that is there already, and what
memory, a map under way or a certificate relies on stays.

**Time stamps.** `TimesInv` is about all snapshots that were drawn, the signed
ones and those still being signed: none is ahead of the guard `lastGenTime` or
numbered past what was drawn (`Drawn`), those of one process are in order
(`InOrder`), and the guard is ahead of the clock's highest reading by no more
than it has drawn (`Guard`). Stating them of the tokens alone is not inductive,
because a snapshot drawn earlier may be signed later. `StoreInv`: each row with
a reference leads to its own key (`Keyed`), a rotation that has stored its row
swaps in that row's identity (`Rotating`), so the identity in use and every
signer have rows; keys are never replaced; and in a process that failed to
start nothing happens, so the client's row that stopped it stays the newest
(`Down`). `BatchInv` is about the rows stored since a rotation last arrived
with none under way (`Batch`): what a rotation swaps in or was answered is one
of them, and if nothing overlapped it the only one (`Flight`, `Acked`).
`OrderInv`, while the clock was not set back: nothing is dated later than now
(`Dated`); no identity from before the batch is dated later than one of it, or
than one about to be stored (`Ordered`), which is why the newest row is the
batch's or a client's; and what is in use is the batch's (`InUse`).

**Saved files.** `McpInv` says four things of each call. `Shape`: the files
left to check or to save are the end of its tool's list. `Certless`: before its
request, and wherever its answer has no serial, it has no certificate; this is
`SerialTold` made inductive, because a refusal or a failed save is safe only
for what the call has not got by then. `Files`: a file of the call's making has
its name and comes after its request, the file at hand is its own and not
whole, and the key is whole before the certificate is opened; `FilesSound` is
part of it, and not inductive alone, since an answer says what earlier steps
did. `Free`: what the call passed in its checks and has not opened (`Cleared`)
is free, appeared while it ran or could not be looked at; `SavesFree` says this
at the last of these points only.
What another call may do is in one lemma (`OtherFile`): it creates a file that
is not there or changes one of its own, so nobody else loses anything, and who
is running has the file among those it has not seen (`unseen`). `WholeStays` follows: only
files at hand are written or removed, and they are not whole.

**Migrations.** `SchemaRecorded` is inductive: only `Commit` writes, and both
sides at once. `InOrder` and `UpMigrated` need `Behind` (all that lies below a
replica's position is in the ledger, which never shrinks) and `Past` (a replica
is up only past its last migration).

**Bootstrap.** A step of a replica has one of six shapes (`ReplicaStep`): it
moves, ends, stores a row, generates a key, loads, or loses its session. Each
part of `BootInv` is preserved shape by shape.

- `Made` says what `Run` has behind it at a point: the keys it generated, and
  that the root's row comes before all others.
- `Counted` is the argument for `OneOfEach`. While there is no root, only the
  holder of the lock and those that lost their session may be generating, and
  the latter are at most `lost` (`Unguarded`). Once there is one, nobody
  starts to generate any more, and for each kind the rows stored and the
  replicas that are still to store one are at most `1 + lost` together: a row
  stored is one replica fewer to store it.
- `LoadedInv` says that what a process loaded are rows, in the order of `main`.
- `Matching` is about keys, under `Calm`: either the replicas share a keystore
  that keeps the key it has, or no session was lost. What `Run`, the cache and
  the loads hold is what the keystore holds (`Faithful`); this needs that no
  key is replaced (`KeysKept`), which in the first case is the keystore's
  doing, in the second follows from `Alone`: who generates has the lock and
  found no key. `OneCA` then ties the rows together: one keystore at most has
  the intermediate's key, and all rows that name their own key are of its keys
  and signed by its CA. A start that died after creating the root's key and
  before the root's row is why this speaks of the intermediate's key: the next
  start on another keystore makes its own root, and the key left behind
  certifies nothing.

`lost = 0` or `SharedVault` is not a weakness of the proof: on separate file
keystores two replicas that generate side by side make two CAs.

**Composition.** `StartupStep`: a step of a process is a step of the part it
stands in, and the other part stutters or, when the process ends, closes the
store (`Store!Stop`). So `StartupSpec` implies `Store!Spec` and `Spec`, and
what is proved of each part holds of the whole.

### Only model-checked

Every invariant, action property and refinement that a passing run checks is
proved; `NoIdleCert`, `OneOfEach` and `UpConsistent` under the conditions that
their theorems state and their runs meet. The liveness properties (`ClaimsComplete`, `StartsEnd`, `CallsEnd`) stay
with TLC: the prover does not handle fairness and ENABLED.

## 5. Not modelled

- X.509 construction (`pki/`), the DER of CRL, OCSP and time-stamp messages,
  base64 and the parsing of JWS: pure functions of libraries; the models take
  their verdicts as inputs. What `acme/jws.go` decides about keys and
  algorithms is in `Jws`.
- The revoke route in `AcmeOrders`: an operator may revoke a certificate that an
  order yielded (`Certificates` has that route). In `AcmeOrders` a certificate
  is `good` when the compensating revoke of its own request did not take it
  back, and `ValidOrderBacked` and `NoIdleCert` mean this.
- SQLite as a store of its own: it is the case of one process, and its
  statements are those of Postgres but for placeholders and timestamps.
- `Tsa` has one replica. On several, each has its own issuer until a restart,
  which the code leaves to the operator.
- Configuration, logging, metrics and discovery documents: no state that other
  parts read.
- Of the MCP server and the command lines, what only reads: listings, resources
  and the text of answers. Vault's HTTP and PKCS#11's C interface are one step
  each, with the outcomes the callers distinguish.
- The root's CRL: the root issues the intermediate only, and the revoke route
  refuses CA certificates, so that list stays empty.
- The contract test suites of stores and keystores: they test the interfaces
  that the models are about.

## 6. Where the code and its documents differ

Demonstrated by a run:

- **Profile versions spin** (`ProfilesSpin`). `upsertVersioned` compares the
  stored bytes, which contain the version number, with the encoding of the
  profile as `toProfile` made it, always version 1. From version 2 on they
  differ, and each reload of an unchanged file stores one more version. The
  comment at `internal/profiles/registry.go:136-138` says that "reloading an
  unchanged file doesn't spin the version number".
- **The TSA is not bootstrapped later** (`BootstrapToggle`). `bootstrap.Run`
  returns as soon as there is a root certificate, before it looks at the TSA
  flag; the start then fails in `LoadTSAIssuer`. `docs/environment.md:35-37`
  says that turning the TSA on again "performs a fresh bootstrap of the TSA
  identity on next start".

Seen while modelling, covered by the conditions and bounds of section 3 rather
than by a run of their own:

- A revocation whose audit entry fails answers 500 after the row was revoked
  and before the cached CRL is dropped; the CRL then lags by at most its
  validity, which is what `StalenessBounded` states.
- `Invalidate` drops the cache of one replica; the others lag by the same
  bound (`docs/design.md:377-379` names the cache per process).
- Overlapping reloads overwrite a stored version; overlapping rotations, or a
  clock set back, make a restart load another identity than the one in use;
  the newest `server-tls` row is paired with the server's key whoever got it.
- A certificate issued to a client under the profile `tsa` is the newest row of
  that profile, has no key reference, and keeps the next start from loading an
  identity until the TSA is rotated, which a process that is down cannot do.
  `README.md:218` calls a rotation "restart-safe (a later restart picks up the
  same identity)".
- A first run that ends after the root's key or row was made and before the
  server certificate leaves a database on which no later start comes up
  (`StartsEnd`, section 3).
- `WithAdvisoryLock` drops the error of its unlock because "the connection is
  about to be closed anyway"; `Close` on a `sql.Conn` returns the connection to
  the pool, so the lock stays taken until the pool or the process ends it.
- `checkFree` takes any error of `os.Stat` for a free name; the write may then
  fail after the certificate was issued, and the call reports its serial.
- When `writeBootstrapOutput` fails, the next start finds a root, skips
  `bootstrap.Run`, and the admin's key is exported nowhere.
- Replicas migrate before they take the lock: of two that start on an empty
  database one fails and exits. `StartsEnd` shows that being started again is
  all it needs to get its store open.
- `WithAdvisoryLock` holds the lock in the session of one connection while
  `Run` uses the pool: when that session is lost, `Run` goes on unprotected
  (the condition in `OneOfEach`).

## 7. Plan

Done: the state machines above, the abstractions `ClaimOnce` and `KeyMap`, the
composition `Startup`, and the proofs of all safety properties. What would come
next:

1. Model more: several replicas in `Tsa`, with a rotation on one of them; a file
   keystore for each replica in `Startup`.
2. Abstract specifications: a revocation register that `Certificates`
   implements with bounded delay.
