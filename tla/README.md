# License Management Core: verification development

TLA+ models of the portable C licensing core in `src/` (the library
`hymmalm`: signed license files, the client that installs, refreshes,
activates and frees them, and the ports to network, storage and clocks), the TLC
configurations that check them on small instances, and TLAPS proofs of what matters
most for every instance.

Every definition is translated from the C code; `PROJECT.json` maps each one to the
lines it stands for. Names follow the source (`check`, `adopt_verified` -> `Adopt`,
`time_floor` -> `floor`).

## 1. The system

`include/hymma/hlm.h` is the public interface. A vendor's application creates a
*handle* (`hlm_client`) from a configuration with five *ports* (http, storage, clock,
timesync, sleep) and calls it synchronously from one thread; wrappers in seven
languages do the same through `hlm_ffi.c`. The only state that survives the process is
one license file, and the only other party is the vendor's server, which keeps one
license row per computer and product.

| Component (source) | State | Operations | Modelled by |
|---|---|---|---|
| client flow (`core/hlm_client.c`) | license, status, `time_floor`, `eval_now`, last error and network diagnosis, response buffer | init, check, refresh, activate, deactivate, import | `LicenseClient` |
| HTTP retry policy (`send_req` in `hlm_client.c`) | attempt, total wait | one request | `HttpRetry` |
| license status (`core/hlm_license.c`) | none | verdict on a document at a time | `LicenseStatus` |
| license server (external) | one row | POST, PATCH, GET license, DateTime | `LicenseServer` |
| file storage port (`ports/hlm_ports_common.c`) | the file, `<path>.tmp` | read, write | `FileStore` |
| verification, parsing, import (`hlm_jws.c`, `hlm_license.c`) | none | verify, parse, check product and machine, import | `Jws`, `LicenseFile`; by outcome in `LicenseClient` |
| requests and refusals on the wire (`hlm_client.c`) | buffers of fixed size | compose bodies and URLs, explain a refusal | `Wire` |
| trusted time (timesync ports, `hlm_sntp.h`) | none | SNTP cascade | `TrustedTime`; by outcome in `LicenseClient` |
| JSON and dates (`hlm_json.c`), base64url (`hlm_b64url.c`) | token array | scan, parse, navigate, decode | `JsonScan`, `Json`, `JsonText`, `CivilTime`, `Base64Url` |
| bignum, RSA, P-256, Ed25519 | limbs | arithmetic, verify | `Bignum`, `Rsa`, `P256`, `Ed25519` |
| SHA-256, SHA-512 | hash context | update, final | `ShaBuffer`, without the compression |
| crypto ports (`crypto/hlm_crypto_*.c`) | none | dispatch by algorithm | `CryptoVerify` in `Jws` |
| HTTP transports (`hlm_port_posix.c`, `hlm_port_win.c`) | libcurl, a cached handle | load, send, close | `Transport` |
| machine fingerprint (`hlm_license.c`, ports) | none | read the identity, hash, encode | `MachineId`, without the hash |
| FFI (`hlm_ffi.c`) | handle, borrowed strings | open, calls, close | `KeySet`, `FfiHandle`, `Transport` |
| wrappers (`wrappers/`) | the loaded library | marshal | `PythonBinding` |

### How the parts interact

A network call of the client resolves one evaluation time (timesync port, else
`GET DateTime`, else the local clock clamped to the floor). `check` reads the cache
file and is done if it verifies and has not lapsed; otherwise, like `refresh`, it sends
POST computer, GET computer, POST license, GET license, verifies the answer, adopts
it, and writes the file. `activate` and `deactivate` run `check` when the handle holds
no license, PATCH the row, and refresh; a 404 makes them refresh, which recreates the
row, and PATCH again. `import` verifies a document received by other means, writes
it, and adopts it. Every request goes through `send_req`, every access to the file
through the storage port; all share the handle's buffers, and nothing is locked.

### Which behaviours are hard

* The server's row, the file and the handle's memory are three copies of one fact,
  updated one after another, with lost answers, failed writes and crashes in between,
  and the vendor may change the row between any two requests.
* Time: the verdict depends on clocks the user controls; the defence is a floor kept
  in memory and rebuilt from the stamps of whatever license is adopted.
* State that outlives a call: diagnosis, error message, last status, PATCH body.
* The file is shared by handles and processes without a lock.
* Retries: a request without an answer may have been executed.
* Threads: each has its own client, but libcurl (and in Python the library itself) is
  loaded once for all of them, and a cached handle outlives the request it was set up for.
* Numeric edges: Retry-After overflow, SNTP eras, dates, carries, special points.
* Fixed rooms: every string, token array and buffer has a size; what does not fit is
  refused in one place and cut in another.

`PROJECT.json` lists these under "hazards", each at its line, with the properties that
would catch it going wrong.

### What makes each part correct

* **Client flow:** a returned HLM_OK means what it says for server, memory and file; a
  freed seat stays freed; nothing unverified is held or saved; offline use reports on the
  license there is; a clock wound back gains nothing; diagnosis belongs to this call;
  every call returns.
* **Retry policy:** bounded waits and attempts; to its callers it is one request.
* **License status:** a license only gets worse with time.
* **Storage:** a read that returns anything returns a whole document that was there during
  the read; a failed or interrupted write leaves the old one.
* **Transport:** a library that is used is loaded, once; a transfer has its own request's
  options; nothing stays open; OK means the whole answer.
* **Pure code:** arithmetic is arithmetic, a signature is accepted exactly if the
  scheme's equation holds, a value is read as it was written, and only a license genuine for
  this computer is installed.
* **Wire and FFI:** what is sent says what was meant, whatever characters a name holds; a
  handle is made as asked for or not at all.

## 2. The modules

| Module | Kind | What it is |
|---|---|---|
| `LicenseStatus` | data, operators | a document as a record of what decisions depend on; `LicenseStatusOf` is `hlm_license_status` |
| `LicenseServer` | external | the row and what POST, PATCH and GET do with it, as `hlm_client.c` relies on them |
| `LicenseClient` | state machine | one handle with server, file, clocks; EXTENDS `LicenseServer` |
| `LicenseClientProperties` | properties | everything stated about `LicenseClient` |
| `LicenseHolder` | abstract specification | the promise of a handle about the license it holds |
| `HttpRetry` | state machine | `send_req`: attempts, waits, outcomes |
| `Request` | abstract specification | the one request that `LicenseClient` takes `send_req` for |
| `FileStore` | state machine | `file_read`, `file_write` over inodes, names and open streams |
| `AtomicCache` | abstract specification | the atomic file that `LicenseClient` takes the storage port for |
| `Transport` | state machine | threads that load libcurl together, send, and are destroyed; WinHTTP's chain of handles |
| `PythonBinding` | state machine | `_lib()` of the Python wrapper, on two threads |
| `Algorithms` | state machine | one job for the pure code, its steps and its answer; EXTENDS the modules below |
| `Bits` | operators | powers, sums and positional numbers, by their recursions; shifts and masks |
| `Bignum`, `Rsa`, `P256`, `Ed25519` | operators | limbs, and the three signature checks over them |
| `ShaBuffer`, `Base64Url` | operators | buffering, counting and padding of both hashes; the codec |
| `JsonScan`, `Json`, `JsonText`, `CivilTime` | operators | characters to items, items to tokens, strings and integers, dates |
| `KeySet`, `Jws`, `LicenseFile` | operators | key sets, signature check, payload and import |
| `TrustedTime`, `MachineId`, `Wire`, `FfiHandle` | operators | SNTP and clocks; identities; bodies and URLs; what `hlm_ffi_create`, the imports and accessors do |
| `AlgorithmProperties` | properties | what each answer must be, said without the code's own definitions |
| `MCLicenseClient`, `MCHttpRetry`, `MCFileStore`, `MCTransport`, `MCAlgorithms` | instances | values for TLC |
| `LicenseHolderProofs`, `LicenseClientProofs`, `HttpRetryProofs`, `FileStoreProofs`, `TransportProofs`, `JsonProofs`, `BignumProofs`, `AlgorithmProofs` | proofs | see section 5 |

`Request` and `AtomicCache` are the seams of the composition: `LicenseClient` models a
request by its outcome and a write of the file as one step, and the two lower modules
show that this is what the code below delivers. A read of the file may return nothing although
there is a file (`file_read` answers 0 whenever `fopen` fails); `AtomicCache` allows it, and `ReadCache`
of `LicenseClient` has it among its outcomes.

### LicenseClient and the code

A call is a sequence of steps; `pc` names the next request or file access. The steps
between two of these read and write only the handle's memory and are part of the
same action, so that everything others could do between two accesses is a possible
interleaving.

| Action | Code |
|---|---|
| `Call(o)` | entry of `hlm_client_check`, `_refresh`, `_activate`, `_deactivate`: `begin_call` |
| `TimesyncAnswers`, `TimesyncUnavailable`, `NoTrustedSource`, `FetchTime` | `resolve_now`, `fetch_server_time`, `use_local_clock` |
| `ReadCache` | first half of `check_internal` with `adopt_license` |
| `PostComputer`, `GetComputer`, `PostLicense` | `ensure_computer`, `post_license` |
| `GetLicense`, `SaveLicense` | `get_signed_license`: verify and adopt, then write |
| `PatchLicense`, `RePatchLicense` | `patch_license` up to its first answer, and the second PATCH |
| `Import(d)` | `hlm_client_import` with `hlm_license_import` |
| `Restart` | the process dies at any step; `hlm_client_init` makes the next handle |
| `Tick`, `VendorEditsRow`, `StoreChanges` | real time, the vendor, the user's file system |

`RefreshFails`, `RefreshSucceeds`, `CheckSucceeds` and `Return` are the returns of
`refresh_internal`, `check_internal` and the public calls. `why` records which of its
three callers `refresh_internal` returns to, and `patchId` the license id in the PATCH
body, which is formatted once.

A request (`RequestFailures` and the success branch of each step) ends with an answer,
with HLM_E_AUTH, with a refusal by the API, or with HLM_E_HTTP and a cause. Whenever
it does not end with an answer the server may or may not have executed it.

A document carries the field `check`: what verifying it against this vendor's keys,
product and machine returns. A tampered file, another vendor's, another product's or another
computer's are documents with another `check`. The real cryptography is not modelled
here; the client's use of its verdict is.

`seen`, `call`, `freed` are history variables: they record facts the properties need
and guard no action.

### FileStore and the code

Names (`path`, `<path>.tmp`) lead to inodes and an open stream keeps its inode after a
rename. A document reaches the file in parts, as stdio flushes its buffer, and a write
at an offset of a file that was truncated meanwhile leaves a gap. Each call of the C
library (`fopen`, each part of `fwrite`, `fclose`, `rename`, `remove`; `fopen`, each part of
`fread`, `fclose`) is an action, each may fail, and the process may die between any two.

### Transport and the code

A thread has its own client, as `hlm_ffi.h` asks, and `pc` names the next step of its
send. Loading is `pthread_once` around `dlopen`, `dlsym` and `curl_global_init`, one action
each (`EnterOnce`, `PassOnce`, `DlOpen`, `DlSym`, `GlobalInit`): a thread that finds the once
running waits. `Reuse` and `TakeNew` choose the handle, `SetOptions` records for each option
the request whose memory it names, `Header`, `Part` and `PerformEnds` are the callbacks and
the end of a transfer, `Close` frees what the send allocated. On Windows `CrackUrl`,
`Connect`, `OpenRequest`, `SendRequest` and `ReadEnds` take their place, including the second
attempt with the user's logon after a 407. `Destroy` is `hlm_ffi_destroy`.

### Algorithms and the code

A job is picked, the code does it (one action; hashing takes one per piece it is fed),
and an invariant compares the answer with an independent definition. Sizes are
parameters: the definitions are the code's with its numbers, the runs use smaller ones.

| Action | Code | Compared with |
|---|---|---|
| `Calculate` | `hlm_bignum.c` | integer arithmetic |
| `CheckRsa`, `CheckEcdsa`, `CheckEddsa` | the three verify functions | signatures made with the private key; affine points; the group equation |
| `StartHash`, `Feed`, `FinishHash` | init, update, final of both hashes | the padded message in blocks, whatever the pieces |
| `DecodeBase64`, `ReadDate`, `ReadString`, `ReadNumber` | `hlm_b64url.c`, values in `hlm_json.c` | bits in order; days counted; code points; decimal |
| `Scan`, `Tokenize` | `hlm_json_parse` | the grammar of strings, and a stack of brackets |
| `ReadKeys` | `parse_jwks`, `hlm_jwk_parse` | disjoint spans of the key buffer |
| `ReadPayload` | `hlm_license_parse`, accessors of `hlm_ffi.c` | the license the text was rendered from, in any order and naming |
| `ImportFile` | `hlm_license_import`, `hlm_client_import`, both FFI imports | what is genuine for this host, and what the next offline launch makes of it |
| `AskTime` | both timesync ports | the true time |
| `Identify`, `AskSystem` | SMBIOS, files and registry, fingerprint | the strings the tables and files were built from |
| `Compose`, `Explain` | request bodies, URLs, `capture_error_detail`, `map_api_error` | a reader of JSON and of queries |
| `OpenHandle` | `hlm_ffi_create` with `hlm_client_init` | its arguments |

The layers meet in one place each: `FfiCreate` reads its keys with `ParseJwks` and its
identity with `ChooseIdentity`, and `OpenHandle` composes the handle's first requests with
`Wire`; `LicenseImport` reads the payload through `JsonParse` after `JwsVerify`; the
imports' outcomes are those `LicenseClient`'s `Import` takes from a document's `check`.

## 3. The runs

| Run | Question | Bounds | Size |
|---|---|---|---|
| `client_seat` | what has a call that returned HLM_OK achieved on server, in memory, on disk, with everything going wrong around it? | desktop ports; check, activate, deactivate, import; two mishaps of three kinds; 2 rows; time 0..1 | 1.6 M states |
| `client_time` | does any order of clocks, files and imports resurrect a license, lock a user out, or break the promise of `LicenseHolder`? | four port configurations; check, refresh, import; free local clock 0..2; timesync off by one; two file or crash mishaps | 0.5 M states |
| `client_legacy` | the rules for files without a signed status; does every call return? | activate; subscription that ends; vendor edit between requests | 74 k states |
| `http_retry` | waits, attempts, outcome of one request | the library's own attempts, backoff and caps; word size 2^16 | 0.5 k states |
| `file_store` | is the file an atomic register for its readers? | one writer with failures and crashes, one reader, documents of 1 to 3 parts, buffer of 3 | 0.24 M states |
| `algorithms` | does the pure code compute what its callers take it to? | the inputs in `MCAlgorithms`, sizes below | 160 k states |
| `transport` | loading, options, handles, answers; does a send return? | a client with a cache and two requests, one without and one request; both platforms; body of 1 | 0.29 M states |
| `client_rotated`, `client_offline`, `client_message`, `shared_cache`, `python_binding` | a statement of the repository that the code does not keep | smaller instances of the above | to the first counterexample |

What the passing runs show, property by property, is in the comments of
`LicenseClientProperties`, `HttpRetry`, `FileStore`, `Transport` and `AlgorithmProperties`. For each property
`PROJECT.json` names a plausible bug ("mutants": a dropped guard, an off-by-one, an
adoption before verification, an unchecked close) that makes TLC find it violated.

### Why the bounds are enough

* One receipt code besides "none" tells attached from free; activating with a second
  code goes through the same steps.
* `MaxRows = 2`: one row that is deleted and one that takes its place. Rows are
  compared only for being the one the license names.
* Time up to 1 with `ValidDays = TrialDays = 1` lets a file and a trial lapse during a
  call; `client_time` has one more so that a local clock can be behind, between
  and ahead of two trusted times.
* Two mishaps (`MaxMishaps`) give every pair, such as a deleted row and a crash, or a
  crash and an older file put back. Lost answers and failed writes are not mishaps: they
  may happen at every step, any number of times.
* One cause of network failure: the client treats all of them alike, except that the
  407 has a cause of its own, which `http_retry` tells apart.
* `http_retry` scales the word size from 2^32 to 2^16 to stay within TLC's integers;
  70 s and 131 s overflow it, to a wait below and to one above the cap. The proof
  covers every word size.
* `file_store`: parts 1 to 3 with a buffer of 3 is less than, almost and exactly a full
  buffer; three inodes are the file, the temporary file and one a reader still holds.

* `transport`: two requests of one client are the first use of its cached handle and a
  reuse, or a use after destroy and create; the other client has only to load the library
  meanwhile. Two of the looked-up functions suffice for a table that is half filled.
* `algorithms`, arithmetic: 2-bit limbs, four of them, and 1-bit bytes put every carry,
  borrow and normalisation into numbers below 256, with moduli up to the whole array; the RSA modulus 3233 has six digits
  and a private key, so that "accepted" is compared with "signed"; the curve over 23 elements
  has 17 points, so that ladders meet doublings, inverses and infinity, which on
  P-256 no test can; the Edwards curve has three limbs of 5 bits over 2^14 - 3, which
  folds at the top as 2^255 - 19 does, and a group order small enough to enumerate.
* `algorithms`, hashes: blocks of 6 and 10 bytes with lengths of 2 and 4; messages of up
  to 25 bytes in any two or more pieces take every path through buffer, blocks and
  padding, and SHA-512's bit counter carries after 8 bytes.
* `algorithms`, texts: all short sequences over the characters or items that the code
  tells apart, plus whole payloads, whole and cut after every item. Rooms (of strings 4, a
  URL 34, a body 20, tokens 3, 4 and 67, metadata 3) are small enough that texts shorter,
  equal and longer than each occur. The sizes of key sets and documents (2048, 16384) are
  the code's own, and the inputs lie on both sides of them.
* `algorithms`, time: eras of 64 seconds, so that every second of two eras is asked for;
  dates are the month ends and leap years of 400 years.

### Deadlock and fairness

The runs of the client, of the retry policy and of the storage port check for deadlock: a
handle can always be called again. `algorithms` and `transport` switch the check off,
since a job ends when it has its answer and the number of requests is bounded.

`client_legacy` assumes weak fairness of the steps of a call (`Step`) and of nothing else.
A call is straight-line code on the caller's thread; the transports have time-outs, the
file operations return, and there is no lock to wait for. Neither the application, the
server's contents, time nor the vendor is assumed fair. `http_retry` assumes weak fairness of the transport
call and of the sleep, for the same reasons. `transport` assumes weak fairness of each
thread's steps in a send and of the end of its transfer: threads are scheduled, and a
transfer ends because every handle gets its time-outs (`CURLOPT_TIMEOUT_MS`, `WinHttpSetTimeouts`).
It does not assume that loading succeeds or that an answer comes. The safety runs assume
nothing.

## 4. What the code does not keep

Five statements of the repository are refuted, each by a run of its own. "findings" in
`PROJECT.json` quotes them.

1. `client_rotated`: after PATCH 404 the row is recreated, but the second PATCH is sent
   with the body formatted before and names the row that is gone (`hlm_client.c:683`).
   That the call then fails, and not silently, is `SuccessMovesTheSeat`.
2. `client_offline`: when the network fails, `check` returns HLM_OK with the status of an
   earlier evaluation; without a readable cache a license that lapsed in the meantime is
   still reported as valid (`hlm_client.c:642`). With a readable cache the license is
   judged again.
3. `client_message`: `begin_call` clears the diagnosis but not the message, so a call
   that fails without a message of its own leaves an older one (`hlm_client.c:334`).
4. `shared_cache`: two handles that save to the same path use the same temporary
   file, and a reader can see a half-written license (`hlm_ports_common.c:171`). With one
   writer at a time the promise holds (`file_store`).
5. `python_binding`: `_lib()` publishes the library before it has declared its functions, so
   the second of two threads may call `hlm_ffi_create` with a C int for a result and keep half
   a pointer (`wrappers/python/hymmalm/__init__.py:192`).

Two more are not kept either; what the code does instead is part of a property that holds:

* `hlm.h:437` says of an import that "the document is checked exactly as an offline launch checks the
  cache". A document of 16383 bytes or more is checked by `hlm_client_import`, installed over a working file and
  reported as installed, and the `file_read` of every launch then refuses it with HLM_E_BUFFER
  (`hlm_license.c:421`, `hlm_ports_common.c:153`). The import from a file refuses such a document.
  `OnlyGenuineIsInstalled` says both.
* `hlm.h:392` lets a read answer 0 for an absent file and a negative number for a failure; `file_read`
  answers 0 for every failure of `fopen` (`hlm_ports_common.c:147`), so a file that is there may read as absent.
  `check` treats both alike and asks the server. `AtomicCache` allows it (`ReadNothing`).

Smaller observations made while modelling, none of them contrary to a checked property:

* The FFI's imports end a document at its first NUL, so that a leading one makes it "not a license file", which
  `hlm_client_import` tolerates.
* A product id too long for `post_license`'s `body[256]` (about 180 characters; the FFI takes
  511) is sent cut, which `WireIsFaithful` says of that body and of no other. A `base_url` that leaves no room in `url[512]` opens a handle whose
  every request ends in `HLM_E_ARG`. A long non-ASCII computer name beside a legacy identity
  does so only after the computer was posted.
* `GET computer` puts the identities into the query as they are, while the POST before it
  escapes them for JSON.
* `detail: ""` in a refusal hides a later readable `message`. The 401/403 arm of
  `map_api_error` is never reached, because `send_req` returns first.
* A Retry-After in the form of a date is read as zero, which retries at once; the comments at
  `hlm_port_posix.c:166` and `hlm_port_win.c:230` call it ignored.
* `hlm_parse_iso8601` reads February 30 as March 2. `hlm_ffi_verify` takes the time 0 for
  "now".
* An `/etc/machine-id` of NUL bytes, as a file system may leave after a power failure, passes
  the length check and is hashed as the empty string.
* The comment at `hlm_bignum.h:52-55` asks for moduli of at most half the limbs, which RSA-4096
  does not keep; `RawMod` needs no such bound.
* Four RSA-4096 keys do not fit the FFI's key buffer of 2048 bytes, and the whole set is
  refused.
* The wrappers differ in small things: Rust refuses a document that contains NUL, the
  others cut it there; .NET reads UTF-16 files the others refuse; Python's strict decoding
  raises for a message cut inside a character; Go after `Close` returns `HLM_E_ARG` where
  others throw.

## 5. What is proved

All theorems hold for every value of the constants that satisfies the modules'
assumptions: any set of codes, documents, port configurations, any periods, any error of the
timesync port, any bound.

**The client** (`LicenseClientProofs`). The inductive invariant is `ClientInv`:

* `ControlOK`, `HeldOK`, `WorldOK`: the types, split by what disturbs them;
* `OnlyVerifiedHeld`, `FloorIsSound`: the properties themselves;
* the stamps of whatever can be adopted (the held license, a verifying file, the row)
  do not lie in the future. `FloorIsSound` alone is not inductive: adopting a
  cached file raises the floor to the file's stamps;
* `seen <= floor`: a verdict reached at the floor is no earlier than any trusted time
  shown;
* `HasWhatItNeeds`: a call about to save, or to name its license in a PATCH, holds one.

Each action has one lemma that concludes `GoodStep`: the invariant holds again, the step is
a step of `LicenseHolder` or none, and what was saved had verified. The actions
share lemmas by what they do (adopt a document, show a time, end a request,
return), so that a new action needs its effect shown, not its callers. From `GoodStep`
follow `ClientInvariant` and then

| Theorem | Property |
|---|---|
| `ClientTypeCorrect` | `TypeOK` |
| `ClientHoldsVerified` | `OnlyVerifiedHeld` |
| `ClientFloorIsSound` | `FloorIsSound` |
| `ClientSavesVerified` | `OnlyVerifiedSaved` |
| `ClientIsAHolder` | `HoldsLikeAHolder`, the refinement of `LicenseHolder` |
| `ClientNeverResurrects` | `NoResurrection` |
| `ClientVerdictOnlyWorsens` | `VerdictOnlyWorsens` |

**The course of a call** (`LicenseClientProofs`). `NetworkDiagnosisIsCurrent` is not inductive:
that a call which returns HLM_E_HTTP leaves a cause rests on how it got there. `CallInv` adds
which caller each step is reached from (`CourseInv`), that a call begins and saves with no
cause on record, and that no result is set before the end (`DiagnosisInv`). From it follow
`CallDiagnosisIsCurrent` and `CallSurfacesTheLicense` (`OfflineSurfacesTheLicense`).

`OnlyReportsPartThem` (`OnlyAReportPartsThem`) is about the two copies a client keeps. The license in use and the
file agree, or a write is still to come; they part by a write that fails, and then the call
returns HLM_E_STORAGE, by a crash, or by somebody else's hand. No call and no import
parts them silently, which is what a refused import, or one that fails at the write, must not do.

`CallsTakeTwentySteps` is the
half of `CallsReturn` that a prover can show: `StepsLeft` is at most 20, every step of a
call lowers it and nothing around a call raises it. That a step is always taken is the
fairness, and left to TLC.

**The seat** (`LicenseClientProofs`). What activate, deactivate and refresh achieve
needs a second invariant on top of `ClientInv`, because the properties speak of the step
on which a call returns and the reasons lie several requests back:

* `PatchInv`: from the moment the server accepts this call's PATCH, and as long as nobody
  else touches the row, the row carries what the PATCH said; and a refresh that returns
  to activate or deactivate is the one after an accepted PATCH;
* `SaveInv`: the license about to be saved was signed during this call and matches the
  row, unless the vendor changed it in between;
* `FreedInv`: while a seat is freed, the row carries no code and no activate is under way,
  so nothing the server may still sign, and nothing that may still be adopted or saved,
  brings it back. The property speaks of memory and file only, and is not inductive without
  the row.

`GoodSeatStep` is shown for every way a request or call can end, then for every action.
It gives `SeatInvariant`, and with it `FreedSeatsStayFreed` (`FreedSeatStaysFreed`),
`SuccessesAreFreshAndSaved` (`SuccessIsFreshAndSaved`), `SuccessesMoveTheSeat`
(`SuccessMovesTheSeat`) and `SuccessesMatchTheServer` (`SuccessMatchesTheServer`).

**The verdict** (`LicenseClientProofs`): `UsableBefore`, the status function is
monotone in time, for every document and under every rule.

**The abstract holder** (`LicenseHolderProofs`): what follows from its promise, and so
for whatever implements it: it holds a verified document or none, and reaches a usable
verdict only for documents not lapsed at any trusted time shown to it.

**The retry policy** (`HttpRetryProofs`): with `RetryInv` (types, caps, and an attempt left while a
wait is under way), `TypeOK`, `WaitIsBounded` and the refinement of `Request`. The
assumption that the last backoff is within the cap is what makes the uncapped wait after a
transport failure safe; it holds of the constants 3, 200 and 5000.

`RetryTypeCorrect` proves `HttpRetry`'s `TypeOK`, which no run needs to check beside it.

**The storage port** (`FileStoreProofs`). `FileNeverWithoutAgain` (`NeverWithoutAgain`) holds
for any number of writers: whatever fails, nothing but the temporary name is removed or opened
for writing. `FileActsLikeAtomicCache` (the refinement of `AtomicCache`) and
`FileReadsAreWhole` have the hypothesis of one writer, which the code needs (finding 4), and
hold for any number of readers, any buffer and documents of any length. What a read that returns
nothing means they do not say: not that there is no file. The invariant,
`StoreInv`: the inode that has the file's name is not the one being written; what is
written is a prefix of its document; what a reader has open is a document the name has
had since it was opened, and what it has got is a prefix of that.

**The transports** (`TransportProofs`), for any threads, with or without a cached handle, and any
number of requests. `TransportInv` has a part for each thing that is shared or kept:

| Part | What it says | Theorem, property |
|---|---|---|
| `LibraryInv` | one thread at most loads; nothing is published before all is there | `TransportLibraryIsReady`, `LibraryIsReadyWhenUsed` |
| `HandlesInv` | whose a handle is, and when there is one in use | |
| `OpenInv` | whatever is allocated is in use, cached, or of a request that will close it | `TransportLeaksNothing`, `NothingIsLeftOpen` |
| `OptionsInv` | the options are empty, then exactly the request's own | `TransportOptionsAreFresh`, `OptionsAreOfThisRequest` |
| `ReplyInv` | the body is what was streamed until a part did not fit | `TransportAnswersWhole`, `AnswerIsWhole` |

**The pure code** (`AlgorithmProofs`, over the lemmas of `JsonProofs` and `BignumProofs`). Eight properties of `algorithms`
are proved, for inputs of every size and every size of the buffers, words and blocks, through an
invariant `JobInv`: an answer is what the operator of the job makes of an input of its kind, and a hash
that is being fed has the state `HashFed` describes.

| Theorem | Property | The argument |
|---|---|---|
| `HonestTimeIsNear` | `TrustedTimeIsNear` | with honest hosts the time is within `MaxDrift`, whatever the local clock says. What honest means is `TimeJobsAssumption`; the true time is in the two eras the code tells apart, 1968 to 2104 |
| `KeysStayApart` | `KeysAreKeptApart` | keys of any lengths lie one behind the other inside the buffer, and exactly the sets that do not fit are refused |
| `ImportsInstallTheGenuine` | `OnlyGenuineIsInstalled` | for every document, list of keys, host and store: installed exactly if genuine, handed over whole and written; the next launch accepts it if it is shorter than `WorkBuf - 1` and refuses it otherwise |
| `TextsFormTrees` | `TokensFormATree` | below |
| `HashesCutThePaddedMessage` | `BlocksArePaddedMessage` | below |
| `TextsDecodeToTheirBits` | `Base64IsCanonical` | below |
| `ValuesReadAsWritten` | `ValuesAreReadAsWritten` | below |
| `NumbersAreComputed` | `BignumIsArithmetic` | below |

* `TextsFormTrees`, the parser: its invariant, `Tree`, says after each item that the parser stands in the
  innermost container that is open, or at a key of it; that its depth is the number of open ones; that every
  token hangs from the container that was innermost when it began; and that exactly the open containers are
  not closed yet. The reference is a stack, which the parser does not have: it finds its way back by
  the parents of its tokens. The scanner: from every position, what is found next is an item and only blanks
  are passed over; a string is a row of units from its quote to the one no backslash belongs to, and an end
  of the text inside a unit is told from a unit that can no longer be completed.
* `HashesCutThePaddedMessage`: between two pieces the context holds what it was fed, cut into blocks and
  a rest smaller than one, and its counter words hold the number of bits with the carry; the final call adds one or
  two blocks, and their bytes are the padding and the length, byte by byte from the words.
* `TextsDecodeToTheirBits`: after each symbol the accumulator holds, in its lowest bits, exactly the bits of the
  text that no byte has been made of yet, whatever was shifted out above them; and the encoder, the
  other way round, puts out the symbols whose bits are those of the bytes followed by zeros.
* `ValuesReadAsWritten`: for dates, the arithmetic of eras agrees with the days counted year by year and month by
  month (`DaysAreCounted` is the step from one day to the next). For numbers, the value so far times the
  power of ten still to come is the sum of the digits' places, until the sum is past the largest. For
  strings, the bytes written are, character for character, the UTF-8 of the code points whose last unit was
  passed (`Encodes`, `Written`), and the one state that is not ok means a lone surrogate or too little room.
* `NumbersAreComputed`: a chain of carries keeps what the limbs so far and the carry, at its place, add up to; a chain
  of borrows likewise, with a wide unsigned difference that wrapped (`AddIs`, `MinusIs`). The product grows row by row,
  and no row overflows the wide word (`RawMulIs`). In the long division the work buffer is, after each bit, the front of the number
  modulo m; doubled it is below 2m, so the one extra limb holds the bit that is shifted out and one
  subtraction is enough (`ShiftIs`, `RawModIs`). After each bit of the exponent the accumulator is the power by the front of
  the exponent (`ModExpIs`). A sum or a string of bytes is refused exactly when the number has no room.

What the inputs of a job may be is said in the assumptions of `Algorithms` and holds of every call: texts of any
characters, room of any size, messages of any bytes in any pieces, fields of a date that are digits.
`ArithmeticJobsAssumption` has operands that fit in the array and a modulus above 0; a modulus may fill the array, as
that of an RSA-4096 key does, although the header asks `hlm_bn_modmul` for half of it. Only the sum in
`hlm_bn_modadd` relies on its callers for room, and the property says so. `StringJobsAssumption` has characters as they stand in ASCII; the code copies the bytes of others without
looking at them. The assumptions of `ShaBuffer` and `Base64Url` are what the arithmetic needs of the widths, and
hold of 32, 64 and 8 bits: a byte divides a counter word, the length field is as wide as the words together, the
accumulator has room for a symbol beside a byte, and three bytes are four symbols' worth.

Induction is derived from the least element of a set of numbers (`LeastNumber`, `Induction`,
`InductionUpTo`), with the property as a set, since the library's induction theorems take an operator; and a
recursive function is unfolded only after it is shown to exist (`SumsExist`, `PowersExist`, and the like for the
keys, the parser and the strings).

What the attempts at proofs corrected in the model:

* `Day`, `MaxDrift` and `MaxKeys` must not be 0, or the answer's Retry-After, a rounded date and
  the first key have no place. They are 86400, 1 and 4 in the code, and the modules' assumptions say so now.
* A license that names its product by an empty string belongs to "another product", as in the code;
  the reference had asked for a name.
* TLC's inputs for a signature had an empty part in a document with no parts, which no
  document is.
* A license that names no computer is genuine for a machine whose identity is empty: `hlm_client_init`
  refuses a NULL `machine_id` but not an empty one. The reference (`Genuine`) had left that machine out.

**Only model-checked:**

* liveness (`CallsReturn`, `RequestsEnd`, `SendsReturn`), which is out of the prover's reach;
* the signatures (`RsaAcceptsOnlySignatures`, `EcdsaIsTheEquation`, `EddsaIsTheEquation`): the arithmetic below
  them is proved, but that a private key undoes a public one, that an inverse by Fermat is one, and the group law of a
  curve are number theory, a subject of its own;
* `LicenseIsReadAsSigned`: it compares the reader with licenses from which the run renders the text, and no
  specification says of an arbitrary text which license it is;
* `MachineIdNamesTheMachine`, likewise for the tables of a firmware;
* `WireIsFaithful` and `HandleIsAsAsked`: the reader of bodies and queries finds delimiters by counting
  backslashes backwards, which is an induction over texts in both directions.

## 6. What is not modelled, and why

* Cryptographic strength. The verifying code is modelled in small; that nobody can forge is
  not a question for a model checker.
* The compression functions of SHA-256 and SHA-512: straight-line word arithmetic, pinned by
  the repository's test vectors. They are functions of a block here, and `MachineId` leaves
  the hash out between its text and its Base32 form.
* Windows CNG (`hlm_crypto_cng.c`) beyond what its results mean to `hlm_jws_verify`; CPUID;
  Apple's `gethostuuid`; the sockets of an SNTP query, which is answered or not.
* Idempotency keys, correlation ids and User-Agent, the wording of messages, and the tables
  that map transport errors to a diagnosis (`hlm_net_failure_from_*`, `hlm_net_message`):
  constants to constants.
* Classified refusals (`HLM_E_TRIAL_QUOTA`, `HLM_E_PLAN_LIMIT`,
  `HLM_E_PAID_FORMAT_REQUIRED`) are told apart in `Wire` and one result, `E_API`, in
  `LicenseClient`, which treats them alike.
* Power failure: `FileStore` loses processes, not the operating system's write cache; the
  code calls no `fsync`.
* A PATCH that the server executes only after the client has given it up: a request with a lost answer is
  executed when it fails or never. A late effect is to the client one of the vendor's edits of
  the row, and no property tells the two apart.
* How long an answer was meant to be: a transfer that breaks off ends with an error in `PerformEnds`, after
  any part; whether libcurl or WinHTTP notice that it broke off is theirs.
* The room of `hlm_b64url_encode`'s output (`hlm_b64url.c:65`); no code in `src/src` calls it.
* Two computers with the same machine identity, or two handles that PATCH the same
  row at once: the other one's effect on the row is among the vendor's edits.
* `hlm_ffi_verify` and the FFI functions that only pass on to `hlm_client.c`.
* The strings the FFI hands out: every wrapper copies them before its next call.
* The wrappers otherwise marshal arguments. Go and Rust carry byte-identical copies of the C
  core, which make up most of the source tree; a definition here names the original's lines
  and stands for the copies too.

## 7. Plan

| # | Module(s) | State |
|---|---|---|
| 1 | `LicenseStatus`, `LicenseServer`, `LicenseClient`, `LicenseHolder` | modelled, checked, proved |
| 2 | `HttpRetry`, `Request` | modelled, checked, proved |
| 3 | `FileStore`, `AtomicCache` | modelled, checked, proved for one writer |
| 4 | `Transport`, `PythonBinding` | modelled, checked; `Transport` proved but for liveness |
| 5 | `Algorithms` and the modules of pure code | modelled, checked; time, keys, import, JSON, values, hash buffering, base64url and arithmetic proved; signatures, requests, payloads and identities checked only |
| 6 | the course of a call | modelled, checked, proved |

Recursive functions are used instead of RECURSIVE operators throughout, so that theorems
can be stated in any module.
