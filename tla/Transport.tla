------------------------------ MODULE Transport ------------------------------
(***************************************************************************)
(* The built-in HTTP transports: curl_send (ports/hlm_port_posix.c) with   *)
(* the loading of libcurl, winhttp_send (ports/hlm_port_win.c), and the    *)
(* life of the handles they share with a client (hlm_http_cache, opened by *)
(* the first request, closed by hlm_ffi_destroy).  Each thread has its own *)
(* client, as hlm_ffi.h asks; what they share is libcurl.  A thread's n-th *)
(* request owns the memory its options and callbacks point to.             *)
(***************************************************************************)
EXTENDS Integers, FiniteSets

CONSTANTS
  Threads,
  Cached,      \* the threads whose transport has an hlm_http_cache
  Symbols,     \* the libcurl functions that are looked up
  MaxSends,    \* bound: how many requests each thread sends
  BodyCap,     \* body_cap
  PartSizes,   \* sizes of the pieces an answer comes in
  Statuses,    \* statuses of an answer
  Day          \* the longest Retry-After taken, 24 * 3600

ASSUME TransportAssumption ==
  /\ Cached \subseteq Threads
  /\ MaxSends \in [Threads -> Nat] /\ BodyCap \in Nat /\ Day \in Nat \ {0} /\ PartSizes \subseteq Nat \ {0}
  /\ Statuses \subseteq Nat \ {0} /\ 407 \in Statuses

VARIABLES
  platform,    \* "posix" or "windows"
  once,        \* g_curl_once: "never", "running", "done"
  api,         \* g_curl: the symbols found, the library handle, how often it was initialised
  pc,          \* per thread: "gone", "idle", or where its send is
  sent,        \* number of the thread's last request
  method,      \* ... and its method
  cache,       \* hlm_http_cache.h
  handle,      \* the easy handle or session in use
  opts,        \* the options set on the thread's easy handle, with the request whose memory they name
  open,        \* handles and lists that are allocated
  reply,       \* what has arrived for the request
  result       \* what the send returned

libVars == <<once, api>>
vars == <<platform, once, api, pc, sent, method, cache, handle, opts, open, reply, result>>

None == <<>>
NoOptions == [o \in {} |-> 0]
NoReply == [body |-> 0, streamed |-> 0, retry |-> -1, status |-> 0, challenged |-> FALSE, offered |-> 0]
Handle(kind, t) == <<kind, t, sent[t]>>
Sending(t) == pc[t] \notin {"gone", "idle"}

Goto(t, label) == pc' = [pc EXCEPT ![t] = label]
Return(t, r) == Goto(t, "idle") /\ result' = [result EXCEPT ![t] = r]

Create(t) ==
  /\ pc[t] = "gone"
  /\ Goto(t, "idle")
  /\ UNCHANGED <<platform, libVars, sent, method, cache, handle, opts, open, reply, result>>

\* free(c): with the client go its response buffer and its cache.
Freed(t) ==
  /\ Goto(t, "gone") /\ cache' = [cache EXCEPT ![t] = None] /\ opts' = [opts EXCEPT ![t] = NoOptions]
  /\ reply' = [reply EXCEPT ![t] = NoReply] /\ result' = [result EXCEPT ![t] = "none"]
  /\ method' = [method EXCEPT ![t] = "GET"]
  /\ UNCHANGED <<platform, libVars, sent, handle>>

\* Mutant: the client is freed, the connection it keeps is not.
DestroyOnly(t) == pc[t] = "idle" /\ Freed(t) /\ UNCHANGED open

\* hlm_ffi_destroy, with hlm_http_cache_close
Destroy(t) == pc[t] = "idle" /\ Freed(t) /\ open' = open \ {cache[t]}

\* WinHTTP takes only a URL it can take apart.
CrackUrl(t) ==
  /\ pc[t] = "crack"
  /\ \/ Goto(t, "take") /\ UNCHANGED result
     \/ Return(t, "E_ARG")
  /\ UNCHANGED <<platform, libVars, sent, method, cache, handle, opts, open, reply>>

Send(t, m) ==
  /\ pc[t] = "idle" /\ sent[t] < MaxSends[t]
  /\ sent' = [sent EXCEPT ![t] = @ + 1] /\ method' = [method EXCEPT ![t] = m]
  /\ reply' = [reply EXCEPT ![t] = NoReply] /\ result' = [result EXCEPT ![t] = "none"]
  /\ Goto(t, IF platform = "posix" THEN "load" ELSE "crack")
  /\ UNCHANGED <<platform, libVars, cache, handle, opts, open>>
------------------------------------------------------------------------------
(* pthread_once(&g_curl_once, curl_load_once): one thread loads, the       *)
(* others wait for it, and a load that failed is never repeated.           *)
EmptyApi == [symbols |-> {}, handle |-> FALSE, inits |-> 0]

\* Mutant: a load that fails leaves the others waiting for one that succeeds.
LoadEndsIfLoaded(t, table) ==
  once' = (IF table.handle THEN "done" ELSE once) /\ api' = table /\ Goto(t, "loaded")

LoadEnds(t, table) == once' = "done" /\ api' = table /\ Goto(t, "loaded")
LoadStep(t) == UNCHANGED <<platform, sent, method, cache, handle, opts, open, reply, result>>

\* Mutant: a bare flag in place of pthread_once: whoever finds nothing loaded loads.
EnterUnlessDone(t) ==
  /\ pc[t] = "load" /\ once # "done"
  /\ once' = "running" /\ Goto(t, "dlopen") /\ UNCHANGED api /\ LoadStep(t)

EnterOnce(t) ==
  /\ pc[t] = "load" /\ once = "never"
  /\ once' = "running" /\ Goto(t, "dlopen") /\ UNCHANGED api /\ LoadStep(t)

PassOnce(t) ==
  /\ pc[t] = "load" /\ once = "done"
  /\ Goto(t, "loaded") /\ UNCHANGED libVars /\ LoadStep(t)

DlOpen(t) ==
  /\ pc[t] = "dlopen"
  /\ \/ Goto(t, "dlsym") /\ UNCHANGED libVars
     \/ LoadEnds(t, EmptyApi)
  /\ LoadStep(t)

DlSym(t) ==
  /\ pc[t] = "dlsym"
  /\ \/ \E s \in Symbols \ api.symbols : api' = [api EXCEPT !.symbols = @ \cup {s}] /\ UNCHANGED <<once, pc>>
     \/ api.symbols = Symbols /\ Goto(t, "init") /\ UNCHANGED libVars
     \/ api.symbols # Symbols /\ LoadEnds(t, EmptyApi)
  /\ LoadStep(t)

\* curl_global_init; the library handle is published last.
GlobalInit(t) ==
  /\ pc[t] = "init"
  /\ \/ LoadEnds(t, [api EXCEPT !.handle = TRUE, !.inits = @ + 1])
     \/ LoadEnds(t, EmptyApi)
  /\ LoadStep(t)

CheckLoaded(t) ==
  /\ pc[t] = "loaded"
  /\ IF api.handle THEN Goto(t, "take") /\ UNCHANGED result ELSE Return(t, "E_HTTP")
  /\ UNCHANGED <<platform, libVars, sent, method, cache, handle, opts, open, reply>>
------------------------------------------------------------------------------
(* One handle per cache: an easy handle whose options are reset, or a      *)
(* session that keeps WinHTTP's connections.                               *)
Kind == IF platform = "posix" THEN "easy" ELSE "session"

\* Mutant: the options of the request before stay.
ReuseAsIs(t) ==
  /\ pc[t] = "take" /\ cache[t] # None
  /\ handle' = [handle EXCEPT ![t] = cache[t]]
  /\ Goto(t, IF platform = "posix" THEN "options" ELSE "connect")
  /\ UNCHANGED <<platform, libVars, sent, method, cache, opts, open, reply, result>>

Reuse(t) ==
  /\ pc[t] = "take" /\ cache[t] # None
  /\ handle' = [handle EXCEPT ![t] = cache[t]]
  /\ opts' = [opts EXCEPT ![t] = NoOptions]
  /\ Goto(t, IF platform = "posix" THEN "options" ELSE "connect")
  /\ UNCHANGED <<platform, libVars, sent, method, cache, open, reply, result>>

TakeNew(t) ==
  /\ pc[t] = "take" /\ cache[t] = None
  /\ \/ /\ handle' = [handle EXCEPT ![t] = Handle(Kind, t)]
        /\ cache' = IF t \in Cached THEN [cache EXCEPT ![t] = Handle(Kind, t)] ELSE cache
        /\ opts' = [opts EXCEPT ![t] = NoOptions]
        /\ open' = open \cup {Handle(Kind, t)}
        /\ Goto(t, IF platform = "posix" THEN "options" ELSE "connect")
        /\ UNCHANGED result
     \/ Return(t, "E_HTTP") /\ UNCHANGED <<handle, cache, opts, open>>
  /\ UNCHANGED <<platform, libVars, sent, method, reply>>

\* What a request of this method sets; the headers are a list of its own, which the option names.
OptionsOf(m) == {"URL", "WRITEDATA", "HEADERDATA", "HTTPHEADER"}
                \cup (IF m = "GET" THEN {} ELSE {"CUSTOMREQUEST", "POSTFIELDS"})

SetOptions(t) ==
  /\ pc[t] = "options"
  /\ opts' = [opts EXCEPT ![t] = [o \in DOMAIN @ \cup OptionsOf(method[t]) |->
                                      IF o \in OptionsOf(method[t]) THEN sent[t] ELSE @[o]]]
  /\ open' = open \cup {Handle("list", t)}
  /\ Goto(t, "perform")
  /\ UNCHANGED <<platform, libVars, sent, method, cache, handle, reply, result>>

Connect(t) ==
  /\ pc[t] = "connect"
  /\ \/ open' = open \cup {Handle("connect", t)} /\ Goto(t, "request") /\ UNCHANGED result
     \/ Goto(t, "close") /\ result' = [result EXCEPT ![t] = "E_HTTP"] /\ UNCHANGED open
  /\ UNCHANGED <<platform, libVars, sent, method, cache, handle, opts, reply>>

\* The headers may be too long for their buffer, or not UTF-8.
OpenRequest(t) ==
  /\ pc[t] = "request"
  /\ \/ open' = open \cup {Handle("request", t)} /\ Goto(t, "perform") /\ UNCHANGED result
     \/ open' = open \cup {Handle("request", t)} /\ Goto(t, "close") /\ result' = [result EXCEPT ![t] = "E_ARG"]
     \/ Goto(t, "close") /\ result' = [result EXCEPT ![t] = "E_HTTP"] /\ UNCHANGED open
  /\ UNCHANGED <<platform, libVars, sent, method, cache, handle, opts, reply>>
------------------------------------------------------------------------------
(* The transfer.  Retry-After may be a number of seconds or a date, which  *)
(* strtol and wcstol read as 0.                                            *)
RetryAfter == [seconds |-> Day - 1, date |-> 0, more |-> -1]
Transferring == UNCHANGED <<platform, libVars, sent, method, cache, handle, opts, open>>
Fetching(t) == pc[t] = IF platform = "posix" THEN "perform" ELSE "read"

\* curl_on_header on its way; WinHTTP asks once, before the body.
Header(t, value) ==
  /\ pc[t] = IF platform = "posix" THEN "perform" ELSE "head"
  /\ reply' = IF RetryAfter[value] < 0 THEN reply ELSE [reply EXCEPT ![t].retry = RetryAfter[value]]
  /\ IF platform = "posix" THEN UNCHANGED pc ELSE Goto(t, "read")
  /\ UNCHANGED result /\ Transferring

NoHeader(t) ==
  /\ pc[t] = "head" /\ Goto(t, "read")
  /\ UNCHANGED <<reply, result>> /\ Transferring

\* Mutant: what does not fit is left out.
PartCut(t, n) ==
  /\ Fetching(t) /\ reply[t].streamed <= BodyCap
  /\ reply' = [reply EXCEPT ![t].streamed = @ + n,
                            ![t].body = IF @ + n > BodyCap THEN BodyCap ELSE @ + n]
  /\ UNCHANGED <<pc, result>> /\ Transferring

\* curl_on_body, or a turn of the loop that reads; a piece that does not fit ends the transfer.
Part(t, n) ==
  /\ Fetching(t)
  /\ IF reply[t].body + n > BodyCap
     THEN /\ reply' = [reply EXCEPT ![t].streamed = @ + n]
          /\ Goto(t, "close") /\ result' = [result EXCEPT ![t] = "E_BUFFER"]
     ELSE /\ reply' = [reply EXCEPT ![t].streamed = @ + n, ![t].body = @ + n]
          /\ UNCHANGED <<pc, result>>
  /\ Transferring

\* curl: easy_perform returns, with a status unless it failed; the timeout set on the handle sees to it.
PerformEnds(t) ==
  /\ platform = "posix" /\ pc[t] = "perform" /\ Goto(t, "close")
  /\ \/ \E s \in Statuses : /\ reply' = [reply EXCEPT ![t].status = s]
                            /\ result' = [result EXCEPT ![t] = "OK"]
     \/ result' = [result EXCEPT ![t] = "E_HTTP"] /\ UNCHANGED reply
  /\ Transferring

\* Mutant: the credentials are offered as often as the proxy asks.
OfferAgain(t) == TRUE

OfferOnce(t) == ~reply[t].challenged

\* arm_proxy_default_credentials: the user's logon, if the proxy takes one of Negotiate and NTLM.
Arms(t, s) ==
  /\ s = 407 /\ OfferOnce(t)
  /\ reply' = [reply EXCEPT ![t].challenged = TRUE, ![t].offered = @ + 1]
  /\ UNCHANGED pc

\* WinHTTP: the request is sent and answered, and sent once more after the first 407 if it can be armed.
SendRequest(t) ==
  /\ platform = "windows" /\ pc[t] = "perform"
  /\ \/ \E s \in Statuses :
          /\ \/ Arms(t, s)
             \/ reply' = [reply EXCEPT ![t].status = s, ![t].challenged = @ \/ s = 407] /\ Goto(t, "head")
          /\ UNCHANGED result
     \/ Goto(t, "close") /\ result' = [result EXCEPT ![t] = "E_HTTP"] /\ UNCHANGED reply
  /\ Transferring

ReadEnds(t) ==
  /\ pc[t] = "read" /\ Goto(t, "close")
  /\ \E r \in {"OK", "E_HTTP"} : result' = [result EXCEPT ![t] = r]
  /\ UNCHANGED reply /\ Transferring

\* What the request allocated goes; the handle itself stays with a cache.
Close(t) ==
  /\ pc[t] = "close" /\ Goto(t, "idle")
  /\ open' = open \ ({Handle(kind, t) : kind \in {"list", "connect", "request"}}
                     \cup (IF t \in Cached THEN {} ELSE {handle[t]}))
  /\ handle' = [handle EXCEPT ![t] = None]
  /\ opts' = IF t \in Cached THEN opts ELSE [opts EXCEPT ![t] = NoOptions]
  /\ UNCHANGED <<platform, libVars, sent, method, cache, reply, result>>
------------------------------------------------------------------------------
Init ==
  /\ platform \in {"posix", "windows"}
  /\ once = "never" /\ api = EmptyApi
  /\ pc = [t \in Threads |-> "gone"]
  /\ sent = [t \in Threads |-> 0] /\ method = [t \in Threads |-> "GET"]
  /\ cache = [t \in Threads |-> None] /\ handle = [t \in Threads |-> None]
  /\ opts = [t \in Threads |-> NoOptions] /\ open = {}
  /\ reply = [t \in Threads |-> NoReply] /\ result = [t \in Threads |-> "none"]

Load(t) == EnterOnce(t) \/ PassOnce(t) \/ DlOpen(t) \/ DlSym(t) \/ GlobalInit(t) \/ CheckLoaded(t)
Prepare(t) == CrackUrl(t) \/ Reuse(t) \/ TakeNew(t) \/ SetOptions(t) \/ Connect(t) \/ OpenRequest(t)
Receive(t) == \/ \E value \in DOMAIN RetryAfter : Header(t, value)
              \/ NoHeader(t)
              \/ \E n \in PartSizes : Part(t, n)
              \/ PerformEnds(t) \/ SendRequest(t) \/ ReadEnds(t)
Sends(t) == Load(t) \/ Prepare(t) \/ Receive(t) \/ Close(t)
Calls(t) == Create(t) \/ Destroy(t) \/ \E m \in {"GET", "PATCH"} : Send(t, m)

Next == \E t \in Threads : Calls(t) \/ Sends(t)

\* A thread in a send goes on, and curl's transfers end: the request's timeout is set on the handle.
Spec == Init /\ [][Next]_vars /\ \A t \in Threads : WF_vars(Sends(t)) /\ WF_vars(PerformEnds(t))
------------------------------------------------------------------------------
(* Properties                                                              *)

\* Whoever uses libcurl finds every function looked up and the library initialised, once, however
\* many threads send their first request together: curl_load_once under pthread_once, handle last.
LibraryIsReadyWhenUsed ==
  /\ api.inits <= 1
  /\ \A t \in Threads : platform = "posix" /\ handle[t] # None =>
        api = [symbols |-> Symbols, handle |-> TRUE, inits |-> 1]

\* A transfer has exactly the options of its own request: none of an earlier request on the cached
\* handle, whose URL, body, header list and callback data are gone (easy_reset).
OptionsAreOfThisRequest ==
  \A t \in Threads : platform = "posix" /\ pc[t] = "perform" =>
    /\ handle[t] \in open /\ Handle("list", t) \in open
    /\ opts[t] = [o \in OptionsOf(method[t]) |-> sent[t]]

\* Between requests what is allocated is the cached handles of the clients that live, one each:
\* no early return of a send, and no client destroyed, leaves a handle or a list behind.
NothingIsLeftOpen ==
  (\A t \in Threads : ~Sending(t)) =>
    open = {cache[t] : t \in {u \in Threads : pc[u] # "gone"}} \ {None}

\* OK means the whole answer and its status, E_BUFFER that it did not fit; the user's logon is
\* offered to a proxy at most once a request, and only after the proxy's challenge.
AnswerIsWhole ==
  \A t \in Threads :
    /\ result[t] = "OK" => reply[t].body = reply[t].streamed /\ reply[t].status \in Statuses
    /\ pc[t] = "idle" => (result[t] = "E_BUFFER" <=> reply[t].streamed > BodyCap)
    /\ reply[t].body <= BodyCap /\ reply[t].retry \in -1 .. Day - 1
    /\ reply[t].offered <= 1 /\ (reply[t].offered = 1 => reply[t].challenged)

\* A send that was begun returns, also when the library cannot be loaded while others wait for it.
SendsReturn == \A t \in Threads : Sending(t) ~> ~Sending(t)
=============================================================================
