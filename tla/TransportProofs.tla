--------------------------- MODULE TransportProofs ---------------------------
(***************************************************************************)
(* Proofs about Transport, for every number of threads, cached or not, and *)
(* of requests, every table of symbols, every size of buffer and parts and *)
(* every set of statuses.                                                  *)
(*                                                                         *)
(* The inductive invariant has one part for each thing the transports      *)
(* share or keep: the library, the handles, what is allocated, the         *)
(* options, the answer.  Each part is shown to be kept by every step.      *)
(***************************************************************************)
EXTENDS Transport, TLAPS

Loading == {"dlopen", "dlsym", "init"}
Begun   == {"load", "loaded", "crack", "take"} \cup Loading
Using   == {"options", "connect", "request", "perform", "head", "read", "close"}
Steps   == {"gone", "idle"} \cup
           (IF platform = "posix" THEN Loading \cup {"load", "loaded", "take", "options", "perform", "close"}
            ELSE {"crack", "take", "connect", "request", "perform", "head", "read", "close"})

Api == [symbols : SUBSET Symbols, handle : BOOLEAN, inits : Nat]
Reply == [body : Nat, streamed : Nat, retry : Int, status : Nat, challenged : BOOLEAN, offered : Nat]
Results == {"none", "OK", "E_ARG", "E_HTTP", "E_BUFFER"}

TypeInv ==
  /\ platform \in {"posix", "windows"}
  /\ once \in {"never", "running", "done"}
  /\ api \in Api
  /\ pc \in [Threads -> Steps]
  /\ sent \in [Threads -> Nat] /\ method \in [Threads -> {"GET", "PATCH"}]
  /\ DOMAIN cache = Threads /\ DOMAIN handle = Threads /\ DOMAIN opts = Threads
  /\ reply \in [Threads -> Reply] /\ result \in [Threads -> Results]

(* One thread at most loads, while once is "running"; before it is done    *)
(* nothing is published, and then all of it or nothing.  Whoever has a     *)
(* handle has come past a library that was published.                      *)
Table == [symbols |-> Symbols, handle |-> TRUE, inits |-> 1]
LibraryInv ==
  /\ \A t \in Threads : pc[t] \in Loading => once = "running"
  /\ \A t, u \in Threads : pc[t] \in Loading /\ pc[u] \in Loading => t = u
  /\ \A t \in Threads : pc[t] = "init" => api.symbols = Symbols
  /\ once # "done" => ~api.handle /\ api.inits = 0
  /\ once = "done" => api \in {EmptyApi, Table}
  /\ \A t \in Threads :
       platform = "posix" /\ (pc[t] = "take" \/ handle[t] # None \/ cache[t] # None) => api = Table

(* A thread's handles are its own; the one in use is the cached one, or is *)
(* of this request.                                                        *)
Owned(t) == {<<Kind, t, n>> : n \in Nat}
HandlesOf(t) ==
  /\ cache[t] \in Owned(t) \cup {None} /\ handle[t] \in Owned(t) \cup {None}
  /\ t \notin Cached \/ pc[t] = "gone" => cache[t] = None
  /\ pc[t] \in Using => handle[t] = IF t \in Cached THEN cache[t] ELSE Handle(Kind, t)
  /\ handle[t] # None <=> pc[t] \in Using
HandlesInv == \A t \in Threads : HandlesOf(t)

(* What is allocated is in use or cached, or belongs to a request that     *)
(* will close it.                                                          *)
OfRequest(t) == {Handle(kind, t) : kind \in {"list", "connect", "request"}}
Held(t)      == {cache[t], handle[t]} \ {None}
MayHold(t)   == Held(t) \cup (IF pc[t] \in Using THEN OfRequest(t) ELSE {})
Needs(t)     == Held(t) \cup (IF platform = "posix" /\ pc[t] = "perform" THEN {Handle("list", t)} ELSE {})
OpenInv ==
  /\ \A h \in open : \E t \in Threads : h \in MayHold(t)
  /\ \A t \in Threads : Needs(t) \subseteq open

OptionsOfThis(t) ==
  platform = "posix" =>
    /\ pc[t] = "options" => opts[t] = NoOptions
    /\ pc[t] = "perform" => opts[t] = [o \in OptionsOf(method[t]) |-> sent[t]]
OptionsInv == \A t \in Threads : OptionsOfThis(t)

(* The body is what was streamed until a part did not fit; no result is    *)
(* set before the send is over.                                            *)
ReplyOf(t) ==
  /\ reply[t].body <= BodyCap
  /\ IF result[t] = "E_BUFFER" THEN reply[t].streamed > BodyCap ELSE reply[t].body = reply[t].streamed
  /\ reply[t].retry \in -1 .. Day - 1
  /\ reply[t].offered <= 1 /\ (reply[t].offered = 1 => reply[t].challenged)
  /\ result[t] # "none" => pc[t] \in {"idle", "close"}
  /\ result[t] = "OK" \/ pc[t] \in {"head", "read"} => reply[t].status \in Statuses
ReplyInv == \A t \in Threads : ReplyOf(t)

TransportInv == TypeInv /\ LibraryInv /\ HandlesInv /\ OpenInv /\ OptionsInv /\ ReplyInv
------------------------------------------------------------------------------
(* Types                                                                   *)

(* What SendRequest makes of the reply of its thread, and of no other.     *)
ArmedReply(r) == [r EXCEPT !.challenged = TRUE, !.offered = @ + 1]
AnsweredReply(r, s) == [r EXCEPT !.status = s, !.challenged = @ \/ s = 407]

LEMMA SendRequestReplies ==
  ASSUME reply \in [Threads -> Reply], NEW t \in Threads, SendRequest(t)
  PROVE  \/ /\ Goto(t, "close") /\ result' = [result EXCEPT ![t] = "E_HTTP"] /\ reply' = reply
         \/ /\ pc' = pc /\ result' = result /\ ~reply[t].challenged
            /\ reply' = [reply EXCEPT ![t] = ArmedReply(reply[t])]
         \/ /\ Goto(t, "head") /\ result' = result
            /\ \E s \in Statuses : reply' = [reply EXCEPT ![t] = AnsweredReply(reply[t], s)]
<1>1. [reply EXCEPT ![t].challenged = TRUE, ![t].offered = @ + 1]
        = [reply EXCEPT ![t] = ArmedReply(reply[t])]
  BY Zenon DEF ArmedReply
<1>2. ASSUME NEW s \in Statuses
      PROVE  [reply EXCEPT ![t].status = s, ![t].challenged = @ \/ s = 407]
               = [reply EXCEPT ![t] = AnsweredReply(reply[t], s)]
  BY Zenon DEF AnsweredReply
<1>3. ASSUME NEW s \in Statuses, Arms(t, s)
      PROVE  pc' = pc /\ ~reply[t].challenged /\ reply' = [reply EXCEPT ![t] = ArmedReply(reply[t])]
  BY <1>1, <1>3, Zenon DEF Arms, OfferOnce
<1>4. ASSUME NEW s \in Statuses, reply' = [reply EXCEPT ![t].status = s, ![t].challenged = @ \/ s = 407]
      PROVE  reply' = [reply EXCEPT ![t] = AnsweredReply(reply[t], s)]
  BY <1>2, <1>4, Zenon
<1>. QED
  BY <1>3, <1>4, Zenon DEF SendRequest

LEMMA ArmedOK ==
  ASSUME NEW r \in Reply
  PROVE  /\ ArmedReply(r) \in Reply
         /\ ArmedReply(r).body = r.body /\ ArmedReply(r).streamed = r.streamed
         /\ ArmedReply(r).retry = r.retry /\ ArmedReply(r).status = r.status
         /\ ArmedReply(r).challenged = TRUE /\ ArmedReply(r).offered = r.offered + 1
<1>1. r.offered + 1 \in Nat
  BY DEF Reply
<1>. QED
  BY <1>1, Zenon DEF Reply, ArmedReply

LEMMA AnsweredOK ==
  ASSUME NEW r \in Reply, NEW s \in Nat
  PROVE  /\ AnsweredReply(r, s) \in Reply
         /\ AnsweredReply(r, s).body = r.body /\ AnsweredReply(r, s).streamed = r.streamed
         /\ AnsweredReply(r, s).retry = r.retry /\ AnsweredReply(r, s).status = s
         /\ r.challenged => AnsweredReply(r, s).challenged
         /\ AnsweredReply(r, s).offered = r.offered
<1>1. (r.challenged \/ s = 407) \in BOOLEAN
  BY DEF Reply
<1>. QED
  BY <1>1, Zenon DEF Reply, AnsweredReply

(* A step of one thread leaves what the others have.                       *)
LEMMA OthersStay ==
  ASSUME TypeInv, NEW t \in Threads, Calls(t) \/ Sends(t), NEW u \in Threads, u # t
  PROVE  /\ pc'[u] = pc[u] /\ sent'[u] = sent[u] /\ method'[u] = method[u]
         /\ cache'[u] = cache[u] /\ handle'[u] = handle[u] /\ opts'[u] = opts[u]
         /\ reply'[u] = reply[u] /\ result'[u] = result[u]
<1>. USE DEF TypeInv, libVars, Goto, Return
<1>1. CASE Calls(t)
  BY <1>1 DEF Calls, Create, Destroy, Freed, Send
<1>2. CASE Load(t)
  BY <1>2 DEF Load, EnterOnce, PassOnce, DlOpen, DlSym, GlobalInit, CheckLoaded, LoadStep, LoadEnds
<1>3. CASE Prepare(t)
  BY <1>3 DEF Prepare, CrackUrl, Reuse, TakeNew, SetOptions, Connect, OpenRequest
<1>4. CASE Receive(t)
  <2>1. CASE \E value \in DOMAIN RetryAfter : Header(t, value)
    BY <2>1 DEF Header, Transferring
  <2>2. CASE \E n \in PartSizes : Part(t, n)
    BY <2>2 DEF Part, Transferring
  <2>3. CASE PerformEnds(t) \/ NoHeader(t) \/ ReadEnds(t)
    BY <2>3 DEF PerformEnds, NoHeader, ReadEnds, Transferring
  <2>4. CASE SendRequest(t)
    <3>1. reply'[u] = reply[u]
      BY <2>4, SendRequestReplies
    <3>. QED
      BY <2>4, <3>1 DEF SendRequest, Arms, Transferring
  <2>. QED
    BY <1>4, <2>1, <2>2, <2>3, <2>4 DEF Receive
<1>5. CASE Close(t)
  BY <1>5 DEF Close
<1>. QED
  BY <1>1, <1>2, <1>3, <1>4, <1>5 DEF Sends

LEMMA PlatformStays ==
  ASSUME NEW t \in Threads, Calls(t) \/ Sends(t)
  PROVE  platform' = platform
  BY DEF Calls, Create, Destroy, Freed, Send, Sends, Load, EnterOnce, PassOnce, DlOpen, DlSym, GlobalInit,
         CheckLoaded, LoadStep, Prepare, CrackUrl, Reuse, TakeNew, SetOptions, Connect, OpenRequest,
         Receive, Header, NoHeader, Part, PerformEnds, SendRequest, ReadEnds, Arms, Transferring, Close

(* What curl_global_init makes of a table.                                 *)
LEMMA Published ==
  ASSUME NEW old \in Api
  PROVE  LET new == [old EXCEPT !.handle = TRUE, !.inits = @ + 1]
         IN new \in Api /\ new.symbols = old.symbols /\ new.handle = TRUE /\ new.inits = old.inits + 1
<1>1. old.inits + 1 \in Nat
  BY DEF Api
<1>. QED
  BY <1>1, Zenon DEF Api

LEMMA LoadTypes ==
  ASSUME TypeInv, NEW t \in Threads, Load(t)
  PROVE  TypeInv'
<1>1. EmptyApi \in Api
  BY DEF EmptyApi, Api
<1>2. [api EXCEPT !.handle = TRUE, !.inits = @ + 1] \in Api
  BY Published DEF TypeInv
<1>. USE DEF TypeInv, libVars, LoadStep, LoadEnds, Goto, Steps, Loading
<1>3. CASE EnterOnce(t) \/ PassOnce(t)
  BY <1>3 DEF EnterOnce, PassOnce
<1>4. CASE DlOpen(t)
  BY <1>1, <1>4 DEF DlOpen
<1>5. CASE DlSym(t)
  BY <1>1, <1>5 DEF DlSym, Api
<1>6. CASE GlobalInit(t)
  <2>1. api' \in Api
    BY <1>1, <1>2, <1>6 DEF GlobalInit
  <2>. QED
    BY <1>6, <2>1 DEF GlobalInit
<1>7. CASE CheckLoaded(t)
  BY <1>7 DEF CheckLoaded, Return, Results
<1>. QED
  BY <1>3, <1>4, <1>5, <1>6, <1>7 DEF Load

(* A transfer goes from a step to a later one.                             *)
LEMMA ReceiveSteps ==
  ASSUME TypeInv, NEW t \in Threads, Receive(t)
  PROVE  pc[t] \in {"perform", "head", "read"} /\ pc'[t] \in {pc[t], "head", "read", "close"}
<1>. USE DEF TypeInv, Goto
<1>1. CASE \E value \in DOMAIN RetryAfter : Header(t, value)
  BY <1>1 DEF Header
<1>2. CASE \E n \in PartSizes : Part(t, n)
  BY <1>2 DEF Part, Fetching
<1>3. CASE PerformEnds(t) \/ NoHeader(t) \/ ReadEnds(t)
  BY <1>3 DEF PerformEnds, NoHeader, ReadEnds
<1>4. CASE SendRequest(t)
  BY <1>4 DEF SendRequest, Arms
<1>. QED
  BY <1>1, <1>2, <1>3, <1>4 DEF Receive

LEMMA ReceiveTypes ==
  ASSUME TypeInv, NEW t \in Threads, Receive(t)
  PROVE  TypeInv'
<1>1. UNCHANGED <<platform, once, api, sent, method, cache, handle, opts, open>>
  BY DEF Receive, Header, NoHeader, Part, PerformEnds, SendRequest, ReadEnds, Transferring, libVars
<1>2. reply[t] \in Reply /\ reply \in [Threads -> Reply]
  BY DEF TypeInv
<1>3. reply' \in [Threads -> Reply]
  <2>1. ASSUME NEW value \in DOMAIN RetryAfter, Header(t, value)
        PROVE  reply' \in [Threads -> Reply]
    <3>1. RetryAfter[value] \in Int
      BY TransportAssumption DEF RetryAfter
    <3>. QED
      BY <1>2, <2>1, <3>1 DEF Header, Reply
  <2>2. ASSUME NEW n \in PartSizes, Part(t, n)
        PROVE  reply' \in [Threads -> Reply]
    <3>1. n \in Nat
      BY TransportAssumption
    <3>. QED
      BY <1>2, <2>2, <3>1 DEF Part, Reply
  <2>3. CASE PerformEnds(t)
    BY <1>2, <2>3, TransportAssumption DEF PerformEnds, Reply
  <2>4. CASE SendRequest(t)
    <3>1. ArmedReply(reply[t]) \in Reply /\ \A s \in Statuses : AnsweredReply(reply[t], s) \in Reply
      BY <1>2, ArmedOK, AnsweredOK, TransportAssumption
    <3>. QED
      BY <1>2, <2>4, <3>1, SendRequestReplies
  <2>5. CASE NoHeader(t) \/ ReadEnds(t)
    BY <1>2, <2>5 DEF NoHeader, ReadEnds
  <2>. QED
    BY <2>1, <2>2, <2>3, <2>4, <2>5 DEF Receive
<1>4. \E step \in Steps : pc' = pc \/ pc' = [pc EXCEPT ![t] = step]
  BY DEF TypeInv, Receive, Header, NoHeader, Part, PerformEnds, SendRequest, ReadEnds, Arms, Goto, Steps, Loading
<1>5. \E r \in Results : result' = result \/ result' = [result EXCEPT ![t] = r]
  BY DEF Receive, Header, NoHeader, Part, PerformEnds, SendRequest, ReadEnds, Results
<1>. QED
  BY <1>1, <1>3, <1>4, <1>5 DEF TypeInv, Steps, Results

LEMMA TypeKept ==
  ASSUME TypeInv, NEW t \in Threads, Calls(t) \/ Sends(t)
  PROVE  TypeInv'
<1>. USE DEF TypeInv, libVars, Goto, Steps
<1>1. CASE Create(t)
  BY <1>1 DEF Create
<1>2. CASE Destroy(t)
  BY <1>2 DEF Destroy, Freed, NoReply, Reply, Results
<1>3. CASE \E m \in {"GET", "PATCH"} : Send(t, m)
  BY <1>3 DEF Send, NoReply, Reply, Results
<1>4. CASE Prepare(t)
  BY <1>4 DEF Prepare, CrackUrl, Reuse, TakeNew, SetOptions, Connect, OpenRequest, Return, Results, Loading
<1>5. CASE Close(t)
  BY <1>5 DEF Close
<1>. QED
  BY <1>1, <1>2, <1>3, <1>4, <1>5, LoadTypes, ReceiveTypes DEF Calls, Sends
------------------------------------------------------------------------------
(* The library                                                             *)

(* While a thread loads, nobody has a handle and nobody else loads.        *)
LEMMA LoaderIsAlone ==
  ASSUME TypeInv, LibraryInv, NEW t \in Threads, pc[t] \in Loading
  PROVE  /\ platform = "posix" /\ once = "running" /\ ~api.handle /\ api.inits = 0
         /\ \A u \in Threads : /\ u # t => pc[u] \notin Loading
                               /\ pc[u] # "take" /\ handle[u] = None /\ cache[u] = None
<1>1. platform = "posix"
  BY DEF TypeInv, Steps, Loading
<1>2. once = "running" /\ ~api.handle /\ api.inits = 0
  BY DEF LibraryInv
<1>3. api # Table
  BY <1>2 DEF Table
<1>. QED
  BY <1>1, <1>2, <1>3 DEF LibraryInv

(* A load that ends: with the whole table or nothing.                      *)
LEMMA LoadEndsKeeps ==
  ASSUME TypeInv, LibraryInv, NEW t \in Threads, pc[t] \in Loading,
         NEW table \in {EmptyApi, Table}, LoadEnds(t, table), LoadStep(t)
  PROVE  LibraryInv'
<1>1. /\ once' = "done" /\ api' = table /\ pc' = [pc EXCEPT ![t] = "loaded"]
      /\ UNCHANGED <<platform, handle, cache>>
  BY DEF LoadEnds, LoadStep, Goto
<1>2. \A u \in Threads : pc'[u] \notin Loading /\ pc'[u] # "take" /\ handle'[u] = None /\ cache'[u] = None
  BY <1>1, LoaderIsAlone DEF TypeInv, Loading
<1>. QED
  BY <1>1, <1>2 DEF LibraryInv, Loading

(* A load that goes on.                                                    *)
LEMMA LoadGoesOn ==
  ASSUME TypeInv, LibraryInv, NEW t \in Threads, pc[t] \in Loading, LoadStep(t),
         once' = once, api'.handle = api.handle, api'.inits = api.inits,
         NEW step \in Loading, pc' = [pc EXCEPT ![t] = step], step = "init" => api'.symbols = Symbols
  PROVE  LibraryInv'
<1>1. /\ once' = "running" /\ ~api'.handle /\ api'.inits = 0
      /\ UNCHANGED <<platform, handle, cache>>
  BY LoaderIsAlone DEF LoadStep
<1>2. \A u \in Threads : /\ u # t => pc'[u] \notin Loading
                         /\ pc'[u] # "take" /\ handle'[u] = None /\ cache'[u] = None
  BY <1>1, LoaderIsAlone DEF TypeInv, Loading
<1>3. pc'[t] = step
  BY DEF TypeInv
<1>. QED
  BY <1>1, <1>2, <1>3 DEF LibraryInv, Loading

LEMMA LibraryKept ==
  ASSUME TypeInv, LibraryInv, HandlesInv, NEW t \in Threads, Calls(t) \/ Sends(t)
  PROVE  LibraryInv'
<1>0. "dlopen" \in Loading /\ "dlsym" \in Loading /\ "init" \in Loading
  BY DEF Loading
<1>1. CASE Calls(t)
  BY <1>1 DEF TypeInv, libVars, Goto, LibraryInv, Loading, Calls, Create, Destroy, Freed, Send
<1>2. CASE EnterOnce(t) \/ PassOnce(t)
  BY <1>2 DEF TypeInv, libVars, Goto, LibraryInv, Loading, EnterOnce, PassOnce, LoadStep
<1>3. CASE DlOpen(t)
  <2>1. pc[t] \in Loading /\ LoadStep(t)
    BY <1>0, <1>3 DEF DlOpen
  <2>2. CASE Goto(t, "dlsym") /\ UNCHANGED libVars
    BY <1>0, <2>1, <2>2, LoadGoesOn DEF Goto, libVars
  <2>. QED
    BY <1>3, <2>1, <2>2, LoadEndsKeeps DEF DlOpen
<1>4. CASE DlSym(t)
  <2>1. pc[t] = "dlsym" /\ pc[t] \in Loading /\ LoadStep(t)
    BY <1>0, <1>4 DEF DlSym
  <2>2. ASSUME NEW s \in Symbols, api' = [api EXCEPT !.symbols = @ \cup {s}], UNCHANGED <<once, pc>>
        PROVE  LibraryInv'
    <3>1. api'.handle = api.handle /\ api'.inits = api.inits
      BY <2>2 DEF TypeInv
    <3>2. pc' = [pc EXCEPT ![t] = "dlsym"]
      BY <2>1, <2>2 DEF TypeInv
    <3>. QED
      BY <1>0, <2>1, <2>2, <3>1, <3>2, LoadGoesOn
  <2>3. CASE api.symbols = Symbols /\ Goto(t, "init") /\ UNCHANGED libVars
    BY <1>0, <2>1, <2>3, LoadGoesOn DEF Goto, libVars
  <2>. QED
    BY <1>4, <2>1, <2>2, <2>3, LoadEndsKeeps DEF DlSym
<1>5. CASE GlobalInit(t)
  <2>1. pc[t] = "init" /\ pc[t] \in Loading /\ LoadStep(t)
    BY <1>0, <1>5 DEF GlobalInit
  <2>2. api.symbols = Symbols /\ api.inits = 0
    BY <2>1, LoaderIsAlone DEF LibraryInv
  <2>3. [api EXCEPT !.handle = TRUE, !.inits = @ + 1] = Table
    <3>. DEFINE new == [api EXCEPT !.handle = TRUE, !.inits = @ + 1]
    <3>1. /\ new \in Api /\ new.symbols = api.symbols /\ new.handle = TRUE
          /\ new.inits = api.inits + 1
      BY Published, Zenon DEF TypeInv
    <3>. HIDE DEF new
    <3>2. new = Table
      BY <2>2, <3>1 DEF Api, Table
    <3>. QED
      BY <3>2 DEF new
  <2>. QED
    BY <1>5, <2>1, <2>3, LoadEndsKeeps DEF GlobalInit
<1>6. CASE CheckLoaded(t)
  BY <1>6 DEF TypeInv, libVars, Goto, LibraryInv, Loading, CheckLoaded, Return, EmptyApi
<1>7. CASE Prepare(t)
  BY <1>7 DEF TypeInv, libVars, Goto, LibraryInv, Loading, Prepare, CrackUrl, Reuse, TakeNew, SetOptions, Connect, OpenRequest, Return, Steps
<1>8. CASE Receive(t)
  <2>1. /\ UNCHANGED <<platform, once, api, cache, handle>>
        /\ pc' = pc \/ pc' = [pc EXCEPT ![t] = "head"] \/ pc' = [pc EXCEPT ![t] = "read"]
                    \/ pc' = [pc EXCEPT ![t] = "close"]
    BY <1>8 DEF Receive, Header, NoHeader, Part, PerformEnds, SendRequest, ReadEnds, Arms, Transferring, libVars, Goto
  <2>. QED
    BY <2>1 DEF TypeInv, LibraryInv, Loading
<1>9. CASE Close(t)
  BY <1>9 DEF TypeInv, libVars, Goto, LibraryInv, Loading, Close
<1>. QED
  BY <1>1, <1>2, <1>3, <1>4, <1>5, <1>6, <1>7, <1>8, <1>9 DEF Sends, Load
------------------------------------------------------------------------------
(* The handles                                                             *)

LEMMA HandlesKept ==
  ASSUME TypeInv, HandlesInv, NEW t \in Threads, Calls(t) \/ Sends(t)
  PROVE  HandlesInv'
<1>1. Kind' = Kind
  BY PlatformStays DEF Kind
<1>2. \A u \in Threads \ {t} : HandlesOf(u)'
  BY <1>1, OthersStay DEF HandlesInv, HandlesOf, Owned, Handle
<1>3. HandlesOf(t)
  BY DEF HandlesInv
<1>4. HandlesOf(t)'
  <2>. USE <1>1, <1>3 DEF TypeInv, Goto, HandlesOf, Using, Owned, None
  <2>1. CASE Calls(t)
    BY <2>1 DEF Calls, Create, Destroy, Freed, Send
  <2>2. CASE Load(t)
    BY <2>2 DEF Load, EnterOnce, PassOnce, DlOpen, DlSym, GlobalInit, CheckLoaded, LoadStep, LoadEnds, Return
  <2>3. CASE CrackUrl(t)
    BY <2>3 DEF CrackUrl, Return
  <2>4. CASE Reuse(t)
    BY <2>4 DEF Reuse
  <2>5. CASE TakeNew(t)
    <3>1. Handle(Kind, t) \in Owned(t) /\ Handle(Kind, t) # None /\ Handle(Kind, t)' = Handle(Kind, t)
      BY <2>5 DEF TakeNew, Handle
    <3>2. CASE /\ handle' = [handle EXCEPT ![t] = Handle(Kind, t)]
               /\ cache' = IF t \in Cached THEN [cache EXCEPT ![t] = Handle(Kind, t)] ELSE cache
               /\ Goto(t, IF platform = "posix" THEN "options" ELSE "connect")
      <4>1. /\ handle'[t] = Handle(Kind, t) /\ pc'[t] \in {"options", "connect"}
            /\ cache'[t] = IF t \in Cached THEN Handle(Kind, t) ELSE None
        BY <2>5, <3>2 DEF TakeNew
      <4>. QED
        BY <3>1, <4>1
    <3>3. CASE Return(t, "E_HTTP") /\ UNCHANGED <<handle, cache>>
      BY <2>5, <3>3 DEF TakeNew, Return
    <3>. QED
      BY <2>5, <3>2, <3>3 DEF TakeNew
  <2>6. CASE SetOptions(t) \/ Connect(t) \/ OpenRequest(t)
    <3>1. pc[t] \in Using /\ pc'[t] \in Using /\ UNCHANGED <<sent, cache, handle>>
      BY <2>6 DEF SetOptions, Connect, OpenRequest
    <3>. QED
      BY <3>1 DEF Handle
  <2>7. CASE Receive(t)
    <3>1. UNCHANGED <<sent, cache, handle>>
      BY <2>7 DEF Receive, Header, NoHeader, Part, PerformEnds, SendRequest, ReadEnds, Transferring
    <3>2. pc[t] \in Using /\ pc'[t] \in Using
      BY <2>7, ReceiveSteps
    <3>. QED
      BY <3>1, <3>2 DEF Handle
  <2>8. CASE Close(t)
    BY <2>8 DEF Close
  <2>. QED
    BY <2>1, <2>2, <2>3, <2>4, <2>5, <2>6, <2>7, <2>8 DEF Sends, Prepare
<1>. QED
  BY <1>2, <1>4 DEF HandlesInv
------------------------------------------------------------------------------
(* What is allocated                                                       *)

(* No handle is of two threads.                                            *)
LEMMA HandlesApart ==
  ASSUME HandlesInv, NEW t \in Threads, NEW u \in Threads, t # u
  PROVE  MayHold(t) \cap MayHold(u) = {}
<1>1. \A v \in Threads : \A h \in MayHold(v) : \E kind, n : h = <<kind, v, n>>
  BY DEF HandlesInv, HandlesOf, MayHold, Held, OfRequest, Owned, Handle
<1>. QED
  BY <1>1

LEMMA NoneIsNotOpen ==
  ASSUME HandlesInv, OpenInv
  PROVE  None \notin open
<1>1. \A t \in Threads : \A h \in MayHold(t) : h # None
  BY DEF HandlesInv, HandlesOf, MayHold, Held, OfRequest, Handle, None
<1>. QED
  BY <1>1 DEF OpenInv

(* What a thread may do to the set of what is allocated.                   *)
LEMMA OpenChanges ==
  ASSUME TypeInv, HandlesInv, OpenInv, NEW t \in Threads, Calls(t) \/ Sends(t),
         open' \ open \subseteq MayHold(t)', open \ open' \subseteq MayHold(t),
         open' \cap MayHold(t) \subseteq MayHold(t)', Needs(t)' \subseteq open'
  PROVE  OpenInv'
<1>1. \A u \in Threads \ {t} : MayHold(u)' = MayHold(u) /\ Needs(u)' = Needs(u)
  BY OthersStay, PlatformStays DEF MayHold, Needs, Held, OfRequest, Handle
<1>2. \A h \in open' : \E u \in Threads : h \in MayHold(u)'
  BY <1>1 DEF OpenInv
<1>3. ASSUME NEW u \in Threads PROVE Needs(u)' \subseteq open'
  <2>1. CASE u = t
    BY <2>1
  <2>2. CASE u # t
    <3>1. Needs(u) \subseteq MayHold(u)
      BY DEF Needs, MayHold, OfRequest, Using
    <3>. QED
      BY <1>1, <2>2, <3>1, HandlesApart DEF OpenInv
  <2>. QED
    BY <2>1, <2>2
<1>. QED
  BY <1>2, <1>3 DEF OpenInv

LEMMA OpenKept ==
  ASSUME TypeInv, HandlesInv, HandlesInv', OpenInv, NEW t \in Threads, Calls(t) \/ Sends(t)
  PROVE  OpenInv'
<1>1. HandlesOf(t) /\ HandlesOf(t)' /\ Needs(t) \subseteq open
  BY DEF HandlesInv, OpenInv
<1>2. platform' = platform
  BY PlatformStays
<1>. USE <1>1, <1>2 DEF TypeInv, Goto, HandlesOf, Using, Owned, None, Needs, MayHold, Held, OfRequest
<1>3. CASE Create(t) \/ \E m \in {"GET", "PATCH"} : Send(t, m)
  BY <1>3, OpenChanges DEF Create, Send
<1>4. CASE Destroy(t)
  <2>1. /\ handle[t] = None /\ cache'[t] = None /\ handle'[t] = None /\ pc[t] = "idle" /\ pc'[t] = "gone"
        /\ open' = open \ {cache[t]}
    BY <1>4 DEF Destroy, Freed
  <2>2. MayHold(t) = {cache[t]} \ {None} /\ MayHold(t)' = {} /\ Needs(t)' = {}
    BY <2>1
  <2>3. None \notin open
    BY NoneIsNotOpen
  <2>. HIDE DEF MayHold, Needs
  <2>. QED
    BY <2>1, <2>2, <2>3, OpenChanges
<1>5. CASE Load(t)
  BY <1>5, OpenChanges DEF Load, EnterOnce, PassOnce, DlOpen, DlSym, GlobalInit, CheckLoaded, LoadStep, LoadEnds, Return
<1>6. CASE CrackUrl(t)
  BY <1>6, OpenChanges DEF CrackUrl, Return
<1>7. CASE Reuse(t)
  BY <1>7, OpenChanges DEF Reuse
<1>8. CASE TakeNew(t)
  BY <1>8, OpenChanges DEF TakeNew, Return, Handle
<1>9. CASE SetOptions(t) \/ Connect(t) \/ OpenRequest(t)
  <2>1. /\ UNCHANGED <<sent, cache, handle>> /\ pc[t] \in Using /\ pc'[t] \in Using
        /\ pc[t] # "perform"
    BY <1>9 DEF SetOptions, Connect, OpenRequest
  <2>2. MayHold(t)' = MayHold(t) /\ OfRequest(t) \subseteq MayHold(t)
    BY <2>1 DEF Handle
  <2>3. open \subseteq open' /\ open' \ open \subseteq OfRequest(t)
    BY <1>9 DEF SetOptions, Connect, OpenRequest
  <2>4. platform = "posix" => Handle("list", t) \in open'
    BY <1>9 DEF SetOptions, Connect, OpenRequest, Steps, Loading
  <2>5. Needs(t)' \subseteq Needs(t) \cup (IF platform = "posix" THEN {Handle("list", t)} ELSE {})
    BY <2>1 DEF Handle
  <2>. HIDE DEF MayHold, Needs
  <2>. QED
    BY <2>2, <2>3, <2>4, <2>5, OpenChanges
<1>10. CASE Receive(t)
  <2>1. UNCHANGED <<sent, cache, handle, open>>
    BY <1>10 DEF Receive, Header, NoHeader, Part, PerformEnds, SendRequest, ReadEnds, Transferring
  <2>2. pc[t] \in Using /\ pc'[t] \in Using /\ (pc'[t] = "perform" => pc[t] = "perform")
    BY <1>10, ReceiveSteps
  <2>3. MayHold(t)' = MayHold(t) /\ Needs(t)' \subseteq Needs(t)
    BY <2>1, <2>2 DEF Handle
  <2>. HIDE DEF MayHold, Needs
  <2>. QED
    BY <2>1, <2>3, OpenChanges
<1>11. CASE Close(t)
  <2>1. /\ pc[t] = "close" /\ pc'[t] = "idle" /\ handle'[t] = None /\ UNCHANGED <<sent, cache>>
        /\ open' = open \ (OfRequest(t) \cup (IF t \in Cached THEN {} ELSE {handle[t]}))
    BY <1>11 DEF Close
  <2>2. handle[t] # None /\ (t \in Cached => handle[t] = cache[t]) /\ (t \notin Cached => cache[t] = None)
    BY <2>1
  <2>3. /\ MayHold(t) = {handle[t]} \cup OfRequest(t)
        /\ MayHold(t)' = IF t \in Cached THEN {handle[t]} ELSE {}
        /\ Needs(t)' = MayHold(t)' /\ handle[t] \in Needs(t)
    BY <2>1, <2>2
  <2>4. handle[t] \notin OfRequest(t)
    BY <2>2 DEF Handle, Kind
  <2>. HIDE DEF MayHold, Needs, OfRequest
  <2>. QED
    BY <2>1, <2>3, <2>4, OpenChanges
<1>. QED
  BY <1>3, <1>4, <1>5, <1>6, <1>7, <1>8, <1>9, <1>10, <1>11 DEF Calls, Sends, Prepare
------------------------------------------------------------------------------
(* The options                                                             *)

LEMMA OptionsKept ==
  ASSUME TypeInv, OptionsInv, NEW t \in Threads, Calls(t) \/ Sends(t)
  PROVE  OptionsInv'
<1>1. platform' = platform
  BY PlatformStays
<1>2. \A u \in Threads \ {t} : OptionsOfThis(u)'
  BY <1>1, OthersStay DEF OptionsInv, OptionsOfThis
<1>3. OptionsOfThis(t)
  BY DEF OptionsInv
<1>4. OptionsOfThis(t)'
  <2>. USE <1>1, <1>3 DEF TypeInv, Goto, OptionsOfThis
  <2>1. CASE Calls(t)
    BY <2>1 DEF Calls, Create, Destroy, Freed, Send
  <2>2. CASE Load(t)
    BY <2>2 DEF Load, EnterOnce, PassOnce, DlOpen, DlSym, GlobalInit, CheckLoaded, LoadStep, LoadEnds, Return
  <2>3. CASE CrackUrl(t) \/ Reuse(t) \/ TakeNew(t)
    BY <2>3 DEF CrackUrl, Reuse, TakeNew, Return
  <2>4. CASE SetOptions(t)
    BY <2>4 DEF SetOptions, NoOptions
  <2>5. CASE Connect(t) \/ OpenRequest(t)
    BY <2>5 DEF Connect, OpenRequest, Steps, Loading
  <2>6. CASE Receive(t)
    <3>1. UNCHANGED <<opts, sent, method>> /\ (pc' = pc \/ \E step \in {"head", "read", "close"} : Goto(t, step))
      <4>1. ASSUME NEW value \in DOMAIN RetryAfter, Header(t, value)
            PROVE  Transferring /\ (pc' = pc \/ Goto(t, "read"))
        BY <4>1 DEF Header
      <4>2. ASSUME NoHeader(t) \/ ReadEnds(t) \/ PerformEnds(t)
            PROVE  Transferring /\ (Goto(t, "read") \/ Goto(t, "close"))
        BY <4>2 DEF NoHeader, ReadEnds, PerformEnds
      <4>3. ASSUME NEW n \in PartSizes, Part(t, n)
            PROVE  Transferring /\ (pc' = pc \/ Goto(t, "close"))
        BY <4>3 DEF Part
      <4>4. ASSUME SendRequest(t)
            PROVE  Transferring /\ (pc' = pc \/ Goto(t, "head") \/ Goto(t, "close"))
        BY <4>4 DEF SendRequest, Arms
      <4>. QED
        BY <2>6, <4>1, <4>2, <4>3, <4>4 DEF Receive, Transferring
    <3>. QED
      BY <3>1
  <2>7. CASE Close(t)
    BY <2>7 DEF Close
  <2>. QED
    BY <2>1, <2>2, <2>3, <2>4, <2>5, <2>6, <2>7 DEF Sends, Prepare
<1>. QED
  BY <1>2, <1>4 DEF OptionsInv
------------------------------------------------------------------------------
(* The answer                                                              *)

LEMMA SendRequestKeepsReply ==
  ASSUME TypeInv, NEW t \in Threads, ReplyOf(t), SendRequest(t)
  PROVE  ReplyOf(t)'
<1>1. /\ pc[t] = "perform" /\ result[t] = "none" /\ t \in DOMAIN pc /\ t \in DOMAIN result
      /\ reply[t] \in Reply /\ reply \in [Threads -> Reply]
  BY DEF SendRequest, ReplyOf, TypeInv
<1>2. CASE Goto(t, "close") /\ result' = [result EXCEPT ![t] = "E_HTTP"] /\ reply' = reply
  BY <1>1, <1>2 DEF ReplyOf, Goto
<1>3. CASE /\ pc' = pc /\ result' = result /\ ~reply[t].challenged
           /\ reply' = [reply EXCEPT ![t] = ArmedReply(reply[t])]
  <2>. DEFINE r == ArmedReply(reply[t])
  <2>1. reply'[t] = r /\ result'[t] = "none" /\ pc'[t] = "perform"
    BY <1>1, <1>3
  <2>2. reply[t].offered = 0
    BY <1>1, <1>3 DEF ReplyOf, Reply
  <2>3. /\ r.body = reply[t].body /\ r.streamed = reply[t].streamed /\ r.retry = reply[t].retry
        /\ r.offered = reply[t].offered + 1 /\ r.challenged = TRUE
    BY <1>1, ArmedOK, Zenon
  <2>. HIDE DEF r
  <2>. QED
    BY <1>1, <2>1, <2>2, <2>3 DEF ReplyOf
<1>4. ASSUME NEW s \in Statuses, Goto(t, "head"), result' = result,
             reply' = [reply EXCEPT ![t] = AnsweredReply(reply[t], s)]
      PROVE  ReplyOf(t)'
  <2>. DEFINE r == AnsweredReply(reply[t], s)
  <2>1. reply'[t] = r /\ result'[t] = "none" /\ pc'[t] = "head"
    BY <1>1, <1>4 DEF Goto
  <2>2. s \in Nat
    BY TransportAssumption
  <2>3. /\ r.body = reply[t].body /\ r.streamed = reply[t].streamed /\ r.retry = reply[t].retry
        /\ r.offered = reply[t].offered /\ r.status = s /\ (reply[t].challenged => r.challenged)
    BY <1>1, <2>2, AnsweredOK
  <2>. HIDE DEF r
  <2>. QED
    BY <1>1, <2>1, <2>3 DEF ReplyOf
<1>. QED
  BY <1>1, <1>2, <1>3, <1>4, SendRequestReplies

LEMMA ReplyKept ==
  ASSUME TypeInv, ReplyInv, NEW t \in Threads, Calls(t) \/ Sends(t)
  PROVE  ReplyInv'
<1>1. \A u \in Threads \ {t} : ReplyOf(u)'
  BY OthersStay DEF ReplyInv, ReplyOf
<1>2. ReplyOf(t) /\ reply[t] \in Reply
  BY DEF ReplyInv, TypeInv
<1>3. ReplyOf(t)'
  <2>. USE <1>2 DEF TypeInv, Goto, ReplyOf
  <2>1. CASE Calls(t)
    BY <2>1, TransportAssumption DEF Calls, Create, Destroy, Freed, Send, NoReply
  <2>2. CASE Load(t)
    BY <2>2 DEF Load, EnterOnce, PassOnce, DlOpen, DlSym, GlobalInit, CheckLoaded, LoadStep, LoadEnds, Return
  <2>3. CASE Prepare(t)
    BY <2>3 DEF Prepare, CrackUrl, Reuse, TakeNew, SetOptions, Connect, OpenRequest, Return
  <2>4. ASSUME NEW value \in DOMAIN RetryAfter, Header(t, value)
        PROVE  ReplyOf(t)'
    <3>1. RetryAfter[value] \in -1 .. Day - 1
      BY TransportAssumption DEF RetryAfter
    <3>. QED
      BY <2>4, <3>1 DEF Header, Transferring, Reply
  <2>5. CASE NoHeader(t)
    BY <2>5 DEF NoHeader, Transferring
  <2>6. ASSUME NEW n \in PartSizes, Part(t, n)
        PROVE  ReplyOf(t)'
    <3>1. n \in Nat /\ BodyCap \in Nat
      BY TransportAssumption
    <3>. QED
      BY <2>6, <3>1 DEF Part, Fetching, Transferring, Reply
  <2>7. CASE PerformEnds(t)
    BY <2>7 DEF PerformEnds, Transferring, Reply
  <2>8. CASE SendRequest(t)
    BY <2>8, SendRequestKeepsReply
  <2>9. CASE ReadEnds(t)
    BY <2>9 DEF ReadEnds, Transferring
  <2>10. CASE Close(t)
    BY <2>10 DEF Close
  <2>. QED
    BY <2>1, <2>2, <2>3, <2>4, <2>5, <2>6, <2>7, <2>8, <2>9, <2>10 DEF Sends, Receive
<1>. QED
  BY <1>1, <1>3 DEF ReplyInv
------------------------------------------------------------------------------
(* The specification                                                       *)

LEMMA TransportInit == Init => TransportInv
<1>. SUFFICES ASSUME Init PROVE TransportInv
  OBVIOUS
<1>1. TypeInv
  BY DEF Init, TypeInv, Steps, Api, EmptyApi, Reply, NoReply, Results
<1>2. LibraryInv
  BY DEF Init, LibraryInv, Loading, EmptyApi
<1>3. HandlesInv /\ OpenInv
  BY DEF Init, HandlesInv, HandlesOf, Using, OpenInv, Needs, Held
<1>4. OptionsInv /\ ReplyInv
  BY TransportAssumption DEF Init, OptionsInv, OptionsOfThis, ReplyInv, ReplyOf, NoReply
<1>. QED
  BY <1>1, <1>2, <1>3, <1>4 DEF TransportInv

LEMMA TransportStep == TransportInv /\ [Next]_vars => TransportInv'
<1>. SUFFICES ASSUME TransportInv, [Next]_vars PROVE TransportInv'
  OBVIOUS
<1>1. ASSUME NEW t \in Threads, Calls(t) \/ Sends(t)
      PROVE  TransportInv'
  <2>. USE <1>1 DEF TransportInv
  <2>1. TypeInv' /\ LibraryInv' /\ HandlesInv'
    BY TypeKept, LibraryKept, HandlesKept
  <2>2. OpenInv'
    BY <2>1, OpenKept
  <2>3. OptionsInv' /\ ReplyInv'
    BY OptionsKept, ReplyKept
  <2>. QED
    BY <2>1, <2>2, <2>3
<1>2. CASE UNCHANGED vars
  <2>. USE <1>2 DEF vars, libVars, TransportInv
  <2>1. TypeInv' /\ LibraryInv'
    BY DEF TypeInv, Steps, LibraryInv
  <2>2. HandlesInv' /\ OpenInv'
    BY DEF HandlesInv, HandlesOf, Owned, Handle, Kind, OpenInv, MayHold, Needs, Held, OfRequest
  <2>3. OptionsInv' /\ ReplyInv'
    BY DEF OptionsInv, OptionsOfThis, ReplyInv, ReplyOf
  <2>. QED
    BY <2>1, <2>2, <2>3
<1>. QED
  BY <1>1, <1>2 DEF Next

(* In every reachable state the transports are as TransportInv says.       *)
THEOREM TransportInvariant == Spec => []TransportInv
<1>. QED
  BY TransportInit, TransportStep, PTL DEF Spec

(* Whoever uses libcurl finds every function looked up and the library     *)
(* initialised, once, however many threads send their first request        *)
(* together and whichever step of a load fails.                            *)
THEOREM TransportLibraryIsReady == Spec => []LibraryIsReadyWhenUsed
<1>1. TransportInv => LibraryIsReadyWhenUsed
  BY DEF TransportInv, TypeInv, LibraryInv, LibraryIsReadyWhenUsed, EmptyApi, Table
<1>. QED
  BY <1>1, TransportInvariant, PTL

(* A transfer has exactly the options of its own request, on a handle and  *)
(* with a list that are still allocated.                                   *)
THEOREM TransportOptionsAreFresh == Spec => []OptionsAreOfThisRequest
<1>1. TransportInv => OptionsAreOfThisRequest
  BY DEF TransportInv, OptionsInv, OptionsOfThis, OpenInv, Needs, Held, HandlesInv, HandlesOf, Using,
         OptionsAreOfThisRequest
<1>. QED
  BY <1>1, TransportInvariant, PTL

(* When nobody sends, what is allocated is the cached handles of the       *)
(* clients that live, and nothing else: no return of a send and no client  *)
(* destroyed leaves anything behind.                                       *)
THEOREM TransportLeaksNothing == Spec => []NothingIsLeftOpen
<1>1. ASSUME TransportInv PROVE NothingIsLeftOpen
  <2>. SUFFICES ASSUME \A t \in Threads : ~Sending(t)
                PROVE  open = {cache[t] : t \in {u \in Threads : pc[u] # "gone"}} \ {None}
    BY DEF NothingIsLeftOpen
  <2>1. \A t \in Threads : pc[t] \in {"gone", "idle"}
    BY DEF Sending
  <2>2. \A t \in Threads : /\ MayHold(t) = {cache[t]} \ {None} /\ Needs(t) = {cache[t]} \ {None}
                           /\ pc[t] = "gone" => cache[t] = None
    BY <1>1, <2>1 DEF TransportInv, HandlesInv, HandlesOf, Using, MayHold, Needs, Held
  <2>3. ASSUME NEW h \in open
        PROVE  \E t \in Threads : pc[t] # "gone" /\ h = cache[t] /\ h # None
    <3>1. PICK t \in Threads : h \in MayHold(t)
      BY <1>1 DEF TransportInv, OpenInv
    <3>2. h \in {cache[t]} \ {None}
      BY <2>2, <3>1
    <3>. QED
      BY <2>2, <3>2
  <2>4. ASSUME NEW t \in Threads, cache[t] # None
        PROVE  cache[t] \in open
    <3>1. Needs(t) = {cache[t]} \ {None} /\ Needs(t) \subseteq open
      BY <1>1, <2>2 DEF TransportInv, OpenInv
    <3>. QED
      BY <2>4, <3>1
  <2>. QED
    BY <2>3, <2>4
<1>. QED
  BY <1>1, TransportInvariant, PTL

(* OK means the whole answer and its status, E_BUFFER that it did not fit; *)
(* the user's logon is offered to a proxy at most once a request, and only *)
(* after the proxy's challenge.                                            *)
THEOREM TransportAnswersWhole == Spec => []AnswerIsWhole
<1>1. TransportInv => AnswerIsWhole
  BY TransportAssumption DEF TransportInv, TypeInv, Reply, ReplyInv, ReplyOf, AnswerIsWhole
<1>. QED
  BY <1>1, TransportInvariant, PTL
=============================================================================
