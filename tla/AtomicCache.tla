----------------------------- MODULE AtomicCache -----------------------------
(***************************************************************************)
(* What the client takes its storage to be: a place that holds nothing or  *)
(* one whole document.  A write replaces it in one step or leaves it; a    *)
(* read returns what was there at some moment between its start and its    *)
(* end, or nothing: a cache that cannot be reached looks like an empty one *)
(* and the client then asks the server.                                    *)
(***************************************************************************)
CONSTANTS Docs, Nothing, Readers

VARIABLES
  content,    \* what the cache holds
  answer,     \* what each reader's last read returned
  passing     \* for each reader under way, the contents since its start

cacheVars == <<content, answer, passing>>

CacheInit ==
  /\ content \in Docs \cup {Nothing}
  /\ answer = [r \in Readers |-> Nothing]
  /\ passing = [r \in Readers |-> {}]

(* The new content is one more that a read under way may return.           *)
Replace ==
  /\ content' \in Docs
  /\ passing' = [r \in Readers |->
                   IF passing[r] = {} THEN {} ELSE passing[r] \cup {content'}]
  /\ UNCHANGED answer

StartRead(r) ==
  /\ passing[r] = {}
  /\ passing' = [passing EXCEPT ![r] = {content}]
  /\ UNCHANGED <<content, answer>>

EndRead(r) ==
  /\ passing[r] # {}
  /\ \/ \E d \in passing[r] : answer' = [answer EXCEPT ![r] = d]
     \/ UNCHANGED answer                            \* the read failed
  /\ passing' = [passing EXCEPT ![r] = {}]
  /\ UNCHANGED content

ReadNothing(r) ==
  /\ passing[r] = {}
  /\ answer' = [answer EXCEPT ![r] = Nothing]
  /\ UNCHANGED <<content, passing>>

CacheNext == Replace \/ \E r \in Readers : StartRead(r) \/ EndRead(r) \/ ReadNothing(r)

CacheSpec == CacheInit /\ [][CacheNext]_cacheVars
==============================================================================
