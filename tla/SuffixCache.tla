---------------------------- MODULE SuffixCache -----------------------------
(***************************************************************************)
(* The suffix decoding cache (src/arctic_inference/suffix_decoding/        *)
(* cache.py): a tree of its own for the prompt and response of each active *)
(* request, and one global tree for the responses of the last requests,     *)
(* active or not, up to a limit.  A tree is here the sequences it indexes;      *)
(* module SuffixTree is the tree.  The class is passive: its methods are   *)
(* operators on its state, for the module of its caller to compose.        *)
(***************************************************************************)
EXTENDS Integers, Sequences, SequencesExt, Functions

CONSTANTS Unlimited,   \* a negative max_cached_requests
          SeqSpace     \* 2^31: sequence ids are 0 .. SeqSpace - 1

ASSUME CacheConstants == Unlimited \notin Nat /\ SeqSpace \in Nat \ {0}

With(f, x, y) == [z \in DOMAIN f \cup {x} |-> IF z = x THEN y ELSE f[z]]

Without(f, x) == Restrict(f, DOMAIN f \ {x})

\* A cache for max responses; 0: there is no global tree.
EmptyCache(max) ==
  [max |-> max,
   local |-> [r \in {} |-> <<>>],      \* _local_trees: the one sequence of each
   cached |-> <<>>,                    \* _req_to_seq_id, in order of insertion
   owner |-> [s \in {} |-> 0],         \* _seq_to_req_id
   global |-> [s \in {} |-> <<>>],     \* _global_tree
   next |-> 0]                         \* _next_seq_id

Active(c) == DOMAIN c.local

CachedRequests(c) == {c.cached[i].req : i \in DOMAIN c.cached}

\* The place of r in _req_to_seq_id.
Entry(c, r) == CHOOSE i \in DOMAIN c.cached : c.cached[i].req = r

SeqId(c, r) == c.cached[Entry(c, r)].seq

EvictCachedResponse(c, r) ==
  LET s == SeqId(c, r)
  IN [c EXCEPT !.cached = RemoveAt(@, Entry(c, r)),
               !.owner = Without(@, s), !.global = Without(@, s)]

\* _maybe_evict_requests(): the oldest go, never the newest.
MaybeEvict(c) ==
  LET excess == Len(c.cached) - c.max
      evicted[k \in 0 .. excess] ==
        IF k = 0 THEN c ELSE EvictCachedResponse(evicted[k - 1], evicted[k - 1].cached[1].req)
  IN IF c.max = Unlimited \/ excess <= 0 THEN c ELSE evicted[excess]

\* An inactive request loses its response to the one that gets its id.
TakeId(c, r, s) ==
  LET free == IF s \in DOMAIN c.owner THEN EvictCachedResponse(c, c.owner[s]) ELSE c
  IN MaybeEvict([free EXCEPT !.next = (s + 1) % SeqSpace,
                             !.cached = Append(@, [req |-> r, seq |-> s]),
                             !.owner = With(@, s, r)])

\* The next id that no active request has.
FreeId(c) ==
  LET taken == {s \in DOMAIN c.owner : c.owner[s] \in Active(c)}
      skip  == CHOOSE k \in 0 .. SeqSpace - 1 :
                 /\ (c.next + k) % SeqSpace \notin taken
                 /\ \A j \in 0 .. k - 1 : (c.next + j) % SeqSpace \in taken
  IN (c.next + skip) % SeqSpace

\* Mutant of GenerateSeqId: ids of active requests are not skipped.
NextSeqId(c, r) == TakeId(c, r, c.next)

\* _generate_seq_id()
GenerateSeqId(c, r) == TakeId(c, r, FreeId(c))

\* start_request(), of a request that is not active.
StartRequest(c, r, prompt) ==
  LET d == [c EXCEPT !.local = With(@, r, prompt)]
  IN IF c.max = 0 THEN d
     ELSE GenerateSeqId(IF r \in CachedRequests(d) THEN EvictCachedResponse(d, r) ELSE d, r)

\* stop_request(), of each of the requests in S.
StopRequests(c, S) == [c EXCEPT !.local = Restrict(@, DOMAIN @ \ S)]

\* add_active_response(): the response goes on in both trees, unless the global
\* one has evicted it meanwhile.
AddActiveResponse(c, r, toks) ==
  LET d == [c EXCEPT !.local[r] = @ \o toks]
      s == SeqId(c, r)
      old == IF s \in DOMAIN c.global THEN c.global[s] ELSE <<>>
  IN IF r \notin CachedRequests(c) THEN d
     ELSE [d EXCEPT !.global = With(@, s, old \o toks)]

=============================================================================
