---------------------------- MODULE Speculation -----------------------------
(***************************************************************************)
(* Speculative decoding in vLLM with the patches of this package: the      *)
(* scheduler (vllm/patches.py) reserves places for draft tokens one or two *)
(* batches ahead, the worker (vllm/model_runner.py) verifies them, feeds   *)
(* what it sampled to the suffix cache and drafts the next ones, and its   *)
(* report of how many it drafted comes back with the output.               *)
(*                                                                         *)
(* A token is its position in the response of its request, 0 stands for    *)
(* the prompt; a draft is its length, and how much of it is accepted is    *)
(* open.  vLLM's own scheduling decides what goes into a batch: any of the *)
(* requests may be left out of any batch.                                  *)
(***************************************************************************)
EXTENDS SuffixCache, FiniteSets, FiniteSetsExt

CONSTANTS Requests,    \* request ids, in the order of the scheduler: 1 .. n
          MaxOut,      \* max_tokens of every request
          NumSpec,     \* num_speculative_tokens
          NPredict,    \* n_predict of the Arctic drafter
          SoftLimit,   \* disable_by_batch_size
          MaxModelLen, MaxSpecLen,
          MaxSkips,    \* bound: batches a running request is left out of
          Modes,       \* the ways to start the engine explored
          CacheSizes,  \* the suffix_cache_max_requests explored
          Nil

ASSUME SpecConstants ==
  /\ Requests \subseteq Nat \ {0} /\ IsFiniteSet(Requests) /\ MaxOut \in Nat /\ Nil \notin Nat
  /\ NumSpec \in Nat /\ NPredict \in 0 .. NumSpec /\ MaxSpecLen \in Nat
  /\ CacheSizes \subseteq Nat \union {Unlimited}
  /\ \A m \in Modes : m.method \in {"arctic", "suffix", "hybrid"} /\ m.hard \in Nat \union {Nil}

\* _generate_seq_id() looks on for ever when active requests have all ids.
ASSUME IdsSuffice == Cardinality(Requests) <= SeqSpace

VARIABLES mode,      \* how the engine was started: method, async(hronous), reported (the
                     \* drafted lengths reach the scheduler), hard_disable_by_batch_size
          req,       \* the scheduler's requests
          flight,    \* the batch queue, oldest first
          gen,       \* tokens the worker has sampled for each request
          rows,      \* _draft_token_ids: request -> length of its draft
          cache,     \* _suffix_cache
          response,  \* _suffix_response_tokens
          skips

specVars == <<mode, req, flight, gen, rows, cache, response, skips>>

HasSuffix == mode.method # "arctic"
HasArctic == mode.method # "suffix"

Init == /\ mode \in Modes
        /\ req = [r \in Requests |->
                    [st |-> "prefill", out |-> 0,
                     spec |-> 0,        \* len(spec_token_ids)
                     holders |-> 0,     \* num_output_placeholders
                     drafted |-> Nil]]  \* _prev_actual_draft_len
        /\ flight = <<>>
        /\ gen = [r \in Requests |-> 0]
        /\ rows = [r \in {} |-> 0]
        /\ cache \in {EmptyCache(max) : max \in CacheSizes}
        /\ response = [r \in {} |-> <<>>]
        /\ skips = 0

\* effective_draft_limit()
EffectiveDraftLimit(size) ==
  IF mode.hard # Nil /\ size >= mode.hard THEN 0
  ELSE IF size > SoftLimit THEN SoftLimit ELSE size

(***************************************************************************)
(* The scheduler.                                                          *)
(***************************************************************************)

InFlight(r) == Cardinality({i \in DOMAIN flight : r \in flight[i].reqs})

Schedulable(r) == /\ req[r].st # "done"
                  /\ req[r].out + InFlight(r) < MaxOut

\* AsyncScheduler._update_after_schedule() for one request of the batch that
\* takes part in decoding; place: how many such requests stand before it.
AfterSchedule(q, place) ==
  [q EXCEPT !.st = "decode",
            !.holders = IF mode.async THEN @ + 1 + q.spec ELSE @,
            !.spec = IF ~mode.async \/ place > SoftLimit THEN 0
                     ELSE IF q.drafted = Nil THEN NumSpec
                     ELSE Min({Max({q.drafted, 1}), NumSpec})]

\* Scheduler.schedule(): a batch of the requests in S; those in pre have a chunk
\* of their prompt in it that is not the last.
Schedule(S, pre) ==
  /\ IF mode.async THEN Len(flight) < 2 ELSE flight = <<>>
  /\ \A r \in S : Schedulable(r)
  /\ \A r \in pre : req[r].st = "prefill" /\ req[r].out + InFlight(r) = 0
  /\ LET out == {r \in Requests \ S : req[r].st = "decode"}
     IN /\ skips + Cardinality(out) <= MaxSkips
        /\ skips' = skips + Cardinality(out)
  /\ LET decode == S \ pre
         place(r) == Cardinality({x \in decode : x <= r})
     IN /\ req' = [r \in Requests |->
                     IF r \in decode THEN AfterSchedule(req[r], place(r)) ELSE req[r]]
        /\ flight' = Append(flight,
             [reqs |-> S, pre |-> pre, spec |-> [r \in decode |-> req[r].spec],
              out |-> Nil,       \* sampled_token_ids, once the worker is done
              drafts |-> Nil])   \* _actual_draft_lens
  /\ UNCHANGED <<mode, gen, rows, cache, response>>

\* The draft length the scheduler infers when the report is lost.
Inferred(q, n, k) ==
  LET was  == IF q.drafted = Nil THEN 0 ELSE q.drafted
      grow == IF n - 1 >= k THEN Min({k * 2, NumSpec}) ELSE Min({n, NumSpec})
  IN IF k = 0 THEN q.drafted
     ELSE IF n > 1 THEN Max({was, grow})
     ELSE IF q.drafted = Nil THEN 1 ELSE q.drafted

\* Mutant of Received: the places of rejected drafts are kept.
ReceivedKeeps(q, n, k, report) ==
  LET out == Min({q.out + n, MaxOut})
  IN IF q.st = "done" \/ n = 0 THEN q
     ELSE [q EXCEPT !.out = out, !.st = IF out = MaxOut THEN "done" ELSE "decode",
                    !.holders = IF mode.async THEN @ - n ELSE @,
                    !.drafted = IF ~mode.async THEN @
                                ELSE IF report # Nil THEN report ELSE Inferred(q, n, k),
                    !.spec = IF mode.async THEN @ ELSE 0]

\* Scheduler.update_from_output() with its patch: the rejected places and those
\* of the new tokens are given back, then the reported length is noted.
Received(q, n, k, report) ==
  LET out == Min({q.out + n, MaxOut})
  IN IF q.st = "done" \/ n = 0 THEN q
     ELSE [q EXCEPT !.out = out, !.st = IF out = MaxOut THEN "done" ELSE "decode",
                    !.holders = IF mode.async THEN @ - ((k - (n - 1)) + n) ELSE @,
                    !.drafted = IF ~mode.async THEN @
                                ELSE IF report # Nil THEN report ELSE Inferred(q, n, k),
                    !.spec = IF mode.async THEN @ ELSE 0]

\* EngineCore.post_step() of the synchronous engine: the drafts are fetched,
\* unless so many requests run that nobody was to draft.
PostStep(q, r, running) ==
  IF mode.async \/ q.st # "decode" \/ r \notin DOMAIN rows
     \/ (mode.hard # Nil /\ running >= mode.hard)
  THEN q ELSE [q EXCEPT !.spec = rows[r]]

UpdateFromOutput ==
  /\ flight # <<>> /\ Head(flight).out # Nil
  /\ LET b == Head(flight)
         upd == [r \in Requests |->
                   IF r \notin DOMAIN b.out THEN req[r]
                   ELSE Received(req[r], b.out[r],
                                 IF r \in DOMAIN b.spec THEN b.spec[r] ELSE 0,
                                 IF b.drafts = Nil THEN Nil ELSE b.drafts[r])]
         running == Cardinality({r \in Requests : upd[r].st = "decode"})
     IN req' = [r \in Requests |-> PostStep(upd[r], r, running)]
  /\ flight' = Tail(flight)
  /\ UNCHANGED <<mode, gen, rows, cache, response, skips>>

(***************************************************************************)
(* The worker.                                                             *)
(***************************************************************************)

\* The tokens of r sampled in this step, n of them.
NewTokens(r, n) == [i \in 1 .. n |-> gen[r] + i]

\* _update_suffix_cache(): what was sampled goes into the cache, in the order
\* of the batch; a request that is new to it is started, one that is not in the
\* batch is stopped.  w = [cache, response].
Feed(w, r, toks) ==
  LET c0 == IF r \in CachedRequests(w.cache) THEN EvictCachedResponse(w.cache, r) ELSE w.cache
      w1 == IF r \in Active(w.cache) THEN w
            ELSE [cache |-> StartRequest(c0, r, <<0>>),
                  response |-> With(w.response, r, <<>>)]
  IN IF toks = <<>> THEN w
     ELSE [cache |-> AddActiveResponse(w1.cache, r, toks),
           response |-> [w1.response EXCEPT ![r] = @ \o toks]]

FedUpTo(ids, n) ==
  LET fed[k \in 0 .. Len(ids)] ==
        IF k = 0 THEN [cache |-> cache, response |-> response]
        ELSE Feed(fed[k - 1], ids[k], NewTokens(ids[k], n[ids[k]]))
  IN fed

UpdateSuffixCache(ids, n) ==
  LET fed  == FedUpTo(ids, n)[Len(ids)]
      gone == Active(fed.cache) \ ToSet(ids)
  IN [cache |-> StopRequests(fed.cache, gone),
      response |-> Restrict(fed.response, DOMAIN fed.response \ gone)]

\* What propose_suffix_draft_token_ids() takes for the text of the request: in
\* the asynchronous engine the prompt and the response tokens kept for it.
Pattern(w, r, n) ==
  IF mode.async THEN <<0>> \o w.response[r]
  ELSE [i \in 1 .. gen[r] + n[r] + 1 |-> i - 1]

\* The lengths a suffix draft may have: it continues a match, and is dropped
\* when its score is too low.
SuffixLengths(w, r, n) ==
  LET len  == Len(Pattern(w, r, n))
      most == Min({MaxSpecLen, MaxModelLen - len - 1})
  IN IF n[r] = 0 \/ len >= MaxModelLen THEN {0} ELSE 0 .. Max({0, most})

\* propose_draft_token_ids(): the Arctic drafter drafts for the first requests of
\* the batch.
ArcticLengths(ids) ==
  [i \in DOMAIN ids |->
     IF HasArctic /\ i <= EffectiveDraftLimit(Len(ids)) THEN NPredict ELSE 0]

Preferred(suffix, arctic) == IF suffix > 0 THEN suffix ELSE arctic

\* The reported lengths: a suffix draft takes the place of the Arctic one.
Merged(ids, suffix) ==
  LET at(r) == CHOOSE i \in DOMAIN ids : ids[i] = r
  IN [r \in ToSet(ids) |-> Preferred(suffix[r], ArcticLengths(ids)[at(r)])]

\* The rows of _draft_token_ids: the asynchronous engine has NumSpec columns.
Rows(drafts) ==
  [r \in DOMAIN drafts |-> IF mode.async THEN Min({drafts[r], NumSpec}) ELSE drafts[r]]

\* Of the places scheduled, those with a draft in them can be accepted.
Sampled(b, acc) == [r \in b.reqs |-> IF r \in b.pre THEN 0 ELSE 1 + acc[r]]

\* The lengths attached to the output; another process does not see them.
Reported(drafts) == IF mode.async /\ mode.reported THEN drafts ELSE Nil

\* What sampling n tokens for the requests of batch i changes, when they stand in
\* the order ids in the worker's input batch.
Sample(i, ids, n) ==
  LET b == flight[i]
      w == IF HasSuffix THEN UpdateSuffixCache(ids, n)
           ELSE [cache |-> cache, response |-> response]
  IN /\ \E suffix \in [b.reqs -> 0 .. MaxSpecLen] :
          /\ \A r \in b.reqs :
               suffix[r] \in IF HasSuffix THEN SuffixLengths(w, r, n) ELSE {0}
          /\ rows' = Rows(Merged(ids, suffix))
          /\ flight' = [flight EXCEPT ![i].out = n,
                                      ![i].drafts = Reported(Merged(ids, suffix))]
     /\ cache' = w.cache /\ response' = w.response
     /\ gen' = [r \in Requests |-> IF r \in b.reqs THEN gen[r] + n[r] ELSE gen[r]]

\* The drafts of r in batch b that there are to accept.
Drafted(b, r) == IF r \notin DOMAIN b.spec \cap DOMAIN rows THEN 0
                 ELSE Min({b.spec[r], rows[r]})

\* execute_model() and sample_tokens() on the oldest batch not run.
Execute ==
  \E i \in DOMAIN flight :
    /\ flight[i].out = Nil /\ \A j \in 1 .. i - 1 : flight[j].out # Nil
    /\ \E ids \in SetToSeqs(flight[i].reqs) :
       \E acc \in [flight[i].reqs -> 0 .. Max({NumSpec, MaxSpecLen})] :
         /\ \A r \in flight[i].reqs : acc[r] <= Drafted(flight[i], r)
         /\ Sample(i, ids, Sampled(flight[i], acc))
    /\ UNCHANGED <<mode, req, skips>>

Next ==
  \/ \E S \in SUBSET Requests \ {{}} : \E pre \in SUBSET S : Schedule(S, pre)
  \/ UpdateFromOutput
  \/ Execute

Spec == Init /\ [][Next]_specVars

(***************************************************************************)
(* Properties.                                                             *)
(***************************************************************************)

\* The copies of a response agree: for every active request the tokens after the
\* prompt in its own tree, the ones kept for patterns and, unless evicted, the
\* ones under its sequence id in the global tree are the same, namely the last
\* ones sampled, none lost and none twice.  Ids and requests map to each other
\* also when the ids wrap around, and an id is not taken from an active request
\* (cache.py:312-333); no sequence is in the global tree that no request owns, and
\* no more than the limit, which alone pushes out an active request's (335-347).
ResponsesAgree ==
  /\ \A r \in Active(cache) :
       /\ cache.local[r] = <<0>> \o response[r]
       /\ response[r] = [i \in DOMAIN response[r] |-> gen[r] - Len(response[r]) + i]
       /\ r \in CachedRequests(cache) => cache.global[SeqId(cache, r)] = response[r]
  /\ DOMAIN cache.global = DOMAIN cache.owner
  /\ DOMAIN cache.owner = {e.seq : e \in ToSet(cache.cached)}
  /\ \A e \in ToSet(cache.cached) : cache.owner[e.seq] = e.req
  /\ cache.max # Unlimited => Len(cache.cached) <= cache.max
  /\ cache.max = Unlimited \/ cache.max >= Cardinality(Requests) =>
       Active(cache) \subseteq CachedRequests(cache)

\* The places that the batches in flight have for r: one for the next token and
\* one for every draft token to verify.
Places(r) == UNION {{i} \X (0 .. flight[i].spec[r]) :
                    i \in {j \in DOMAIN flight : r \in DOMAIN flight[j].spec}}

\* The places reserved for output are those of the batches in flight: nothing
\* is left over once all have come back, however much was rejected.
PlacesExact ==
  mode.async => \A r \in Requests :
    req[r].st # "done" => req[r].holders = Cardinality(Places(r))

=============================================================================
