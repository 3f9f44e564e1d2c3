---------------------------- MODULE RequestLedger ----------------------------
(***************************************************************************)
(* What the scheduler promises the caller of submit(): an accepted request *)
(* is answered at most once; it is handed to one worker at most once; a    *)
(* result, and a cancellation, is only ever the answer of a request a      *)
(* worker was given; and a request that holds no worker can only be turned *)
(* down.  Nothing is said of routing, limits, pausing or scaling.          *)
(***************************************************************************)
CONSTANTS Requests, Workers, NoWorker

VARIABLES
  stage,   \* how far a request is
  holder,  \* the worker that has it
  answer   \* what its caller was told

Stages == {"unseen", "waiting", "served", "answered"}

LedgerInit ==
  /\ stage = [r \in Requests |-> "unseen"]
  /\ holder = [r \in Requests |-> NoWorker]
  /\ answer = [r \in Requests |-> "pending"]

Accept(r) ==
  /\ stage[r] = "unseen"
  /\ stage' = [stage EXCEPT ![r] = "waiting"]
  /\ UNCHANGED <<holder, answer>>

Serve(r, w) ==
  /\ stage[r] = "waiting"
  /\ stage' = [stage EXCEPT ![r] = "served"]
  /\ holder' = [holder EXCEPT ![r] = w]
  /\ UNCHANGED answer

TurnDown(r, a) ==
  /\ stage[r] = "waiting" /\ a \in {"error", "stopped"}
  /\ stage' = [stage EXCEPT ![r] = "answered"]
  /\ answer' = [answer EXCEPT ![r] = a]
  /\ UNCHANGED holder

Conclude(r, a) ==
  /\ stage[r] = "served" /\ a \in {"result", "error", "cancelled"}
  /\ stage' = [stage EXCEPT ![r] = "answered"]
  /\ holder' = [holder EXCEPT ![r] = NoWorker]
  /\ answer' = [answer EXCEPT ![r] = a]

LedgerStep(r) ==
  \/ Accept(r)
  \/ \E w \in Workers : Serve(r, w)
  \/ \E a \in {"error", "stopped"} : TurnDown(r, a)
  \/ \E a \in {"result", "error", "cancelled"} : Conclude(r, a)

LedgerSpec ==
  LedgerInit /\ [][\E r \in Requests : LedgerStep(r)]_<<stage, holder, answer>>

=============================================================================
