----------------------------- MODULE MapLoading -----------------------------
(***************************************************************************)
(* The background map loader: the prioritised queue of load requests and   *)
(* the worker thread that serves it. Every step below that touches the     *)
(* queue, started or completed is one critical section of the loader's     *)
(* mutex; the condition variable is the pair of phases asleep / deciding   *)
(* and the separate notification steps.                                    *)
(***************************************************************************)
EXTENDS MapResidency

CONSTANT NoRequest   (* the worker has no request in hand                  *)

Generation == Nat \ {0}

(* No request of this key was ever accepted, or it was cancelled: a        *)
(* generation the streaming system never issues.                           *)
Absent == 0

Request == [key : Key, generation : Generation, priority : Priority]

(* What a load can end with: "map" a payload; "flat" a payload whose       *)
(* bounding box spans no area, told apart for the seed's terrain alone;    *)
(* "cancelled" the exception of a cancellation check; "error" any other.   *)
Outcome == {"map", "flat", "error", "cancelled"}
Payloads == {"map", "flat"}

Result == [request : Request, outcome : Outcome]

ASSUME NoRequestAssumption == NoRequest \notin Request

VARIABLES
  latest,      (* the generation of each key's latest accepted request      *)
  pending,     (* the requests waiting in the queue                         *)
  started,     (* requests the worker took, not yet seen by the main thread *)
  completed,   (* results not yet taken by the main thread                  *)
  stopping,    (* the destructor has begun                                  *)
  phase,       (* where the worker thread is                                *)
  job,         (* the request the worker is loading                         *)
  outcome      (* what its load ended with, once phase is "returned"        *)

queueVars == <<latest, pending>>
workerVars == <<phase, job, outcome>>
loaderVars == <<queueVars, started, completed, stopping, workerVars>>

LoaderTypeOK ==
  /\ latest \in [Key -> Generation \cup {Absent}]
  /\ pending \in SUBSET Request
  /\ started \in SUBSET Request
  /\ completed \in SUBSET Result
  /\ stopping \in BOOLEAN
  /\ phase \in {"deciding", "asleep", "loading", "returned", "exited"}
  /\ job \in Request \cup {NoRequest}
  /\ outcome \in Outcome \cup {"none"}
  /\ phase \in {"loading", "returned"} => job \in Request
  /\ phase = "returned" => outcome \in Outcome

LoaderInit ==
  /\ latest = [k \in Key |-> Absent]
  /\ pending = {}
  /\ started = {}
  /\ completed = {}
  /\ stopping = FALSE
  /\ phase = "deciding"
  /\ job = NoRequest
  /\ outcome = "none"

-----------------------------------------------------------------------------
(* The queue.                                                              *)

IsCurrent(request) == latest[request.key] = request.generation

(* The order pop serves requests in.                                       *)
Earlier(r, s) ==
  \/ r.priority < s.priority
  \/ /\ r.priority = s.priority
     /\ \/ SquareBefore(r.key.square, s.key.square)
        \/ /\ r.key.square = s.key.square
           /\ \/ r.key.layer = "terrain" /\ s.key.layer = "detail"
              \/ r.key.layer = s.key.layer /\ r.generation < s.generation

CancelInQueue(cancelled) ==
  [latest |-> [k \in Key |-> IF k \in cancelled THEN Absent ELSE latest[k]],
   pending |-> {p \in pending : p.key \notin cancelled}]

(* sent, a function from keys to requests, is one batch of enqueue calls:  *)
(* at most one per key. An older request than the latest is dropped; one   *)
(* of the same generation replaces the pending entry (a fresh priority) or *)
(* is dropped when nothing is pending; a newer one evicts the pending      *)
(* entry of its key.                                                       *)
Displaced(queue, sent, p) ==
  /\ p.key \in DOMAIN sent
  /\ \/ queue.latest[p.key] < sent[p.key].generation
     \/ /\ queue.latest[p.key] = sent[p.key].generation
        /\ p.generation = sent[p.key].generation

Enters(queue, sent, k) ==
  \/ queue.latest[k] < sent[k].generation
  \/ /\ queue.latest[k] = sent[k].generation
     /\ \E p \in queue.pending : p.key = k /\ p.generation = sent[k].generation

(* Mutant of Enqueued: an entry of the same generation keeps its old       *)
(* priority.                                                               *)
EnqueuedStale(queue, sent) ==
  LET newer == {k \in DOMAIN sent : queue.latest[k] < sent[k].generation} IN
  [latest |-> [k \in Key |-> IF k \in newer THEN sent[k].generation ELSE queue.latest[k]],
   pending |-> {p \in queue.pending : p.key \notin newer} \cup {sent[k] : k \in newer}]

(* Mutant of Enqueued: a request that is sent again is queued again, even  *)
(* while the worker is loading it.                                         *)
EnqueuedTwice(queue, sent) ==
  [latest |-> [k \in Key |-> IF k \in DOMAIN sent THEN sent[k].generation ELSE queue.latest[k]],
   pending |-> {p \in queue.pending : p.key \notin DOMAIN sent}
                 \cup {sent[k] : k \in DOMAIN sent}]

Enqueued(queue, sent) ==
  [latest |-> [k \in Key |->
                 IF k \in DOMAIN sent /\ queue.latest[k] < sent[k].generation
                   THEN sent[k].generation
                   ELSE queue.latest[k]],
   pending |-> {p \in queue.pending : ~ Displaced(queue, sent, p)}
                 \cup {sent[k] : k \in {d \in DOMAIN sent : Enters(queue, sent, d)}}]

(* The loader's reconcile, one critical section: cancellations first, then *)
(* the requests. The notification follows after the mutex is released.     *)
Reconcile(sent, cancelled) ==
  LET queue == Enqueued(CancelInQueue(cancelled), sent) IN
  /\ latest' = queue.latest
  /\ pending' = queue.pending

-----------------------------------------------------------------------------
(* The worker thread.                                                      *)

(* The wait's predicate is false: the worker blocks.                       *)
WorkerSleep ==
  /\ phase = "deciding"
  /\ ~ stopping
  /\ pending = {}
  /\ phase' = "asleep"
  /\ UNCHANGED <<queueVars, started, completed, stopping, job, outcome>>

(* A condition variable may wake without a notification; the predicate is  *)
(* evaluated again.                                                        *)
WorkerSpuriousWake ==
  /\ phase = "asleep"
  /\ phase' = "deciding"
  /\ UNCHANGED <<queueVars, started, completed, stopping, job, outcome>>

WorkerExit ==
  /\ phase = "deciding"
  /\ stopping
  /\ phase' = "exited"
  /\ UNCHANGED <<queueVars, started, completed, stopping, job, outcome>>

(* pop: drop the entries that are no longer current, take the first of the *)
(* others. With nothing left the worker goes round its loop again.         *)
WorkerPop ==
  /\ phase = "deciding"
  /\ ~ stopping
  /\ pending # {}
  /\ LET live == {p \in pending : IsCurrent(p)} IN
     IF live = {}
       THEN pending' = {} /\ UNCHANGED <<started, phase, job>>
       ELSE \E r \in live :
              /\ \A s \in live \ {r} : Earlier(r, s)
              /\ pending' = live \ {r}
              /\ started' = started \cup {r}
              /\ job' = r
              /\ phase' = "loading"
  /\ UNCHANGED <<latest, completed, stopping, outcome>>

(* The source returns or throws. It throws Cancelled only after one of its *)
(* checks found the loader stopping or the request superseded.             *)
WorkerReturn ==
  /\ phase = "loading"
  /\ \E o \in Outcome :
       /\ o = "cancelled" => stopping \/ ~ IsCurrent(job)
       /\ o = "flat" => job.key = SeedTerrain
       /\ outcome' = o
  /\ phase' = "returned"
  /\ UNCHANGED <<queueVars, started, completed, stopping, job>>

(* A result counts only if its request is still the current one when the   *)
(* worker looks again under the mutex.                                     *)
Delivers == ~ stopping /\ IsCurrent(job)

WorkerPublish ==
  /\ phase = "returned"
  /\ completed' = IF Delivers
                    THEN completed \cup {[request |-> job, outcome |-> outcome]}
                    ELSE completed
  /\ phase' = "deciding"
  /\ job' = NoRequest
  /\ outcome' = "none"
  /\ UNCHANGED <<queueVars, started, stopping>>

Worker ==
  \/ WorkerSleep
  \/ WorkerExit
  \/ WorkerPop
  \/ WorkerReturn
  \/ WorkerPublish

(* notify_one and notify_all: there is one waiter. A notification that     *)
(* finds nobody waiting is lost.                                           *)
Notify == phase' = IF phase = "asleep" THEN "deciding" ELSE phase

=============================================================================
