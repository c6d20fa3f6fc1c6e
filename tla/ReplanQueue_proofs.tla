------------------------- MODULE ReplanQueue_proofs -------------------------
(***************************************************************************)
(* The replan queue for any number of replicas, shifts and messages, any   *)
(* batch size and any number of retries: it implements ReplanRequests.     *)
(*                                                                         *)
(* The argument is about the message that leaves the queue last.  A worker *)
(* that archives a message unhandled leaves the request to the message of  *)
(* the same shift it handled before (Deferred), which is still there, or   *)
(* has been read by somebody else as well; and two workers that have       *)
(* messages of one shift at a time have read the queue twice since the     *)
(* shift was first asked for (TwoHands).                                   *)
(***************************************************************************)
EXTENDS ReplanQueue, FiniteSetTheorems, TLAPS

ReplanPoints == {"load", "solve", "solved"}
RunPoints    == {"build", "insert", "archive", "report"}
Ended        == {"completed", "skipped", "failed"}

Hands(r) == worker[r].batch \cup ({worker[r].msg} \ {0})

Handles(r, s) == worker[r].at \in ReplanPoints /\ Subject(r) = s
Solves(r, s)  == worker[r].at \in {"solve", "solved"} /\ Subject(r) = s

Twice(s) == tries[s] >= 2 \/ tries[s] >= MaxRetries

(* A message of the shift that waits to be read.                           *)
Waiting(s) == \E m \in Queued(s) : \A r \in Replicas : m \notin Hands(r)

-----------------------------------------------------------------------------
(* The inductive invariant.                                                *)


Runs == [status   : {"queued", "running"} \cup Ended,
         packages : {"pending", "locked", "planned"},
         plans    : 0..1]

QueueTyped ==
  /\ queue \in [Ids -> Messages]
  /\ worker \in [Replicas -> Workers]
  /\ held \in [Shifts -> Replicas \cup {Nobody}]
  /\ run \in Runs
  /\ settled \subseteq Ids /\ disturbed \in BOOLEAN
  /\ tries \in [Shifts -> 0..MaxRetries]

(* What a worker has in hand was sent and read; the message it handles is  *)
(* of the kind its point of work is for, and it has the shift's lock.      *)
InHandOf(r) ==
  /\ \A m \in Hands(r) : queue[m].at # "unsent" /\ queue[m].reads >= 1
  /\ \A m \in worker[r].answers :
       /\ queue[m].at # "unsent"
       /\ worker[r].at \in {"solve", "solved"} => queue[m].subject = Subject(r)
  /\ worker[r].msg \notin worker[r].batch
  /\ worker[r].at \in {"idle", "read"} => worker[r].batch = {} /\ worker[r].seen = {}
  /\ worker[r].at \in {"idle", "read", "batch"} => worker[r].msg = 0
  /\ worker[r].at \in ReplanPoints =>
       worker[r].msg # 0 /\ Subject(r) \in Shifts /\ held[Subject(r)] = r
  /\ worker[r].at \in RunPoints => worker[r].msg # 0 /\ Subject(r) = OnDemand
  /\ worker[r].at \in {"archive", "report"} => worker[r].outcome \in Ended

InHand == \A r \in Replicas : InHandOf(r)

Settlement == \A m \in settled : queue[m].at # "unsent"

Counted ==
  \A s \in Shifts : /\ Queued(s) = {} => tries[s] = 0
                    /\ \A m \in Queued(s) : queue[m].reads <= tries[s]

(* Two workers have messages of a shift, or one of them has a message that *)
(* another took off the queue.                                             *)
TwoHands ==
  \A s \in Shifts, r \in Replicas : \A m \in Hands(r) \cap Queued(s) :
    /\ \A x \in Replicas \ {r} : Hands(x) \cap Queued(s) # {} => Twice(s)
    /\ (Hands(r) \cap Requested(s)) \ Queued(s) # {} => Twice(s)

(* While a shift is solved, what was asked for after the solver's reading  *)
(* stays on the queue or is dropped with a skip, unless another worker has *)
(* read the shift's messages too, or the solver's own is off the queue.    *)
Answering ==
  \A s \in Shifts, r \in Replicas : Solves(r, s) =>
    /\ \/ Requested(s) \ (worker[r].answers \cup settled) \subseteq Queued(s)
       \/ Twice(s)
       \/ worker[r].msg \notin Queued(s)
    /\ Hands(r) \cap Requested(s) \subseteq worker[r].answers
    /\ worker[r].at = "solved" => worker[r].answers \subseteq settled

(* What a worker will archive unhandled was left to another message.       *)
Deferred ==
  \A s \in Shifts, r \in Replicas :
    /\ s \in worker[r].seen
    /\ worker[r].batch \cap Queued(s) # {}
    /\ ~(Requested(s) \subseteq settled)
    => Twice(s) \/ Handles(r, s) \/ Waiting(s)

(* The packages of the leftover run are locked by the one transaction that *)
(* may plan them.                                                          *)
OneTransaction ==
  /\ run.plans = 1 <=> run.packages = "planned"
  /\ \A r \in Replicas : worker[r].at = "insert" =>
       run.packages = "locked" /\ \A x \in Replicas \ {r} : worker[x].at # "insert"

(* One message names the leftover run.                                     *)
OneLeftover ==
  /\ \A m, k \in Ids : queue[m].subject = OnDemand /\ queue[k].subject = OnDemand => m = k
  /\ \A m \in Ids : queue[m].subject = OnDemand => queue[m].at # "unsent"
  /\ run.status # "queued" => \E m \in Ids : queue[m].subject = OnDemand

(* Undisturbed, the leftover message is in one worker's hands at a time.   *)
OneHandler ==
  ~disturbed =>
    \A m \in Ids : queue[m].subject = OnDemand =>
      /\ \A r \in Replicas : m \in Hands(r) =>
           /\ queue[m].at # "visible"
           /\ worker[r].msg # m => queue[m].at = "hidden"
           /\ \A x \in Replicas \ {r} : m \notin Hands(x)
           /\ worker[r].msg = m => worker[r].at \in RunPoints
      /\ (\A r \in Replicas : worker[r].msg # m) =>
           \/ run.status = "queued" /\ run.packages = "pending"
           \/ queue[m].at = "gone" /\ run.status \in Ended
              /\ (run.status = "completed" <=> run.packages = "planned")
      /\ \A r \in Replicas : worker[r].msg = m =>
           /\ run.status = "running"
           /\ worker[r].at = "build" => run.packages = "pending"
           /\ worker[r].at = "report" => queue[m].at = "gone"
           /\ worker[r].at \in {"archive", "report"} =>
                (worker[r].outcome = "completed" <=> run.packages = "planned")

-----------------------------------------------------------------------------
(* Messages.                                                               *)

LEMMA NothingSent == Unsent \in Messages /\ \A s \in Subjects : Sent(s) \in Messages
BY QueueAssumption DEF Unsent, Sent, Messages, Subjects

(* A message keeps what it says, and stays sent.                           *)
Kept == \A m \in Ids : /\ queue'[m].subject = queue[m].subject
                       /\ queue'[m].reads = queue[m].reads
                       /\ queue[m].at = "unsent" <=> queue'[m].at = "unsent"

LEMMA SameQueue ==
  ASSUME UNCHANGED queue
  PROVE  /\ Kept
         /\ \A s \in Shifts : Requested(s)' = Requested(s) /\ Queued(s)' = Queued(s)
BY DEF Kept, Requested, Queued, Live

LEMMA ArchivedQueue ==
  ASSUME queue \in [Ids -> Messages], NEW m \in Ids, queue[m].at # "unsent",
         queue' = Archived(m)
  PROVE  /\ queue' \in [Ids -> Messages] /\ Kept
         /\ queue'[m].at = "gone"
         /\ \A k \in Ids \ {m} : queue'[k] = queue[k]
         /\ \A s \in Shifts : Requested(s)' = Requested(s) /\ Queued(s)' = Queued(s) \ {m}
<1>1. queue' = [queue EXCEPT ![m] = [queue[m] EXCEPT !.at = "gone"]]
  BY DEF Archived, Messages
<1>2. /\ [queue[m] EXCEPT !.at = "gone"] \in Messages
      /\ [queue[m] EXCEPT !.at = "gone"].at = "gone"
      /\ [queue[m] EXCEPT !.at = "gone"].subject = queue[m].subject
      /\ [queue[m] EXCEPT !.at = "gone"].reads = queue[m].reads
  BY DEF Messages
<1>3. /\ queue' \in [Ids -> Messages] /\ queue'[m].at = "gone"
      /\ queue'[m].subject = queue[m].subject /\ queue'[m].reads = queue[m].reads
      /\ \A k \in Ids \ {m} : queue'[k] = queue[k]
  BY <1>1, <1>2
<1>4. Kept
  BY <1>3 DEF Kept
<1>5. ASSUME NEW s \in Shifts
      PROVE  Requested(s)' = Requested(s) /\ Queued(s)' = Queued(s) \ {m}
  BY <1>3, <1>4 DEF Kept, Requested, Queued, Live
<1> QED BY <1>3, <1>4, <1>5

(* Only what concerns a shift concerns the shifts.                         *)
LEMMA ArchivedOther ==
  ASSUME queue \in [Ids -> Messages], NEW m \in Ids, queue[m].at # "unsent",
         queue' = Archived(m), queue[m].subject \notin Shifts
  PROVE  \A s \in Shifts : Requested(s)' = Requested(s) /\ Queued(s)' = Queued(s)
<1>1. \A s \in Shifts : Requested(s)' = Requested(s) /\ Queued(s)' = Queued(s) \ {m}
  BY ArchivedQueue
<1>2. \A s \in Shifts : m \notin Queued(s)
  BY DEF Queued, Requested
<1> QED BY <1>1, <1>2

LEMMA RecountKeeps ==
  ASSUME QueueTyped, Counted, Recount
  PROVE  /\ tries' \in [Shifts -> 0..MaxRetries]
         /\ \A s \in Shifts : tries'[s] = IF Queued(s)' = {} THEN 0 ELSE tries[s]
BY QueueAssumption DEF QueueTyped, Recount

-----------------------------------------------------------------------------
(* Workers.                                                                *)

LEMMA WorkerMoves ==
  ASSUME QueueTyped, NEW r \in Replicas, NEW w \in Workers, worker' = [worker EXCEPT ![r] = w]
  PROVE  /\ worker' \in [Replicas -> Workers] /\ worker'[r] = w
         /\ \A x \in Replicas \ {r} : worker'[x] = worker[x]
         /\ Hands(r)' = w.batch \cup ({w.msg} \ {0})
         /\ \A x \in Replicas \ {r} : Hands(x)' = Hands(x)
BY DEF QueueTyped, Hands

LEMMA ZeroIsNoId == 0 \notin Ids
BY DEF Ids

LEMMA HandsTyped ==
  ASSUME QueueTyped, NEW r \in Replicas
  PROVE  /\ worker[r] \in Workers /\ Hands(r) \subseteq Ids
         /\ worker[r].msg # 0 => worker[r].msg \in Ids /\ worker[r].msg \in Hands(r)
         /\ worker[r].batch \subseteq Hands(r)
BY DEF QueueTyped, Workers, Hands

(* The others are where they were.                                         *)
LEMMA OthersInHand ==
  ASSUME QueueTyped, InHand, NEW r \in Replicas,
         \A x \in Replicas \ {r} : worker'[x] = worker[x],
         \A m \in Ids : queue[m].at # "unsent" =>
           /\ queue'[m].at # "unsent" /\ queue'[m].subject = queue[m].subject
           /\ queue'[m].reads \in Nat /\ queue'[m].reads >= queue[m].reads,
         \A s \in Shifts, x \in Replicas \ {r} : held[s] = x => held'[s] = x,
         InHandOf(r)'
  PROVE  InHand'
<1>1. ASSUME NEW x \in Replicas \ {r}
      PROVE  InHandOf(x)'
  <2>1. /\ InHandOf(x) /\ Hands(x) \subseteq Ids /\ Hands(x)' = Hands(x)
        /\ worker'[x] = worker[x]
        /\ worker[x].msg # 0 => worker[x].msg \in Ids /\ worker[x].msg \in Hands(x)
    BY HandsTyped DEF InHand, Hands
  <2>2. worker[x].msg # 0 => Subject(x)' = Subject(x)
    BY <2>1 DEF InHandOf, Subject
  <2>3. \A m \in Ids : queue[m].reads \in Nat
    BY DEF QueueTyped, Messages
  <2>4. \A m \in Hands(x) : queue'[m].at # "unsent" /\ queue'[m].reads >= 1
    BY <2>1, <2>3 DEF InHandOf
  <2>5. \A m \in worker[x].answers :
          /\ queue'[m].at # "unsent"
          /\ worker[x].at \in {"solve", "solved"} => queue'[m].subject = Subject(x)'
    <3>1. /\ worker[x].answers \subseteq Ids
          /\ worker[x].at \in {"solve", "solved"} => worker[x].msg # 0
      BY HandsTyped, <2>1 DEF InHandOf, Workers, ReplanPoints
    <3> QED BY <2>1, <2>2, <3>1 DEF InHandOf
  <2> QED BY <2>1, <2>2, <2>4, <2>5 DEF InHandOf
<1> QED BY <1>1 DEF InHand

Standing == QueueTyped /\ InHand /\ Settlement

(* One worker moves on, and at most one message goes.                      *)
LEMMA StandingStep ==
  ASSUME Standing, NEW r \in Replicas, NEW w \in Workers, worker' = [worker EXCEPT ![r] = w],
         queue' \in [Ids -> Messages], Kept,
         held' \in [Shifts -> Replicas \cup {Nobody}],
         \A s \in Shifts, x \in Replicas \ {r} : held[s] = x => held'[s] = x,
         settled' \subseteq Ids, \A m \in settled' : m \in settled \/ queue[m].at # "unsent",
         run' \in Runs, tries' \in [Shifts -> 0..MaxRetries], disturbed' \in BOOLEAN,
         \A m \in w.batch \cup ({w.msg} \ {0}) : m \in Hands(r),
         \A m \in w.answers : queue[m].at # "unsent",
         w.at \in {"solve", "solved"} =>
           \A m \in w.answers : queue[m].subject = queue[w.msg].subject,
         w.msg \notin w.batch,
         w.at \in {"idle", "read"} => w.batch = {} /\ w.seen = {},
         w.at \in {"idle", "read", "batch"} => w.msg = 0,
         w.at \in ReplanPoints => /\ w.msg # 0 /\ queue[w.msg].subject \in Shifts
                                  /\ held'[queue[w.msg].subject] = r,
         w.at \in RunPoints => w.msg # 0 /\ queue[w.msg].subject = OnDemand,
         w.at \in {"archive", "report"} => w.outcome \in Ended
  PROVE  Standing'
<1>1. QueueTyped /\ InHand /\ Settlement
  BY DEF Standing
<1>2. /\ worker' \in [Replicas -> Workers] /\ worker'[r] = w
      /\ \A x \in Replicas \ {r} : worker'[x] = worker[x]
      /\ Hands(r)' = w.batch \cup ({w.msg} \ {0})
      /\ \A x \in Replicas \ {r} : Hands(x)' = Hands(x)
  BY <1>1, WorkerMoves
<1>3. QueueTyped'
  BY <1>2 DEF QueueTyped
<1>4. \A m \in Ids : /\ queue[m].reads \in Nat
                     /\ queue[m].at # "unsent" =>
                          /\ queue'[m].at # "unsent" /\ queue'[m].subject = queue[m].subject
                          /\ queue'[m].reads \in Nat /\ queue'[m].reads >= queue[m].reads
  BY <1>1 DEF Kept, QueueTyped, Messages
<1>5. InHandOf(r)'
  <2>1. Hands(r) \subseteq Ids /\ InHandOf(r)
    BY <1>1, HandsTyped DEF InHand
  <2>2. \A m \in Hands(r)' : queue'[m].at # "unsent" /\ queue'[m].reads >= 1
    BY <1>2, <1>4, <2>1 DEF InHandOf, Kept
  <2>3. w.msg # 0 => w.msg \in Ids /\ Subject(r)' = queue[w.msg].subject
    BY <1>2 DEF Kept, Subject, Workers
  <2>4. \A m \in w.answers :
          /\ queue'[m].at # "unsent"
          /\ w.at \in {"solve", "solved"} => queue'[m].subject = Subject(r)'
    BY <1>2, <2>3 DEF Kept, Workers, ReplanPoints
  <2> QED BY <1>2, <2>2, <2>3, <2>4 DEF InHandOf, ReplanPoints, RunPoints
<1>6. InHand'
  BY <1>1, <1>2, <1>4, <1>5, OthersInHand
<1>7. Settlement'
  BY <1>1, <1>3 DEF Settlement, Kept, QueueTyped
<1> QED BY <1>3, <1>6, <1>7 DEF Standing

-----------------------------------------------------------------------------
(* Steps that take no shift's message off the queue and add none.          *)

Promises == Counted /\ TwoHands /\ Answering /\ Deferred

SameRequests == \A s \in Shifts : /\ Requested(s)' = Requested(s) /\ Queued(s)' = Queued(s)
                                  /\ \A m \in Queued(s) : queue'[m].reads = queue[m].reads

(* A worker that takes up nothing, starts no solve and forgets none.       *)
Steady(x) ==
  /\ Hands(x)' \subseteq Hands(x)
  /\ worker'[x].batch \subseteq worker[x].batch
  /\ \A s \in Shifts :
       /\ s \in worker'[x].seen /\ worker'[x].batch \cap Queued(s) # {} =>
            s \in worker[x].seen \/ Handles(x, s)' \/ Twice(s) \/ Waiting(s)'
       /\ Handles(x, s) /\ worker'[x].batch \cap Queued(s) # {} =>
            Handles(x, s)' \/ Twice(s) \/ Waiting(s)'
       /\ Solves(x, s)' =>
            /\ Solves(x, s) /\ worker'[x].answers = worker[x].answers
            /\ worker'[x].msg = worker[x].msg
            /\ worker'[x].at = "solved" =>
                 worker[x].at = "solved" \/ worker[x].answers \subseteq settled'

LEMMA QuietStep ==
  ASSUME Promises, SameRequests, \A x \in Replicas : Steady(x),
         UNCHANGED tries, settled \subseteq settled'
  PROVE  Promises'
<1>1. Counted'
  BY DEF Promises, Counted, SameRequests
<1>2. TwoHands'
  <2>1. ASSUME NEW s \in Shifts, NEW r \in Replicas, NEW m \in Hands(r)' \cap Queued(s)'
        PROVE  /\ \A x \in Replicas \ {r} : Hands(x)' \cap Queued(s)' # {} => Twice(s)'
               /\ (Hands(r)' \cap Requested(s)') \ Queued(s)' # {} => Twice(s)'
    <3>1. m \in Hands(r) \cap Queued(s)
      BY <2>1 DEF Steady, SameRequests
    <3>2. /\ \A x \in Replicas \ {r} : Hands(x) \cap Queued(s) # {} => Twice(s)
          /\ (Hands(r) \cap Requested(s)) \ Queued(s) # {} => Twice(s)
      BY <3>1 DEF Promises, TwoHands
    <3>3. Twice(s)' <=> Twice(s)
      BY DEF Twice
    <3>4. \A x \in Replicas : Hands(x)' \subseteq Hands(x)
      BY DEF Steady
    <3>5. Requested(s)' = Requested(s) /\ Queued(s)' = Queued(s)
      BY DEF SameRequests
    <3> QED BY <3>2, <3>3, <3>4, <3>5
  <2> QED BY <2>1 DEF TwoHands
<1>3. Answering'
  <2>1. ASSUME NEW s \in Shifts, NEW r \in Replicas, Solves(r, s)'
        PROVE  /\ \/ Requested(s)' \ (worker'[r].answers \cup settled') \subseteq Queued(s)'
                  \/ Twice(s)'
                  \/ worker'[r].msg \notin Queued(s)'
               /\ Hands(r)' \cap Requested(s)' \subseteq worker'[r].answers
               /\ worker'[r].at = "solved" => worker'[r].answers \subseteq settled'
    <3>1. /\ Solves(r, s) /\ worker'[r].answers = worker[r].answers
          /\ worker'[r].msg = worker[r].msg
          /\ worker'[r].at = "solved" =>
               worker[r].at = "solved" \/ worker[r].answers \subseteq settled'
          /\ Hands(r)' \subseteq Hands(r)
      BY <2>1 DEF Steady
    <3>2. /\ \/ Requested(s) \ (worker[r].answers \cup settled) \subseteq Queued(s)
             \/ Twice(s)
             \/ worker[r].msg \notin Queued(s)
          /\ Hands(r) \cap Requested(s) \subseteq worker[r].answers
          /\ worker[r].at = "solved" => worker[r].answers \subseteq settled
      BY <3>1 DEF Promises, Answering
    <3>3. Twice(s)' <=> Twice(s)
      BY DEF Twice
    <3>4. Requested(s)' = Requested(s) /\ Queued(s)' = Queued(s)
      BY DEF SameRequests
    <3> QED BY <3>1, <3>2, <3>3, <3>4
  <2> QED BY <2>1 DEF Answering
<1>4. Deferred'
  <2>1. ASSUME NEW s \in Shifts, NEW r \in Replicas, s \in worker'[r].seen,
               worker'[r].batch \cap Queued(s)' # {}, ~(Requested(s)' \subseteq settled')
        PROVE  Twice(s)' \/ Handles(r, s)' \/ Waiting(s)'
    <3>1. /\ Steady(r) /\ worker'[r].batch \cap Queued(s) # {}
          /\ worker[r].batch \cap Queued(s) # {}
          /\ ~(Requested(s) \subseteq settled)
      BY <2>1 DEF Steady, SameRequests
    <3>2. CASE Handles(r, s)' \/ Twice(s) \/ Waiting(s)'
      BY <3>2 DEF Twice
    <3>3. CASE s \in worker[r].seen
      <4>1. Twice(s) \/ Handles(r, s) \/ Waiting(s)
        BY <3>1, <3>3 DEF Promises, Deferred
      <4>2. Twice(s) => Twice(s)'
        BY DEF Twice
      <4>3. Handles(r, s) => Handles(r, s)' \/ Twice(s) \/ Waiting(s)'
        BY <2>1, <3>1 DEF Steady, SameRequests
      <4>4. Waiting(s) => Waiting(s)'
        BY DEF Waiting, SameRequests, Steady
      <4> QED BY <4>1, <4>2, <4>3, <4>4
    <3> QED BY <2>1, <3>1, <3>2, <3>3 DEF Steady
  <2> QED BY <2>1 DEF Deferred
<1> QED BY <1>1, <1>2, <1>3, <1>4 DEF Promises

(* A worker that is where it was.                                          *)
LEMMA SteadyOther ==
  ASSUME QueueTyped, InHand, Promises, NEW x \in Replicas, worker'[x] = worker[x],
         \A m \in Ids : queue[m].at # "unsent" => queue'[m].subject = queue[m].subject,
         settled \subseteq settled'
  PROVE  Steady(x) /\ \A s \in Shifts : /\ Handles(x, s)' <=> Handles(x, s)
                                        /\ Solves(x, s)' <=> Solves(x, s)
<1>1. Hands(x)' = Hands(x)
  BY DEF Hands
<1>2. ASSUME NEW s \in Shifts
      PROVE  /\ Handles(x, s)' <=> Handles(x, s)
             /\ Solves(x, s)' <=> Solves(x, s)
  <2>1. worker[x].at \in ReplanPoints =>
          worker[x].msg \in Ids /\ queue[worker[x].msg].at # "unsent"
    BY HandsTyped DEF InHand, InHandOf
  <2>2. worker[x].at \in ReplanPoints => Subject(x)' = Subject(x)
    BY <2>1 DEF Subject
  <2> QED BY <2>2 DEF Handles, Solves, ReplanPoints
<1>3. ASSUME NEW s \in Shifts, Solves(x, s), worker[x].at = "solved"
      PROVE  worker[x].answers \subseteq settled'
  BY <1>3 DEF Promises, Answering
<1> QED BY <1>1, <1>2, <1>3 DEF Steady

-----------------------------------------------------------------------------
(* Steps that are none of the leftover run's.                              *)

RunStands == OneTransaction /\ OneLeftover /\ OneHandler

Aside(x) ==
  /\ worker'[x].at = "insert" <=> worker[x].at = "insert"
  /\ \A m \in Ids : queue[m].subject = OnDemand =>
       /\ m \in Hands(x)' => m \in Hands(x)
       /\ worker'[x].msg = m <=> worker[x].msg = m
       /\ worker[x].msg = m =>
            worker'[x].at = worker[x].at /\ worker'[x].outcome = worker[x].outcome

LEMMA RunUntouched ==
  ASSUME RunStands, UNCHANGED run, disturbed => disturbed',
         \A m \in Ids : /\ queue'[m].subject = OnDemand <=> queue[m].subject = OnDemand
                        /\ queue[m].subject = OnDemand =>
                             \/ queue'[m].at = queue[m].at
                             \/ /\ queue'[m].at = "gone"
                                /\ ~disturbed' => \A x \in Replicas : m \notin Hands(x)',
         \A x \in Replicas : Aside(x)
  PROVE  RunStands'
<1>1. OneTransaction' /\ OneLeftover'
  BY DEF RunStands, OneTransaction, OneLeftover, Aside
<1>2. OneHandler'
  BY DEF RunStands, OneHandler, Aside
<1> QED BY <1>1, <1>2 DEF RunStands

LEMMA AsideOther ==
  ASSUME NEW x \in Replicas, worker'[x] = worker[x]
  PROVE  Aside(x)
BY DEF Aside, Hands

QueueIInv == Standing /\ Promises /\ RunStands

(* One worker moves, and nothing changes for the shifts.                   *)
LEMMA QuietMove ==
  ASSUME QueueIInv, NEW r \in Replicas, \A x \in Replicas \ {r} : worker'[x] = worker[x],
         SameRequests, Kept, UNCHANGED tries, settled \subseteq settled', Steady(r)
  PROVE  Promises'
<1>1. QueueTyped /\ InHand /\ Promises
  BY DEF QueueIInv, Standing
<1>2. \A x \in Replicas \ {r} : Steady(x)
  BY <1>1, SteadyOther DEF Kept
<1> QED BY <1>1, <1>2, QuietStep

(* One worker moves, and nothing changes for the leftover run.             *)
LEMMA AsideMove ==
  ASSUME QueueIInv, NEW r \in Replicas, \A x \in Replicas \ {r} : worker'[x] = worker[x],
         UNCHANGED run, disturbed => disturbed', Kept,
         \A m \in Ids : queue[m].subject = OnDemand => queue'[m].at = queue[m].at,
         Aside(r)
  PROVE  RunStands'
<1>1. \A x \in Replicas \ {r} : Aside(x)
  BY AsideOther
<1> QED BY <1>1, RunUntouched DEF QueueIInv, Kept

LEMMA HoldsOf ==
  ASSUME QueueIInv, NEW r \in Replicas
  PROVE  /\ Standing /\ QueueTyped /\ InHand /\ Settlement /\ Promises /\ RunStands
         /\ Counted /\ TwoHands /\ Answering /\ Deferred
         /\ OneTransaction /\ OneLeftover /\ OneHandler
         /\ worker[r] \in Workers /\ InHandOf(r) /\ Hands(r) \subseteq Ids
BY HandsTyped DEF QueueIInv, Standing, Promises, RunStands, InHand, QueueTyped

LEMMA DrainHolds ==
  ASSUME QueueIInv, NEW r \in Replicas, Drain(r)
  PROVE  QueueIInv'
<1> DEFINE w == [worker[r] EXCEPT !.at = "read"]
<1>1. /\ QueueTyped /\ Standing /\ worker[r] \in Workers /\ InHandOf(r)
      /\ UNCHANGED <<queue, held, run, settled, tries, disturbed>>
      /\ worker[r].at = "idle"
  BY HoldsOf DEF Drain, histVars
<1>2. worker' = [worker EXCEPT ![r] = w]
  BY <1>1 DEF Drain, QueueTyped, Workers
<1>3. /\ w \in Workers /\ w.at = "read" /\ w.batch = worker[r].batch /\ w.seen = worker[r].seen
      /\ w.msg = worker[r].msg /\ w.answers = worker[r].answers /\ w.outcome = worker[r].outcome
  BY <1>1 DEF Workers
<1>4. w.batch = {} /\ w.seen = {} /\ w.msg = 0
  BY <1>1, <1>3 DEF InHandOf
<1> HIDE DEF w
<1>5. Standing' /\ Kept
  BY <1>1, <1>2, <1>3, <1>4, SameQueue, StandingStep
     DEF Standing, QueueTyped, ReplanPoints, RunPoints, InHandOf
<1>6. /\ worker'[r] = w /\ Hands(r)' = {}
      /\ \A x \in Replicas \ {r} : worker'[x] = worker[x]
  BY <1>1, <1>2, <1>3, <1>4, WorkerMoves
<1>7. Steady(r)
  BY <1>3, <1>4, <1>6 DEF Steady, Solves
<1>8. SameRequests
  BY <1>1, SameQueue DEF SameRequests
<1>9. Aside(r)
  BY <1>1, <1>3, <1>4, <1>6, ZeroIsNoId DEF Aside, Hands
<1> QED BY <1>1, <1>5, <1>6, <1>7, <1>8, <1>9, QuietMove, AsideMove DEF QueueIInv

LEMMA ReadNothingHolds ==
  ASSUME QueueIInv, NEW r \in Replicas, ReadNothing(r)
  PROVE  QueueIInv'
<1>1. /\ QueueTyped /\ Standing /\ worker[r] \in Workers /\ InHandOf(r)
      /\ UNCHANGED <<queue, held, run, settled, tries, disturbed>>
      /\ worker[r].at \in {"read", "batch"} /\ worker[r].batch = {} /\ worker[r].msg = 0
  BY HoldsOf DEF ReadNothing, histVars, InHandOf
<1>2. PICK next \in {"read", "idle"} :
        worker' = [worker EXCEPT ![r] = [NoDrain EXCEPT !.at = next]]
  BY DEF ReadNothing, EndPass
<1> DEFINE w == [NoDrain EXCEPT !.at = next]
<1>3. /\ w \in Workers /\ w.at = next /\ w.batch = {} /\ w.seen = {}
      /\ w.msg = 0 /\ w.answers = {} /\ w.outcome = "none"
  BY <1>1 DEF Workers, NoDrain
<1>4. worker' = [worker EXCEPT ![r] = w]
  BY <1>2
<1> HIDE DEF w
<1>5. Standing' /\ Kept
  BY <1>1, <1>3, <1>4, SameQueue, StandingStep
     DEF Standing, QueueTyped, ReplanPoints, RunPoints
<1>6. /\ worker'[r] = w /\ Hands(r)' = {} /\ Hands(r) = {}
      /\ \A x \in Replicas \ {r} : worker'[x] = worker[x]
  BY <1>1, <1>3, <1>4, WorkerMoves DEF Hands
<1>7. Steady(r)
  BY <1>3, <1>6 DEF Steady, Solves
<1>8. SameRequests
  BY <1>1, SameQueue DEF SameRequests
<1>9. Aside(r)
  BY <1>1, <1>3, <1>6, ZeroIsNoId DEF Aside
<1> QED BY <1>1, <1>5, <1>6, <1>7, <1>8, <1>9, QuietMove, AsideMove DEF QueueIInv

LEMMA TryLockHolds ==
  ASSUME QueueIInv, NEW r \in Replicas, NEW m \in Ids, TryLock(r, m)
  PROVE  QueueIInv'
<1> DEFINE s0 == queue[m].subject
           w == [Begun(r, m) EXCEPT !.at = "load", !.msg = m]
<1>1. /\ QueueTyped /\ Standing /\ worker[r] \in Workers /\ InHand /\ InHandOf(r) /\ Promises
      /\ UNCHANGED <<queue, run, settled, tries, disturbed>>
      /\ worker[r].at = "batch" /\ m \in worker[r].batch /\ worker[r].msg = 0
      /\ s0 \in Shifts /\ s0 # OnDemand /\ held[s0] \in {Nobody, r}
      /\ held' = [held EXCEPT ![s0] = r]
      /\ worker' = [worker EXCEPT ![r] = w]
  BY HoldsOf, QueueAssumption DEF TryLock, Unhandled, histVars, InHandOf
<1>2. /\ w \in Workers /\ w.at = "load" /\ w.batch = worker[r].batch \ {m}
      /\ w.seen = worker[r].seen \cup {s0}
      /\ w.msg = m /\ w.answers = worker[r].answers /\ w.outcome = worker[r].outcome
  BY <1>1 DEF Workers, Begun
<1> HIDE DEF w
<1>3. /\ held' \in [Shifts -> Replicas \cup {Nobody}] /\ held'[s0] = r
      /\ \A s \in Shifts, x \in Replicas \ {r} : held[s] = x => held'[s] = x
  BY <1>1, QueueAssumption DEF QueueTyped
<1>4. w.batch \cup ({w.msg} \ {0}) = Hands(r) /\ m # 0
  BY <1>1, <1>2, ZeroIsNoId DEF Hands
<1>5. Standing' /\ Kept
  <2>1. Kept
    BY <1>1, SameQueue
  <2>2. /\ queue' \in [Ids -> Messages] /\ settled' \subseteq Ids /\ run' \in Runs
        /\ tries' \in [Shifts -> 0..MaxRetries] /\ disturbed' \in BOOLEAN
        /\ \A k \in settled' : k \in settled
    BY <1>1 DEF QueueTyped
  <2>3. /\ \A k \in w.answers : queue[k].at # "unsent"
        /\ w.msg \notin w.batch /\ w.at = "load" /\ w.msg # 0
        /\ queue[w.msg].subject = s0
    BY <1>1, <1>2, <1>4 DEF InHandOf
  <2> HIDE DEF s0
  <2> QED BY <1>1, <1>2, <1>3, <1>4, <2>1, <2>2, <2>3, StandingStep DEF ReplanPoints, RunPoints
<1>6. /\ worker'[r] = w /\ Hands(r)' = Hands(r)
      /\ \A x \in Replicas \ {r} : worker'[x] = worker[x]
  BY <1>1, <1>2, <1>4, WorkerMoves
<1>7. Steady(r)
  <2>1. Handles(r, s0)'
    BY <1>1, <1>2, <1>6 DEF Handles, Subject, ReplanPoints
  <2>2. ASSUME NEW y \in Replicas PROVE ~Solves(y, s0)'
    <3>1. CASE y = r
      BY <3>1, <1>2, <1>6 DEF Solves
    <3>2. CASE y # r
      <4>1. Solves(y, s0)' <=> Solves(y, s0)
        BY <3>2, <1>1, <1>6, SteadyOther
      <4>2. Solves(y, s0) => held[s0] = y
        BY <1>1 DEF InHand, InHandOf, Solves, ReplanPoints
      <4> QED BY <4>1, <4>2, <3>2, <1>1, QueueAssumption
    <3> QED BY <3>1, <3>2
  <2> QED BY <1>1, <1>2, <1>6, <2>1, <2>2 DEF Steady, Handles, ReplanPoints, Solves
<1>8. SameRequests
  BY <1>1, SameQueue DEF SameRequests
<1>9. Aside(r)
  BY <1>1, <1>2, <1>6, ZeroIsNoId DEF Aside
<1> QED BY <1>1, <1>5, <1>6, <1>7, <1>8, <1>9, QuietMove, AsideMove DEF QueueIInv

LEMMA AnswerHolds ==
  ASSUME QueueIInv, NEW r \in Replicas, Answer(r)
  PROVE  QueueIInv'
<1> DEFINE w == [worker[r] EXCEPT !.at = "solved"]
<1>1. /\ QueueTyped /\ Standing /\ worker[r] \in Workers /\ InHandOf(r) /\ Counted
      /\ UNCHANGED <<queue, held, run, disturbed>> /\ Recount
      /\ worker[r].at = "solve" /\ worker[r].msg # 0
      /\ settled' = settled \cup worker[r].answers
      /\ worker' = [worker EXCEPT ![r] = w]
  BY HoldsOf DEF Answer, InHandOf, ReplanPoints
<1>2. /\ w \in Workers /\ w.at = "solved" /\ w.batch = worker[r].batch
      /\ w.seen = worker[r].seen
      /\ w.msg = worker[r].msg /\ w.answers = worker[r].answers /\ w.outcome = worker[r].outcome
  BY <1>1 DEF Workers
<1> HIDE DEF w
<1>3. Kept /\ SameRequests
  BY <1>1, SameQueue DEF SameRequests
<1>4. UNCHANGED tries
  <2>1. /\ tries' \in [Shifts -> 0..MaxRetries]
        /\ \A s \in Shifts : tries'[s] = IF Queued(s)' = {} THEN 0 ELSE tries[s]
    BY <1>1, RecountKeeps
  <2>2. \A s \in Shifts : tries'[s] = tries[s]
    BY <1>1, <1>3, <2>1 DEF SameRequests, Counted
  <2> QED BY <1>1, <2>1, <2>2 DEF QueueTyped
<1>5. Standing'
  <2>1. /\ queue' \in [Ids -> Messages] /\ settled' \subseteq Ids /\ run' \in Runs
        /\ held' \in [Shifts -> Replicas \cup {Nobody}]
        /\ tries' \in [Shifts -> 0..MaxRetries] /\ disturbed' \in BOOLEAN
    BY <1>1, <1>4 DEF QueueTyped, Workers
  <2>2. \A k \in settled' : k \in settled \/ queue[k].at # "unsent"
    BY <1>1 DEF InHandOf
  <2>3. /\ \A k \in w.batch \cup ({w.msg} \ {0}) : k \in Hands(r)
        /\ w.msg \notin w.batch /\ \A k \in w.answers : queue[k].at # "unsent"
        /\ \A k \in w.answers : queue[k].subject = queue[w.msg].subject
        /\ w.msg # 0 /\ queue[w.msg].subject \in Shifts /\ held'[queue[w.msg].subject] = r
    BY <1>1, <1>2 DEF InHandOf, Hands, ReplanPoints, Subject
  <2>4. \A s \in Shifts, x \in Replicas \ {r} : held[s] = x => held'[s] = x
    BY <1>1
  <2> QED BY <1>1, <1>2, <1>3, <2>1, <2>2, <2>3, <2>4, StandingStep DEF ReplanPoints, RunPoints
<1>6. /\ worker'[r] = w /\ Hands(r)' = Hands(r)
      /\ \A x \in Replicas \ {r} : worker'[x] = worker[x]
  BY <1>1, <1>2, WorkerMoves DEF Hands
<1>7. Steady(r)
  <2>1. \A s \in Shifts : Handles(r, s) => Handles(r, s)'
    BY <1>1, <1>2, <1>6 DEF Handles, ReplanPoints, Subject
  <2>2. \A s \in Shifts : Solves(r, s)' => Solves(r, s)
    BY <1>1, <1>2, <1>6 DEF Solves, Subject
  <2> QED BY <1>1, <1>2, <1>6, <2>1, <2>2 DEF Steady
<1>8. Aside(r)
  <2>1. \A m \in Ids : queue[m].subject = OnDemand => worker[r].msg # m
    BY <1>1, QueueAssumption DEF InHandOf, ReplanPoints, Subject
  <2> QED BY <1>1, <1>2, <1>6, <2>1 DEF Aside
<1> QED BY <1>1, <1>3, <1>4, <1>5, <1>6, <1>7, <1>8, QuietMove, AsideMove DEF QueueIInv

LEMMA ArchiveUnknownHolds ==
  ASSUME QueueIInv, NEW r \in Replicas, NEW m \in Ids, ArchiveUnknown(r, m)
  PROVE  QueueIInv'
<1> DEFINE w == [worker[r] EXCEPT !.batch = @ \ {m}]
<1>1. /\ QueueTyped /\ Standing /\ worker[r] \in Workers /\ InHandOf(r)
      /\ UNCHANGED <<held, run, settled, tries, disturbed>>
      /\ worker[r].at = "batch" /\ m \in worker[r].batch /\ worker[r].msg = 0
      /\ queue[m].subject = Nightly /\ queue[m].at # "unsent"
      /\ queue' = Archived(m)
      /\ worker' = [worker EXCEPT ![r] = w]
  BY HoldsOf DEF ArchiveUnknown, histVars, InHandOf, Hands
<1>2. /\ w \in Workers /\ w.at = "batch" /\ w.batch = worker[r].batch \ {m}
      /\ w.seen = worker[r].seen
      /\ w.msg = 0 /\ w.answers = worker[r].answers /\ w.outcome = worker[r].outcome
  BY <1>1 DEF Workers
<1> HIDE DEF w
<1>3. /\ queue' \in [Ids -> Messages] /\ Kept
      /\ \A k \in Ids \ {m} : queue'[k] = queue[k]
      /\ \A s \in Shifts : Requested(s)' = Requested(s) /\ Queued(s)' = Queued(s)
  BY <1>1, ArchivedQueue, ArchivedOther, QueueAssumption DEF QueueTyped
<1>4. SameRequests
  BY <1>3 DEF SameRequests, Kept, Queued, Requested
<1>5. Standing'
  <2>1. /\ settled' \subseteq Ids /\ run' \in Runs
        /\ held' \in [Shifts -> Replicas \cup {Nobody}]
        /\ tries' \in [Shifts -> 0..MaxRetries] /\ disturbed' \in BOOLEAN
        /\ \A k \in settled' : k \in settled
    BY <1>1 DEF QueueTyped
  <2>2. /\ \A k \in w.batch \cup ({w.msg} \ {0}) : k \in Hands(r)
        /\ w.msg \notin w.batch /\ \A k \in w.answers : queue[k].at # "unsent"
    BY <1>1, <1>2 DEF InHandOf, Hands
  <2>3. \A s \in Shifts, x \in Replicas \ {r} : held[s] = x => held'[s] = x
    BY <1>1
  <2> QED BY <1>1, <1>2, <1>3, <2>1, <2>2, <2>3, StandingStep DEF ReplanPoints, RunPoints
<1>6. /\ worker'[r] = w /\ Hands(r)' = Hands(r) \ {m}
      /\ \A x \in Replicas \ {r} : worker'[x] = worker[x]
  BY <1>1, <1>2, WorkerMoves, ZeroIsNoId DEF Hands
<1>7. Steady(r)
  BY <1>1, <1>2, <1>6 DEF Steady, Handles, Solves, ReplanPoints
<1>8. Aside(r)
  BY <1>1, <1>2, <1>6, ZeroIsNoId, QueueAssumption DEF Aside
<1> QED BY <1>1, <1>3, <1>4, <1>5, <1>6, <1>7, <1>8, QuietMove, AsideMove, QueueAssumption
        DEF QueueIInv

LEMMA CloseIdleHolds ==
  ASSUME QueueIInv, NEW s0 \in Shifts, CloseIdle(s0)
  PROVE  QueueIInv'
<1>0. PICK r \in Replicas : held[s0] = r
  BY DEF CloseIdle, QueueIInv, Standing, QueueTyped
<1>1. /\ held' = [held EXCEPT ![s0] = Nobody]
      /\ UNCHANGED <<queue, worker, run, settled, tries, disturbed>>
      /\ ~(worker[r].msg # 0 /\ Subject(r) = s0)
      /\ held \in [Shifts -> Replicas \cup {Nobody}]
  BY <1>0 DEF CloseIdle, histVars, QueueIInv, Standing, QueueTyped
<1>2. /\ QueueTyped /\ Standing /\ InHand /\ InHandOf(r) /\ Settlement /\ Promises /\ RunStands
      /\ worker[r] \in Workers
  BY <1>1, HoldsOf
<1>3. Kept /\ SameRequests
  BY <1>1, SameQueue DEF SameRequests
<1>4. Standing'
  <2>1. /\ held' \in [Shifts -> Replicas \cup {Nobody}]
        /\ \A s \in Shifts, x \in Replicas \ {r} : held[s] = x => held'[s] = x
    BY <1>0, <1>1, QueueAssumption
  <2>2. InHandOf(r)'
    <3>1. worker[r].at \in ReplanPoints => held'[Subject(r)] = r
      BY <1>1, <1>2 DEF InHandOf
    <3>2. Subject(r)' = Subject(r) /\ Hands(r)' = Hands(r)
      BY <1>1 DEF Subject, Hands
    <3> QED BY <1>1, <1>2, <3>1, <3>2 DEF InHandOf
  <2>3. QueueTyped'
    BY <1>1, <1>2, <2>1 DEF QueueTyped
  <2>4. InHand'
    <3>1. \A m \in Ids : queue[m].reads \in Nat
      BY <1>2 DEF QueueTyped, Messages
    <3> QED BY <1>1, <1>2, <2>1, <2>2, <3>1, OthersInHand
  <2> QED BY <1>1, <1>2, <2>3, <2>4 DEF Standing, Settlement
<1>5. \A x \in Replicas : Steady(x)
  BY <1>1, <1>2, SteadyOther
<1>6. \A x \in Replicas : Aside(x)
  BY <1>1, AsideOther
<1> QED BY <1>1, <1>2, <1>3, <1>4, <1>5, <1>6, QuietStep, RunUntouched DEF QueueIInv

LEMMA TimeoutHolds ==
  ASSUME QueueIInv, NEW m \in Ids, TimeoutExpires(m)
  PROVE  QueueIInv'
<1>1. /\ QueueTyped /\ Standing /\ InHand /\ Settlement /\ Promises /\ RunStands
      /\ queue[m].at = "hidden" /\ queue' = [queue EXCEPT ![m].at = "visible"]
      /\ disturbed' = (disturbed \/ \E r \in Replicas : m \in Hands(r))
      /\ UNCHANGED <<worker, held, run, settled, tries>>
  <2>1. \A r \in Replicas : m \in Hands(r) <=> m \in worker[r].batch \cup {worker[r].msg}
    BY ZeroIsNoId DEF Hands
  <2> QED BY <2>1 DEF QueueIInv, Standing, TimeoutExpires
<1>2. /\ queue' \in [Ids -> Messages] /\ Kept /\ queue'[m].at = "visible"
      /\ \A k \in Ids \ {m} : queue'[k] = queue[k]
  BY <1>1 DEF QueueTyped, Messages, Kept
<1>3. SameRequests
  BY <1>1, <1>2 DEF SameRequests, Kept, Requested, Queued, Live
<1>4. \A x \in Replicas : /\ worker[x] \in Workers /\ InHandOf(x)
                          /\ Hands(x) \subseteq Ids /\ Hands(x)' = Hands(x)
  BY <1>1, HandsTyped DEF InHand, Hands
<1>5. Standing'
  <2>1. QueueTyped'
    BY <1>1, <1>2 DEF QueueTyped
  <2>2. ASSUME NEW x \in Replicas PROVE InHandOf(x)'
    <3>1. /\ \A k \in Hands(x)' : queue'[k].at # "unsent" /\ queue'[k].reads >= 1
          /\ \A k \in worker'[x].answers : queue'[k].at # "unsent"
      BY <1>1, <1>2, <1>4 DEF InHandOf, Kept, Workers
    <3>2. worker[x].msg # 0 => Subject(x)' = Subject(x)
      BY <1>1, <1>2, <1>4 DEF Subject, Kept, Workers
    <3> QED BY <1>1, <1>4, <3>1, <3>2 DEF InHandOf, ReplanPoints, RunPoints
  <2>3. Settlement'
    BY <1>1, <1>2 DEF Settlement, Kept, QueueTyped
  <2> QED BY <2>1, <2>2, <2>3 DEF Standing, InHand
<1>6. Promises'
  <2>1. \A x \in Replicas : Steady(x)
    BY <1>1, <1>2, SteadyOther DEF Kept
  <2> QED BY <1>1, <1>3, <2>1, QuietStep
<1>7. RunStands'
  <2>1. OneTransaction' /\ OneLeftover'
    BY <1>1, <1>2 DEF RunStands, OneTransaction, OneLeftover, Kept
  <2>2. OneHandler'
    <3>1. SUFFICES ASSUME ~disturbed'
                   PROVE  OneHandler'
      BY DEF OneHandler
    <3>2. ~disturbed /\ \A x \in Replicas : m \notin Hands(x) /\ worker[x].msg # m
      BY <1>1, <3>1, ZeroIsNoId DEF Hands
    <3> QED BY <1>1, <1>2, <1>4, <3>2 DEF OneHandler, RunStands, Kept
  <2> QED BY <2>1, <2>2 DEF RunStands
<1> QED BY <1>5, <1>6, <1>7 DEF QueueIInv

-----------------------------------------------------------------------------
(* What the leftover run does is none of the shifts' business.             *)

(* A worker that drops or keeps what it had, and handles no replan.        *)
LEMMA LeavesShifts ==
  ASSUME QueueIInv, NEW r \in Replicas, NEW w \in Workers, worker' = [worker EXCEPT ![r] = w],
         w.batch \cup ({w.msg} \ {0}) \subseteq Hands(r), w.batch \subseteq worker[r].batch,
         w.at \notin ReplanPoints,
         w.batch = {} \/ (w.seen = worker[r].seen /\ worker[r].at \notin ReplanPoints),
         queue' \in [Ids -> Messages], Kept,
         \A k \in Ids : queue[k].subject \in Shifts => queue'[k].at = queue[k].at,
         UNCHANGED <<tries, settled>>
  PROVE  Promises'
<1>1. /\ worker'[r] = w /\ Hands(r)' \subseteq Hands(r)
      /\ \A x \in Replicas \ {r} : worker'[x] = worker[x]
  BY WorkerMoves DEF QueueIInv, Standing
<1>2. Steady(r)
  BY <1>1 DEF Steady, Handles, Solves, ReplanPoints
<1>3. SameRequests
  BY DEF SameRequests, Kept, Requested, Queued, Live
<1> QED BY <1>1, <1>2, <1>3, QuietMove

LEMMA StartRunHolds ==
  ASSUME QueueIInv, NEW r \in Replicas, NEW m \in Ids, StartRun(r, m)
  PROVE  QueueIInv'
<1> DEFINE w == [worker[r] EXCEPT !.at = "build", !.batch = @ \ {m}, !.msg = m]
<1>1. /\ QueueTyped /\ Standing /\ RunStands /\ worker[r] \in Workers /\ InHandOf(r)
      /\ UNCHANGED <<queue, held, settled, tries, disturbed>>
      /\ worker[r].at = "batch" /\ m \in worker[r].batch /\ worker[r].msg = 0
      /\ queue[m].subject = OnDemand /\ queue[m].at # "unsent"
      /\ run' = [run EXCEPT !.status = "running"]
      /\ worker' = [worker EXCEPT ![r] = w]
  BY HoldsOf DEF StartRun, histVars, InHandOf, Hands
<1>2. /\ w \in Workers /\ w.at = "build" /\ w.batch = worker[r].batch \ {m}
      /\ w.seen = worker[r].seen
      /\ w.msg = m /\ w.answers = worker[r].answers /\ w.outcome = worker[r].outcome
  BY <1>1 DEF Workers
<1> HIDE DEF w
<1>3. /\ run' \in Runs /\ run'.status = "running"
      /\ run'.packages = run.packages /\ run'.plans = run.plans
  BY <1>1 DEF QueueTyped, Runs
<1>4. w.batch \cup ({w.msg} \ {0}) = Hands(r) /\ m # 0 /\ Kept
  BY <1>1, <1>2, ZeroIsNoId, SameQueue DEF Hands
<1>5. Standing'
  <2>1. /\ settled' \subseteq Ids /\ queue' \in [Ids -> Messages]
        /\ held' \in [Shifts -> Replicas \cup {Nobody}]
        /\ tries' \in [Shifts -> 0..MaxRetries] /\ disturbed' \in BOOLEAN
        /\ \A k \in settled' : k \in settled
    BY <1>1 DEF QueueTyped
  <2>2. /\ w.msg \notin w.batch /\ \A k \in w.answers : queue[k].at # "unsent"
    BY <1>1, <1>2 DEF InHandOf
  <2>3. \A s \in Shifts, x \in Replicas \ {r} : held[s] = x => held'[s] = x
    BY <1>1
  <2> QED BY <1>1, <1>2, <1>3, <1>4, <2>1, <2>2, <2>3, StandingStep DEF ReplanPoints, RunPoints
<1>6. /\ worker'[r] = w /\ Hands(r)' = Hands(r)
      /\ \A x \in Replicas \ {r} : worker'[x] = worker[x] /\ Hands(x)' = Hands(x)
  BY <1>1, <1>2, <1>4, WorkerMoves
<1>7. Promises'
  <2>1. w.seen = worker[r].seen /\ worker[r].at \notin ReplanPoints /\ w.at \notin ReplanPoints
    BY <1>1, <1>2 DEF ReplanPoints
  <2>2. /\ queue' \in [Ids -> Messages] /\ \A k \in Ids : queue'[k].at = queue[k].at
        /\ w.batch \subseteq worker[r].batch
    BY <1>1, <1>2 DEF QueueTyped
  <2> QED BY <1>1, <1>2, <1>4, <2>1, <2>2, LeavesShifts
<1>8. OneTransaction'
  BY <1>1, <1>2, <1>3, <1>6 DEF RunStands, OneTransaction
<1>9. OneLeftover'
  BY <1>1 DEF RunStands, OneLeftover
<1>10. OneHandler'
  <2>1. SUFFICES ASSUME ~disturbed
                 PROVE  OneHandler'
    BY <1>1 DEF OneHandler
  <2>2. \A k \in Ids : queue[k].subject = OnDemand => k = m
    BY <1>1 DEF RunStands, OneLeftover
  <2>3. m \in Hands(r) /\ worker[r].msg # m
    BY <1>1, <1>4 DEF Hands
  <2>4. /\ queue[m].at = "hidden"
        /\ \A x \in Replicas \ {r} : m \notin Hands(x) /\ worker[x].msg # m
    BY <1>1, <1>4, <2>1, <2>3 DEF RunStands, OneHandler, Hands
  <2>5. run.packages = "pending"
    BY <1>1, <1>4, <2>1, <2>3, <2>4 DEF RunStands, OneHandler
  <2> QED BY <1>1, <1>2, <1>3, <1>6, <2>2, <2>3, <2>4, <2>5 DEF OneHandler, RunPoints
<1> QED BY <1>5, <1>7, <1>8, <1>9, <1>10 DEF QueueIInv, RunStands

(* The one message of the leftover run.                                    *)
LEMMA AtTheRun ==
  ASSUME QueueIInv, NEW r \in Replicas, NEW m, m = worker[r].msg,
         worker[r].at \in RunPoints
  PROVE  /\ m \in Ids /\ m \in Hands(r) /\ m # 0 /\ m \notin worker[r].batch
         /\ queue[m].at # "unsent" /\ queue[m].subject = OnDemand
         /\ \A k \in Ids : queue[k].subject = OnDemand => k = m
         /\ worker[r].at \in {"archive", "report"} => worker[r].outcome \in Ended
         /\ ~disturbed => /\ \A x \in Replicas \ {r} : m \notin Hands(x) /\ worker[x].msg # m
                          /\ queue[m].at # "visible" /\ run.status = "running"
                          /\ worker[r].at = "build" => run.packages = "pending"
                          /\ worker[r].at = "report" => queue[m].at = "gone"
                          /\ worker[r].at \in {"archive", "report"} =>
                               (worker[r].outcome = "completed" <=> run.packages = "planned")
<1>1. /\ QueueTyped /\ InHandOf(r) /\ OneLeftover /\ OneHandler
      /\ worker[r].msg # 0 => worker[r].msg \in Ids /\ worker[r].msg \in Hands(r)
  BY HoldsOf, HandsTyped
<1>2. m \in Ids /\ m \in Hands(r) /\ m # 0 /\ queue[m].subject = OnDemand
  BY <1>1 DEF InHandOf, Subject
<1>3. \A x \in Replicas : worker[x].msg = m => m \in Hands(x)
  BY <1>2 DEF Hands
<1> QED BY <1>1, <1>2, <1>3 DEF InHandOf, OneLeftover, OneHandler

(* The handler goes on with the run.                                       *)
LEMMA RunGoesOn ==
  ASSUME QueueIInv, NEW r \in Replicas, worker[r].at \in RunPoints,
         NEW w \in Workers, worker' = [worker EXCEPT ![r] = w],
         w.batch = worker[r].batch, w.seen = worker[r].seen,
         w.answers \subseteq worker[r].answers,
         (w.at \in RunPoints /\ w.msg = worker[r].msg) \/ (w.at = "batch" /\ w.msg = 0),
         w.at \in {"archive", "report"} => w.outcome \in Ended,
         queue' = queue \/ queue' = Archived(worker[r].msg),
         run' \in Runs, disturbed' \in BOOLEAN, UNCHANGED <<held, tries, settled>>
  PROVE  /\ Standing' /\ Promises' /\ Kept
         /\ worker'[r] = w
         /\ \A x \in Replicas \ {r} : worker'[x] = worker[x] /\ Hands(x)' = Hands(x)
         /\ OneLeftover'
<1> DEFINE m == worker[r].msg
<1>1. /\ QueueTyped /\ Standing /\ RunStands /\ worker[r] \in Workers /\ InHandOf(r)
      /\ m \in Ids /\ m \in Hands(r) /\ m # 0 /\ m \notin worker[r].batch
      /\ queue[m].subject = OnDemand /\ queue[m].at # "unsent" /\ OneLeftover
  BY HoldsOf, AtTheRun
<1>2. /\ queue' \in [Ids -> Messages] /\ Kept
      /\ \A k \in Ids : queue[k].subject \in Shifts => queue'[k].at = queue[k].at
  <2>1. CASE queue' = queue
    BY <2>1, <1>1, SameQueue DEF QueueTyped
  <2>2. CASE queue' = Archived(m)
    BY <2>2, <1>1, ArchivedQueue, QueueAssumption DEF QueueTyped
  <2> QED BY <2>1, <2>2
<1>3. w.batch \cup ({w.msg} \ {0}) \subseteq Hands(r)
  BY <1>1 DEF Hands
<1> HIDE DEF m
<1>4. Standing'
  <2>1. /\ settled' \subseteq Ids
        /\ held' \in [Shifts -> Replicas \cup {Nobody}]
        /\ tries' \in [Shifts -> 0..MaxRetries]
        /\ \A k \in settled' : k \in settled
    BY <1>1 DEF QueueTyped
  <2>2. /\ w.msg \notin w.batch /\ \A k \in w.answers : queue[k].at # "unsent"
        /\ w.at \notin {"idle", "read", "solve", "solved"} /\ w.at \notin ReplanPoints
        /\ w.at \in RunPoints => w.msg # 0 /\ queue[w.msg].subject = OnDemand
        /\ w.at = "batch" => w.msg = 0
        /\ w.at \in {"idle", "read", "batch"} => w.msg = 0
    BY <1>1, ZeroIsNoId, HandsTyped DEF InHandOf, ReplanPoints, RunPoints, m
  <2>3. \A s \in Shifts, x \in Replicas \ {r} : held[s] = x => held'[s] = x
    BY <1>1
  <2> QED BY <1>1, <1>2, <1>3, <2>1, <2>2, <2>3, StandingStep
<1>5. Promises'
  BY <1>1, <1>2, <1>3, LeavesShifts DEF ReplanPoints, RunPoints
<1>6. /\ worker'[r] = w
      /\ \A x \in Replicas \ {r} : worker'[x] = worker[x] /\ Hands(x)' = Hands(x)
  BY <1>1, WorkerMoves
<1>7. OneLeftover'
  BY <1>1, <1>2 DEF OneLeftover, Kept
<1> QED BY <1>2, <1>4, <1>5, <1>6, <1>7

LEMMA BuildRunHolds ==
  ASSUME QueueIInv, NEW r \in Replicas, BuildRun(r)
  PROVE  QueueIInv'
<1>1. /\ QueueTyped /\ Standing /\ RunStands /\ worker[r] \in Workers
      /\ UNCHANGED <<queue, held, settled, tries, disturbed>>
      /\ worker[r].at = "build" /\ worker[r].at \in RunPoints
  BY HoldsOf DEF BuildRun, RunStep, histVars, RunPoints
<1>2. PICK m : m = worker[r].msg
  OBVIOUS
<1>3. /\ m \in Ids /\ m \in Hands(r)
      /\ \A k \in Ids : queue[k].subject = OnDemand => k = m
      /\ ~disturbed => /\ \A x \in Replicas \ {r} : m \notin Hands(x) /\ worker[x].msg # m
                       /\ queue[m].at # "visible" /\ run.status = "running"
                       /\ run.packages = "pending"
  BY <1>1, <1>2, AtTheRun
<1>4. CASE run.packages = "pending"
  <2> DEFINE w == [worker[r] EXCEPT !.at = "insert"]
  <2>1. /\ w \in Workers /\ w.at = "insert" /\ w.batch = worker[r].batch
        /\ w.seen = worker[r].seen /\ w.msg = m /\ w.answers = worker[r].answers
        /\ worker' = [worker EXCEPT ![r] = w]
    BY <1>1, <1>2, <1>4 DEF Workers, BuildRun
  <2>2. /\ run' \in Runs /\ run'.packages = "locked"
        /\ run'.plans = run.plans /\ run'.status = run.status
    BY <1>1, <1>4 DEF QueueTyped, Runs, BuildRun
  <2> HIDE DEF w
  <2>3. /\ Standing' /\ Promises' /\ Kept /\ worker'[r] = w
        /\ \A x \in Replicas \ {r} : worker'[x] = worker[x] /\ Hands(x)' = Hands(x)
        /\ OneLeftover'
    <3>1. /\ w.at \in RunPoints /\ w.msg = worker[r].msg
          /\ w.at \notin {"archive", "report"} /\ disturbed' \in BOOLEAN
      BY <1>1, <1>2, <2>1 DEF RunPoints, QueueTyped
    <3> QED BY <1>1, <2>1, <2>2, <3>1, RunGoesOn
  <2>4. OneTransaction'
    BY <1>1, <1>4, <2>1, <2>2, <2>3 DEF RunStands, OneTransaction
  <2>5. OneHandler'
    BY <1>1, <1>2, <1>3, <2>1, <2>2, <2>3 DEF OneHandler, RunPoints, Hands
  <2> QED BY <2>3, <2>4, <2>5 DEF QueueIInv, RunStands
<1>5. CASE run.packages # "pending"
  <2> DEFINE w == [worker[r] EXCEPT !.at = "archive", !.outcome = "skipped"]
  <2>1. /\ w \in Workers /\ w.at = "archive" /\ w.batch = worker[r].batch
        /\ w.seen = worker[r].seen /\ w.msg = m /\ w.answers = worker[r].answers
        /\ w.outcome = "skipped"
        /\ worker' = [worker EXCEPT ![r] = w] /\ UNCHANGED run
    BY <1>1, <1>2, <1>5 DEF Workers, BuildRun, Ending
  <2> HIDE DEF w
  <2>2. /\ Standing' /\ Promises' /\ Kept /\ worker'[r] = w
        /\ \A x \in Replicas \ {r} : worker'[x] = worker[x] /\ Hands(x)' = Hands(x)
        /\ OneLeftover'
    <3>1. /\ w.at \in RunPoints /\ w.msg = worker[r].msg /\ w.outcome \in Ended
          /\ disturbed' \in BOOLEAN /\ run' \in Runs
      BY <1>1, <1>2, <2>1 DEF RunPoints, QueueTyped, Ended
    <3> QED BY <1>1, <2>1, <3>1, RunGoesOn
  <2>3. OneTransaction'
    BY <1>1, <2>1, <2>2 DEF RunStands, OneTransaction
  <2>4. OneHandler'
    BY <1>1, <1>3, <1>5 DEF OneHandler
  <2> QED BY <2>2, <2>3, <2>4 DEF QueueIInv, RunStands
<1> QED BY <1>4, <1>5

LEMMA InsertRunHolds ==
  ASSUME QueueIInv, NEW r \in Replicas, InsertRun(r)
  PROVE  QueueIInv'
<1> DEFINE w == [worker[r] EXCEPT !.at = "archive", !.outcome = "completed"]
<1>1. /\ QueueTyped /\ Standing /\ RunStands /\ worker[r] \in Workers
      /\ UNCHANGED <<queue, held, settled, tries, disturbed>>
      /\ worker[r].at = "insert" /\ worker[r].at \in RunPoints
      /\ worker' = [worker EXCEPT ![r] = w]
  BY HoldsOf DEF InsertRun, RunStep, histVars, RunPoints, QueueTyped, Ending, Workers
<1>2. PICK m : m = worker[r].msg
  OBVIOUS
<1>3. /\ m \in Ids /\ m \in Hands(r)
      /\ \A k \in Ids : queue[k].subject = OnDemand => k = m
      /\ ~disturbed => /\ \A x \in Replicas \ {r} : m \notin Hands(x) /\ worker[x].msg # m
                       /\ queue[m].at # "visible" /\ run.status = "running"
  BY <1>1, <1>2, AtTheRun
<1>4. /\ w \in Workers /\ w.at = "archive" /\ w.batch = worker[r].batch
      /\ w.seen = worker[r].seen /\ w.msg = m /\ w.answers = worker[r].answers
      /\ w.outcome = "completed"
  BY <1>1, <1>2 DEF Workers
<1> HIDE DEF w
<1>5. run.packages = "locked" /\ run.plans = 0
      /\ \A x \in Replicas \ {r} : worker[x].at # "insert"
  BY <1>1 DEF RunStands, OneTransaction, QueueTyped, Runs
<1>6. /\ run' \in Runs /\ run'.packages = "planned"
      /\ run'.plans = 1 /\ run'.status = run.status
  <2>1. run' = [run EXCEPT !.packages = "planned", !.plans = 1]
    <3>1. run' = [run EXCEPT !.packages = "planned", !.plans = run.plans + 1]
      BY DEF InsertRun
    <3> QED BY <1>5, <3>1
  <2>2. run \in Runs /\ 1 \in 0..1
    BY <1>1 DEF QueueTyped
  <2>3. /\ run'.packages = "planned" /\ run'.plans = 1 /\ run'.status = run.status
    BY <2>1, <2>2 DEF Runs
  <2>4. run' \in Runs
    BY <2>1, <2>2 DEF Runs
  <2> QED BY <2>3, <2>4
<1>7. /\ Standing' /\ Promises' /\ Kept /\ worker'[r] = w
      /\ \A x \in Replicas \ {r} : worker'[x] = worker[x] /\ Hands(x)' = Hands(x)
      /\ OneLeftover'
  <2>1. /\ w.at \in RunPoints /\ w.msg = worker[r].msg /\ w.outcome \in Ended
        /\ disturbed' \in BOOLEAN
    BY <1>1, <1>2, <1>4 DEF RunPoints, QueueTyped, Ended
  <2> QED BY <1>1, <1>4, <1>6, <2>1, RunGoesOn
<1>8. OneTransaction'
  BY <1>4, <1>5, <1>6, <1>7 DEF OneTransaction
<1>9. OneHandler'
  BY <1>1, <1>2, <1>3, <1>4, <1>6, <1>7 DEF OneHandler, RunPoints, Hands
<1> QED BY <1>7, <1>8, <1>9 DEF QueueIInv, RunStands

LEMMA RollBackRunHolds ==
  ASSUME QueueIInv, NEW r \in Replicas, RollBackRun(r)
  PROVE  QueueIInv'
<1> DEFINE w == [worker[r] EXCEPT !.at = "archive", !.outcome = "failed"]
<1>1. /\ QueueTyped /\ Standing /\ RunStands /\ worker[r] \in Workers
      /\ UNCHANGED <<queue, held, settled, tries, disturbed>>
      /\ worker[r].at \in {"build", "insert"} /\ worker[r].at \in RunPoints
      /\ worker' = [worker EXCEPT ![r] = w]
  BY HoldsOf DEF RollBackRun, RunStep, histVars, RunPoints, QueueTyped, Ending, Workers
<1>2. PICK m : m = worker[r].msg
  OBVIOUS
<1>3. /\ m \in Ids /\ m \in Hands(r)
      /\ \A k \in Ids : queue[k].subject = OnDemand => k = m
      /\ ~disturbed => /\ \A x \in Replicas \ {r} : m \notin Hands(x) /\ worker[x].msg # m
                       /\ queue[m].at # "visible" /\ run.status = "running"
                       /\ worker[r].at = "build" => run.packages = "pending"
  BY <1>1, <1>2, AtTheRun
<1>4. /\ w \in Workers /\ w.at = "archive" /\ w.batch = worker[r].batch
      /\ w.seen = worker[r].seen /\ w.msg = m /\ w.answers = worker[r].answers
      /\ w.outcome = "failed"
  BY <1>1, <1>2 DEF Workers
<1> HIDE DEF w
<1>5. worker[r].at = "insert" =>
        /\ run.packages = "locked" /\ run.plans = 0
        /\ \A x \in Replicas \ {r} : worker[x].at # "insert"
  BY <1>1 DEF RunStands, OneTransaction, QueueTyped, Runs
<1>6. /\ run' \in Runs /\ run'.plans = run.plans /\ run'.status = run.status
      /\ worker[r].at = "insert" => run'.packages = "pending"
      /\ worker[r].at = "build" => run' = run
  BY <1>1 DEF QueueTyped, Runs, RollBackRun
<1>7. /\ Standing' /\ Promises' /\ Kept /\ worker'[r] = w
      /\ \A x \in Replicas \ {r} : worker'[x] = worker[x] /\ Hands(x)' = Hands(x)
      /\ OneLeftover'
  <2>1. /\ w.at \in RunPoints /\ w.msg = worker[r].msg /\ w.outcome \in Ended
        /\ disturbed' \in BOOLEAN
    BY <1>1, <1>2, <1>4 DEF RunPoints, QueueTyped, Ended
  <2> QED BY <1>1, <1>4, <1>6, <2>1, RunGoesOn
<1>8. OneTransaction'
  <2>1. CASE worker[r].at = "insert"
    BY <2>1, <1>4, <1>5, <1>6, <1>7 DEF OneTransaction
  <2>2. CASE worker[r].at = "build"
    BY <2>2, <1>1, <1>4, <1>6, <1>7 DEF RunStands, OneTransaction
  <2> QED BY <1>1, <2>1, <2>2
<1>9. OneHandler'
  <2>1. ~disturbed => run'.packages = "pending"
    BY <1>1, <1>3, <1>6
  <2> QED BY <1>1, <1>2, <1>3, <1>4, <1>6, <1>7, <2>1 DEF OneHandler, RunPoints, Hands
<1> QED BY <1>7, <1>8, <1>9 DEF QueueIInv, RunStands

LEMMA ArchiveRunHolds ==
  ASSUME QueueIInv, NEW r \in Replicas, ArchiveRun(r)
  PROVE  QueueIInv'
<1> DEFINE w == [worker[r] EXCEPT !.at = "report"]
<1>1. /\ QueueTyped /\ Standing /\ RunStands /\ worker[r] \in Workers
      /\ UNCHANGED <<run, held, settled, tries, disturbed>>
      /\ worker[r].at = "archive" /\ worker[r].at \in RunPoints
      /\ queue' = Archived(worker[r].msg)
      /\ worker' = [worker EXCEPT ![r] = w]
  BY HoldsOf DEF ArchiveRun, RunStep, histVars, RunPoints
<1>2. PICK m : m = worker[r].msg
  OBVIOUS
<1>3. /\ m \in Ids /\ m \in Hands(r) /\ queue[m].at # "unsent"
      /\ \A k \in Ids : queue[k].subject = OnDemand => k = m
      /\ worker[r].outcome \in Ended
      /\ ~disturbed => /\ \A x \in Replicas \ {r} : m \notin Hands(x) /\ worker[x].msg # m
                       /\ run.status = "running"
                       /\ worker[r].outcome = "completed" <=> run.packages = "planned"
  BY <1>1, <1>2, AtTheRun
<1>4. /\ w \in Workers /\ w.at = "report" /\ w.batch = worker[r].batch
      /\ w.seen = worker[r].seen /\ w.msg = m /\ w.answers = worker[r].answers
      /\ w.outcome = worker[r].outcome
  BY <1>1, <1>2 DEF Workers
<1> HIDE DEF w
<1>5. queue'[m].at = "gone"
  BY <1>1, <1>2, <1>3, ArchivedQueue DEF QueueTyped
<1>6. /\ Standing' /\ Promises' /\ Kept /\ worker'[r] = w
      /\ \A x \in Replicas \ {r} : worker'[x] = worker[x] /\ Hands(x)' = Hands(x)
      /\ OneLeftover'
  <2>1. /\ w.at \in RunPoints /\ w.msg = worker[r].msg /\ w.outcome \in Ended
        /\ disturbed' \in BOOLEAN /\ run' \in Runs
    BY <1>1, <1>2, <1>3, <1>4 DEF RunPoints, QueueTyped
  <2> QED BY <1>1, <1>4, <2>1, RunGoesOn
<1>7. OneTransaction'
  BY <1>1, <1>4, <1>6 DEF RunStands, OneTransaction
<1>8. OneHandler'
  <2>1. \A k \in Ids : queue'[k].subject = OnDemand => k = m
    BY <1>3, <1>6 DEF Kept
  <2> QED BY <1>1, <1>2, <1>3, <1>4, <1>5, <1>6, <2>1 DEF OneHandler, RunPoints, Hands
<1> QED BY <1>6, <1>7, <1>8 DEF QueueIInv, RunStands

LEMMA ReportRunHolds ==
  ASSUME QueueIInv, NEW r \in Replicas, ReportRun(r)
  PROVE  QueueIInv'
<1> DEFINE w == NextMessage(r)
<1>1. /\ QueueTyped /\ Standing /\ RunStands /\ worker[r] \in Workers
      /\ UNCHANGED <<queue, held, settled, tries, disturbed>>
      /\ worker[r].at = "report" /\ worker[r].at \in RunPoints
      /\ worker' = [worker EXCEPT ![r] = w]
  BY HoldsOf DEF ReportRun, RunStep, histVars, RunPoints
<1>2. PICK m : m = worker[r].msg
  OBVIOUS
<1>3. /\ m \in Ids /\ m \in Hands(r) /\ m # 0 /\ m \notin worker[r].batch
      /\ \A k \in Ids : queue[k].subject = OnDemand => k = m
      /\ worker[r].outcome \in Ended
      /\ ~disturbed => /\ \A x \in Replicas \ {r} : m \notin Hands(x) /\ worker[x].msg # m
                       /\ queue[m].at = "gone"
                       /\ worker[r].outcome = "completed" <=> run.packages = "planned"
  BY <1>1, <1>2, AtTheRun
<1>4. /\ w \in Workers /\ w.at = "batch" /\ w.batch = worker[r].batch
      /\ w.seen = worker[r].seen /\ w.msg = 0 /\ w.answers = {}
  BY <1>1, <1>2 DEF Workers, NextMessage
<1> HIDE DEF w
<1>5. /\ run' \in Runs /\ run'.packages = run.packages
      /\ run'.plans = run.plans /\ run'.status = worker[r].outcome
  BY <1>1, <1>3 DEF QueueTyped, Runs, ReportRun
<1>6. /\ Standing' /\ Promises' /\ Kept /\ worker'[r] = w
      /\ \A x \in Replicas \ {r} : worker'[x] = worker[x] /\ Hands(x)' = Hands(x)
      /\ OneLeftover'
  <2>1. /\ w.at = "batch" /\ w.msg = 0 /\ w.at \notin {"archive", "report"}
        /\ w.answers \subseteq worker[r].answers /\ disturbed' \in BOOLEAN
    BY <1>1, <1>4 DEF QueueTyped
  <2> QED BY <1>1, <1>4, <1>5, <2>1, RunGoesOn
<1>7. OneTransaction'
  BY <1>1, <1>4, <1>5, <1>6 DEF RunStands, OneTransaction
<1>8. OneHandler'
  <2>1. \A k \in Ids : queue'[k].subject = OnDemand => k = m
    BY <1>3, <1>6 DEF Kept
  <2>2. m \notin Hands(r)'
    BY <1>3, <1>4, <1>6 DEF Hands
  <2>3. \A k \in Ids : queue'[k].at = queue[k].at
    BY <1>1
  <2> QED BY <1>1, <1>2, <1>3, <1>4, <1>5, <1>6, <2>1, <2>2, <2>3 DEF OneHandler, Hands
<1> QED BY <1>6, <1>7, <1>8 DEF QueueIInv, RunStands

LEMMA ReportFailsHolds ==
  ASSUME QueueIInv, NEW r \in Replicas, ReportFails(r)
  PROVE  QueueIInv'
<1>1. /\ QueueTyped /\ Standing /\ RunStands /\ worker[r] \in Workers
      /\ UNCHANGED <<run, held, settled, tries>> /\ disturbed' = TRUE
      /\ worker[r].at \in {"archive", "report"} /\ worker[r].at \in RunPoints
  BY HoldsOf DEF ReportFails, RunStep, RunPoints
<1>2. run' \in Runs /\ disturbed' \in BOOLEAN /\ OneHandler'
  BY <1>1 DEF QueueTyped, OneHandler
<1>3. CASE worker[r].outcome # "failed"
  <2> DEFINE w == [worker[r] EXCEPT !.at = "archive", !.outcome = "failed"]
  <2>1. /\ w \in Workers /\ w.at = "archive" /\ w.batch = worker[r].batch
        /\ w.seen = worker[r].seen /\ w.msg = worker[r].msg /\ w.answers = worker[r].answers
        /\ w.outcome \in Ended
        /\ worker' = [worker EXCEPT ![r] = w] /\ queue' = queue
    BY <1>1, <1>3 DEF Workers, ReportFails, Ending, Ended
  <2> HIDE DEF w
  <2>2. /\ Standing' /\ Promises' /\ worker'[r] = w
        /\ \A x \in Replicas \ {r} : worker'[x] = worker[x] /\ Hands(x)' = Hands(x)
        /\ OneLeftover'
    <3>1. w.at \in RunPoints /\ w.answers \subseteq worker[r].answers
      BY <2>1 DEF RunPoints
    <3> QED BY <1>1, <1>2, <2>1, <3>1, RunGoesOn
  <2>3. OneTransaction'
    BY <1>1, <2>1, <2>2 DEF RunStands, OneTransaction
  <2> QED BY <1>2, <2>2, <2>3 DEF QueueIInv, RunStands
<1>4. CASE worker[r].outcome = "failed"
  <2> DEFINE w == NextMessage(r)
  <2>1. /\ w \in Workers /\ w.at = "batch" /\ w.batch = worker[r].batch
        /\ w.seen = worker[r].seen /\ w.msg = 0 /\ w.answers = {}
        /\ worker' = [worker EXCEPT ![r] = w]
        /\ queue' = queue \/ queue' = Archived(worker[r].msg)
    BY <1>1, <1>4 DEF Workers, ReportFails, NextMessage
  <2> HIDE DEF w
  <2>2. /\ Standing' /\ Promises' /\ worker'[r] = w
        /\ \A x \in Replicas \ {r} : worker'[x] = worker[x] /\ Hands(x)' = Hands(x)
        /\ OneLeftover'
    <3>1. w.at \notin {"archive", "report"} /\ w.answers \subseteq worker[r].answers
      BY <2>1
    <3> QED BY <1>1, <1>2, <2>1, <3>1, RunGoesOn
  <2>3. OneTransaction'
    BY <1>1, <2>1, <2>2 DEF RunStands, OneTransaction
  <2> QED BY <1>2, <2>2, <2>3 DEF QueueIInv, RunStands
<1> QED BY <1>3, <1>4

LEMMA CrashHolds ==
  ASSUME QueueIInv, NEW r \in Replicas, Crash(r)
  PROVE  QueueIInv'
<1>1. /\ QueueTyped /\ Standing /\ RunStands /\ worker[r] \in Workers /\ InHandOf(r)
      /\ UNCHANGED <<queue, settled, tries>>
      /\ worker' = [worker EXCEPT ![r] = NoDrain]
      /\ held' = [s \in Shifts |-> IF held[s] = r THEN Nobody ELSE held[s]]
      /\ run' = IF worker[r].at = "insert" THEN [run EXCEPT !.packages = "pending"] ELSE run
      /\ disturbed' = (disturbed \/ (worker[r].msg # 0 /\ Subject(r) = OnDemand))
      /\ disturbed' \in BOOLEAN
  BY HoldsOf DEF Crash, QueueTyped
<1>2. /\ NoDrain \in Workers /\ NoDrain.at = "idle" /\ NoDrain.batch = {} /\ NoDrain.seen = {}
      /\ NoDrain.msg = 0 /\ NoDrain.answers = {}
  BY DEF Workers, NoDrain
<1>3. /\ run' \in Runs /\ run'.plans = run.plans /\ run'.status = run.status
      /\ worker[r].at = "insert" => run'.packages = "pending"
      /\ worker[r].at # "insert" => run' = run
  BY <1>1 DEF QueueTyped, Runs
<1>4. /\ held' \in [Shifts -> Replicas \cup {Nobody}]
      /\ \A s \in Shifts, x \in Replicas \ {r} : held[s] = x => held'[s] = x
  BY <1>1 DEF QueueTyped
<1>5. Kept /\ queue' \in [Ids -> Messages] /\ \A k \in Ids : queue'[k].at = queue[k].at
  BY <1>1, SameQueue DEF QueueTyped
<1>6. Standing'
  <2>1. /\ settled' \subseteq Ids /\ tries' \in [Shifts -> 0..MaxRetries]
        /\ \A k \in settled' : k \in settled
    BY <1>1 DEF QueueTyped
  <2> QED BY <1>1, <1>2, <1>3, <1>4, <1>5, <2>1, StandingStep DEF ReplanPoints, RunPoints
<1>7. Promises'
  <2>1. NoDrain.at \notin ReplanPoints
    BY <1>2 DEF ReplanPoints
  <2> QED BY <1>1, <1>2, <1>5, <2>1, LeavesShifts
<1>8. /\ worker'[r] = NoDrain /\ Hands(r)' = {}
      /\ \A x \in Replicas \ {r} : worker'[x] = worker[x] /\ Hands(x)' = Hands(x)
  BY ZenonT(60), <1>1, <1>2, WorkerMoves
<1>9. OneTransaction'
  <2>1. CASE worker[r].at = "insert"
    <3>1. run.packages = "locked" /\ \A x \in Replicas \ {r} : worker[x].at # "insert"
      BY <1>1, <2>1 DEF RunStands, OneTransaction
    <3> QED BY <2>1, <3>1, <1>1, <1>2, <1>3, <1>8 DEF RunStands, OneTransaction
  <2>2. CASE worker[r].at # "insert"
    BY <2>2, <1>1, <1>2, <1>3, <1>8 DEF RunStands, OneTransaction
  <2> QED BY <2>1, <2>2
<1>10. OneLeftover'
  BY <1>1, <1>3 DEF RunStands, OneLeftover
<1>11. OneHandler'
  <2>1. SUFFICES ASSUME ~disturbed'
                 PROVE  OneHandler'
    BY DEF OneHandler
  <2>2. ~disturbed /\ worker[r].at # "insert" /\ run' = run
    BY <1>1, <1>3, <2>1 DEF InHandOf, RunPoints
  <2>3. \A m \in Ids : queue[m].subject = OnDemand => worker[r].msg # m
    BY <1>1, <2>1, ZeroIsNoId DEF Subject
  <2> QED BY <1>1, <1>2, <1>8, <2>2, <2>3, ZeroIsNoId DEF OneHandler, RunStands
<1> QED BY <1>6, <1>7, <1>9, <1>10, <1>11 DEF QueueIInv, RunStands

-----------------------------------------------------------------------------
(* What the workers do for the shifts.                                     *)

LEMMA LoadShiftHolds ==
  ASSUME QueueIInv, NEW r \in Replicas, LoadShift(r)
  PROVE  QueueIInv'
<1> DEFINE w == [worker[r] EXCEPT !.at = "solve", !.answers = Requested(Subject(r))]
<1>1. /\ QueueTyped /\ Standing /\ worker[r] \in Workers /\ InHand /\ InHandOf(r) /\ Promises
      /\ Counted /\ TwoHands /\ Answering /\ Deferred
      /\ UNCHANGED <<queue, held, run, settled, tries, disturbed>>
      /\ worker[r].at = "load" /\ worker[r].msg # 0 /\ Subject(r) \in Shifts
      /\ held[Subject(r)] = r
      /\ worker' = [worker EXCEPT ![r] = w]
  BY HoldsOf DEF LoadShift, histVars, InHandOf, ReplanPoints
<1>2. /\ w \in Workers /\ w.at = "solve" /\ w.batch = worker[r].batch /\ w.seen = worker[r].seen
      /\ w.msg = worker[r].msg /\ w.answers = Requested(Subject(r))
      /\ w.outcome = worker[r].outcome
  BY <1>1 DEF Workers, Requested
<1> HIDE DEF w
<1>3. Kept /\ SameRequests
  BY <1>1, SameQueue DEF SameRequests
<1>4. Standing'
  <2>1. /\ queue' \in [Ids -> Messages] /\ settled' \subseteq Ids /\ run' \in Runs
        /\ held' \in [Shifts -> Replicas \cup {Nobody}]
        /\ tries' \in [Shifts -> 0..MaxRetries] /\ disturbed' \in BOOLEAN
        /\ \A k \in settled' : k \in settled
    BY <1>1 DEF QueueTyped
  <2>2. /\ \A k \in w.batch \cup ({w.msg} \ {0}) : k \in Hands(r)
        /\ w.msg \notin w.batch /\ \A k \in w.answers : queue[k].at # "unsent"
        /\ \A k \in w.answers : queue[k].subject = queue[w.msg].subject
        /\ w.msg # 0 /\ queue[w.msg].subject \in Shifts /\ held'[queue[w.msg].subject] = r
    BY <1>1, <1>2 DEF InHandOf, Hands, Subject, Requested
  <2>3. \A s \in Shifts, x \in Replicas \ {r} : held[s] = x => held'[s] = x
    BY <1>1
  <2> QED BY <1>1, <1>2, <1>3, <2>1, <2>2, <2>3, StandingStep DEF ReplanPoints, RunPoints
<1>5. /\ worker'[r] = w /\ Hands(r)' = Hands(r)
      /\ \A x \in Replicas \ {r} : worker'[x] = worker[x] /\ Hands(x)' = Hands(x)
  BY <1>1, <1>2, WorkerMoves DEF Hands
<1>6. \A x \in Replicas \ {r}, s \in Shifts : /\ Handles(x, s)' <=> Handles(x, s)
                                              /\ Solves(x, s)' <=> Solves(x, s)
  BY <1>1, <1>3, <1>5, SteadyOther DEF Kept
<1>7. Counted' /\ TwoHands'
  <2>1. \A x \in Replicas : Hands(x)' = Hands(x)
    BY <1>5
  <2>2. \A s \in Shifts : Twice(s)' <=> Twice(s)
    BY <1>1 DEF Twice
  <2>3. Counted'
    BY <1>1, <1>3 DEF Counted, SameRequests
  <2>4. TwoHands'
    BY <1>1, <1>3, <2>1, <2>2 DEF TwoHands, SameRequests
  <2> QED BY <2>3, <2>4
<1>8. Answering'
  <2>1. ASSUME NEW s \in Shifts, NEW y \in Replicas, Solves(y, s)'
        PROVE  /\ \/ Requested(s)' \ (worker'[y].answers \cup settled') \subseteq Queued(s)'
                  \/ Twice(s)'
                  \/ worker'[y].msg \notin Queued(s)'
               /\ Hands(y)' \cap Requested(s)' \subseteq worker'[y].answers
               /\ worker'[y].at = "solved" => worker'[y].answers \subseteq settled'
    <3>1. CASE y = r
      <4>1. s = Subject(r)
        BY <1>1, <1>2, <1>5, <2>1, <3>1 DEF Solves, Subject
      <4> QED BY <1>2, <1>3, <1>5, <3>1, <4>1 DEF SameRequests
    <3>2. CASE y # r
      <4>1. Solves(y, s)
        BY <1>6, <2>1, <3>2
      <4>2. Twice(s)' <=> Twice(s)
        BY <1>1 DEF Twice
      <4>3. worker'[y] = worker[y] /\ Hands(y)' = Hands(y)
        BY <1>5, <3>2
      <4> QED BY <1>1, <1>3, <4>1, <4>2, <4>3 DEF Answering, SameRequests
    <3> QED BY <3>1, <3>2
  <2> QED BY <2>1 DEF Answering
<1>9. Deferred'
  <2>1. \A s \in Shifts : Handles(r, s) => Handles(r, s)'
    BY <1>1, <1>2, <1>5 DEF Handles, ReplanPoints, Subject
  <2>2. \A x \in Replicas : /\ Hands(x)' = Hands(x) /\ worker'[x].seen = worker[x].seen
                            /\ worker'[x].batch = worker[x].batch
    BY <1>2, <1>5
  <2>3. \A s \in Shifts : Twice(s)' <=> Twice(s)
    BY <1>1 DEF Twice
  <2>4. \A s \in Shifts : Waiting(s) => Waiting(s)'
    BY <1>3, <2>2 DEF Waiting, SameRequests
  <2>5. \A x \in Replicas, s \in Shifts : Handles(x, s) => Handles(x, s)'
    BY <1>6, <2>1
  <2> QED BY <1>1, <1>3, <2>2, <2>3, <2>4, <2>5 DEF Deferred, SameRequests
<1>10. RunStands'
  <2>1. \A m \in Ids : queue[m].subject = OnDemand => worker[r].msg # m
    BY <1>1, QueueAssumption DEF Subject
  <2>2. Aside(r)
    BY <1>1, <1>2, <1>5, <2>1 DEF Aside
  <2> QED BY <1>1, <1>3, <1>5, <2>2, AsideMove
<1> QED BY <1>4, <1>7, <1>8, <1>9, <1>10 DEF QueueIInv, Promises

(* A worker archives a message of a shift, and has only the rest of its    *)
(* batch then.                                                             *)
LEMMA ArchivePromises ==
  ASSUME QueueIInv, NEW r \in Replicas, NEW w \in Workers, worker' = [worker EXCEPT ![r] = w],
         NEW m \in Hands(r), NEW s0 \in Shifts, queue[m].subject = s0,
         queue' = Archived(m), Recount, settled \subseteq settled',
         w.at = "batch", w.msg = 0, w.batch = worker[r].batch \ {m},
         Hands(r) = worker[r].batch \cup {m},
         w.seen \subseteq worker[r].seen \cup {s0},
         \A s \in Shifts : Handles(r, s) => s = s0,
         /\ Handles(r, s0) \/ s0 \notin worker[r].seen
         /\ w.batch \cap Queued(s0) # {}
         /\ ~(Requested(s0) \subseteq settled')
         => Twice(s0) \/ Waiting(s0)
  PROVE  Promises'
<1>1. /\ QueueTyped /\ InHand /\ InHandOf(r) /\ Promises /\ Hands(r) \subseteq Ids
      /\ Counted /\ TwoHands /\ Answering /\ Deferred /\ worker[r] \in Workers
  BY HoldsOf
<1>2. /\ queue' \in [Ids -> Messages] /\ Kept
      /\ \A s \in Shifts : Requested(s)' = Requested(s) /\ Queued(s)' = Queued(s) \ {m}
      /\ m \in Ids /\ queue[m].at # "unsent" /\ m \in Requested(s0)
  BY <1>1, ArchivedQueue DEF QueueTyped, InHandOf, Requested
<1>3. /\ tries' \in [Shifts -> 0..MaxRetries]
      /\ \A s \in Shifts : tries'[s] = IF Queued(s)' = {} THEN 0 ELSE tries[s]
  BY <1>1, RecountKeeps
<1>4. /\ worker'[r] = w /\ Hands(r)' = Hands(r) \ {m}
      /\ \A x \in Replicas \ {r} : worker'[x] = worker[x] /\ Hands(x)' = Hands(x)
  <2>1. Hands(r)' = w.batch \cup ({w.msg} \ {0})
    BY <1>1, WorkerMoves
  <2> QED BY <1>1, <2>1, WorkerMoves
<1>5. \A s \in Shifts : Queued(s)' # {} => (Twice(s)' <=> Twice(s))
  BY <1>3 DEF Twice
<1>6. \A x \in Replicas : /\ Hands(x)' \subseteq Hands(x)
                          /\ worker'[x].batch \subseteq worker[x].batch
  BY <1>4
<1>7. \A x \in Replicas \ {r}, s \in Shifts : /\ Handles(x, s)' <=> Handles(x, s)
                                              /\ Solves(x, s)' <=> Solves(x, s)
  BY <1>1, <1>2, <1>4, SteadyOther DEF Kept
<1>8. Counted'
  BY <1>1, <1>2, <1>3 DEF Counted, Kept, Queued, Requested
<1>9. TwoHands'
  <2>1. ASSUME NEW s \in Shifts, NEW x \in Replicas, NEW k \in Hands(x)' \cap Queued(s)'
        PROVE  /\ \A y \in Replicas \ {x} : Hands(y)' \cap Queued(s)' # {} => Twice(s)'
               /\ (Hands(x)' \cap Requested(s)') \ Queued(s)' # {} => Twice(s)'
    <3>1. /\ k \in Hands(x) \cap Queued(s) /\ k # m
          /\ Twice(s)' <=> Twice(s)
      BY <1>2, <1>5, <1>6, <2>1
    <3>2. /\ \A y \in Replicas \ {x} : Hands(y) \cap Queued(s) # {} => Twice(s)
          /\ (Hands(x) \cap Requested(s)) \ Queued(s) # {} => Twice(s)
      BY <1>1, <3>1 DEF TwoHands
    <3>3. \A y \in Replicas \ {x} : Hands(y)' \cap Queued(s)' # {} => Twice(s)'
      BY <1>2, <1>6, <3>1, <3>2
    <3>4. ASSUME NEW j \in (Hands(x)' \cap Requested(s)') \ Queued(s)'
          PROVE  Twice(s)'
      <4>1. j \in Hands(x) \cap Requested(s)
        BY <1>2, <1>6, <3>4
      <4>2. CASE j # m
        BY <1>2, <3>1, <3>2, <3>4, <4>1, <4>2
      <4>3. CASE j = m
        <5>1. x # r
          BY <1>4, <3>4, <4>3
        <5>2. CASE m \in Queued(s)
          BY <3>1, <3>2, <5>1, <5>2
        <5>3. CASE m \notin Queued(s)
          BY <3>1, <3>2, <4>1, <4>3, <5>3
        <5> QED BY <5>2, <5>3
      <4> QED BY <4>2, <4>3
    <3> QED BY <3>3, <3>4
  <2> QED BY <2>1 DEF TwoHands
<1>10. Answering'
  <2>1. ASSUME NEW s \in Shifts, NEW y \in Replicas, Solves(y, s)'
        PROVE  /\ \/ Requested(s)' \ (worker'[y].answers \cup settled') \subseteq Queued(s)'
                  \/ Twice(s)'
                  \/ worker'[y].msg \notin Queued(s)'
               /\ Hands(y)' \cap Requested(s)' \subseteq worker'[y].answers
               /\ worker'[y].at = "solved" => worker'[y].answers \subseteq settled'
    <3>1. y # r /\ Solves(y, s) /\ worker'[y] = worker[y] /\ Hands(y)' = Hands(y)
      <4>1. y # r
        BY <1>4, <2>1 DEF Solves
      <4> QED BY <1>4, <1>7, <2>1, <4>1
    <3>2. /\ \/ Requested(s) \ (worker[y].answers \cup settled) \subseteq Queued(s)
             \/ Twice(s)
             \/ worker[y].msg \notin Queued(s)
          /\ Hands(y) \cap Requested(s) \subseteq worker[y].answers
          /\ worker[y].at = "solved" => worker[y].answers \subseteq settled
      BY <1>1, <3>1 DEF Answering
    <3>3. CASE worker[y].msg \notin Queued(s)'
      BY <1>2, <3>1, <3>2, <3>3
    <3>4. CASE worker[y].msg \in Queued(s)'
      <4>1. /\ worker[y].msg \in Queued(s) /\ (Twice(s)' <=> Twice(s))
            /\ worker[y].msg \in Hands(y)
        <5>1. worker[y].msg \in Queued(s) /\ worker[y].msg \in Ids
          BY <1>2, <3>4 DEF Queued, Requested
        <5> QED BY <1>1, <1>5, <3>4, <5>1, HandsTyped, ZeroIsNoId
      <4>2. m \in Queued(s) => Twice(s)
        <5>1. m \in Queued(s) => Hands(r) \cap Queued(s) # {}
          OBVIOUS
        <5> QED BY <1>1, <3>1, <4>1, <5>1 DEF TwoHands
      <4> QED BY <1>2, <3>1, <3>2, <4>1, <4>2
    <3> QED BY <3>3, <3>4
  <2> QED BY <2>1 DEF Answering
<1>11. Deferred'
  <2>1. ASSUME NEW s \in Shifts, NEW x \in Replicas, s \in worker'[x].seen,
               worker'[x].batch \cap Queued(s)' # {}, ~(Requested(s)' \subseteq settled')
        PROVE  Twice(s)' \/ Handles(x, s)' \/ Waiting(s)'
    <3>1. /\ Twice(s)' <=> Twice(s)
          /\ worker'[x].batch \cap Queued(s) # {} /\ worker[x].batch \cap Queued(s) # {}
          /\ ~(Requested(s) \subseteq settled) /\ ~(Requested(s) \subseteq settled')
      BY <1>2, <1>5, <1>6, <2>1
    <3>2. Waiting(s) => Waiting(s)'
      BY <1>2, <1>6 DEF Waiting
    <3>3. CASE x # r
      <4>1. worker'[x] = worker[x]
        BY <1>4, <3>3
      <4>2. Twice(s) \/ Handles(x, s) \/ Waiting(s)
        BY <1>1, <2>1, <3>1, <4>1 DEF Deferred
      <4> QED BY <1>7, <3>1, <3>2, <3>3, <4>2
    <3>4. CASE x = r
      <4>1. CASE s \in worker[r].seen /\ ~Handles(r, s)
        BY <1>1, <3>1, <3>2, <3>4, <4>1 DEF Deferred
      <4>2. CASE s \notin worker[r].seen \/ Handles(r, s)
        <5>1. s = s0
          BY <1>4, <2>1, <3>4, <4>2
        <5>2. w.batch \cap Queued(s0) # {}
          BY <1>4, <3>1, <3>4, <5>1
        <5>3. Twice(s0) \/ Waiting(s0)
          BY <3>1, <4>2, <5>1, <5>2
        <5> QED BY <3>1, <3>2, <5>1, <5>3
      <4> QED BY <4>1, <4>2
    <3> QED BY <3>3, <3>4
  <2> QED BY <2>1 DEF Deferred
<1> QED BY <1>8, <1>9, <1>10, <1>11 DEF Promises

(* The lock goes free, or stays with a session nobody knows.               *)
LEMMA UnlockLeaves ==
  ASSUME QueueTyped, NEW r \in Replicas, Unlock(r), Subject(r) \in Shifts,
         held[Subject(r)] = r
  PROVE  /\ held' \in [Shifts -> Replicas \cup {Nobody}]
         /\ \A s \in Shifts, x \in Replicas \ {r} : held[s] = x => held'[s] = x
BY QueueAssumption DEF QueueTyped, Unlock

(* The rest of what archiving a shift's message leaves as it should be.    *)
LEMMA ArchiveStands ==
  ASSUME QueueIInv, NEW r \in Replicas, NEW w \in Workers, worker' = [worker EXCEPT ![r] = w],
         NEW m \in Hands(r), queue[m].subject \in Shifts,
         queue' = Archived(m), Recount,
         w.at = "batch", w.msg = 0, w.batch = worker[r].batch \ {m},
         Hands(r) = worker[r].batch \cup {m}, w.answers \subseteq worker[r].answers,
         \A k \in Ids : queue[k].subject = OnDemand => worker[r].msg # k,
         settled' \subseteq Ids, \A k \in settled' : k \in settled \/ queue[k].at # "unsent",
         held' \in [Shifts -> Replicas \cup {Nobody}],
         \A s \in Shifts, x \in Replicas \ {r} : held[s] = x => held'[s] = x,
         UNCHANGED <<run, disturbed>>
  PROVE  Standing' /\ RunStands'
<1>1. /\ QueueTyped /\ Standing /\ InHandOf(r) /\ Hands(r) \subseteq Ids /\ Counted
      /\ worker[r] \in Workers /\ queue[m].at # "unsent" /\ queue[m].subject # OnDemand
  BY HoldsOf, QueueAssumption DEF InHandOf
<1>2. /\ queue' \in [Ids -> Messages] /\ Kept
      /\ \A k \in Ids \ {m} : queue'[k] = queue[k]
  BY <1>1, ArchivedQueue DEF QueueTyped
<1>3. tries' \in [Shifts -> 0..MaxRetries]
  BY <1>1, RecountKeeps
<1>4. Standing'
  <2>1. /\ run' \in Runs /\ disturbed' \in BOOLEAN
    BY <1>1 DEF QueueTyped
  <2>2. /\ \A k \in w.batch \cup ({w.msg} \ {0}) : k \in Hands(r)
        /\ w.msg \notin w.batch /\ \A k \in w.answers : queue[k].at # "unsent"
    BY <1>1, ZeroIsNoId DEF InHandOf
  <2>3. /\ w.at \notin ReplanPoints /\ w.at \notin RunPoints /\ w.at \notin {"idle", "read"}
        /\ w.at \notin {"archive", "report"}
    BY DEF ReplanPoints, RunPoints
  <2> QED BY ZenonT(60), <1>1, <1>2, <1>3, <2>1, <2>2, <2>3, StandingStep
<1>5. /\ worker'[r] = w /\ Hands(r)' = Hands(r) \ {m}
      /\ \A x \in Replicas \ {r} : worker'[x] = worker[x]
  <2>1. Hands(r)' = w.batch \cup ({w.msg} \ {0})
    BY <1>1, WorkerMoves
  <2> QED BY <1>1, <2>1, WorkerMoves
<1>6. RunStands'
  <2>1. worker[r].at # "insert"
    <3>1. worker[r].at = "insert" => worker[r].msg \in Ids /\ Subject(r) = OnDemand
      BY <1>1, HandsTyped DEF InHandOf, RunPoints
    <3> QED BY <3>1 DEF Subject
  <2>2. Aside(r)
    BY <1>1, <1>5, <2>1, ZeroIsNoId DEF Aside
  <2>3. \A k \in Ids : queue[k].subject = OnDemand => queue'[k].at = queue[k].at
    BY <1>1, <1>2
  <2> QED BY <1>2, <1>5, <2>2, <2>3, AsideMove
<1> QED BY <1>4, <1>6

LEMMA ArchiveDuplicateHolds ==
  ASSUME QueueIInv, NEW r \in Replicas, NEW m \in Ids, ArchiveDuplicate(r, m)
  PROVE  QueueIInv'
<1> DEFINE w == [worker[r] EXCEPT !.batch = @ \ {m}]
           s0 == queue[m].subject
<1>1. /\ QueueTyped /\ worker[r] \in Workers /\ InHandOf(r) /\ Answering
      /\ UNCHANGED <<held, run, settled, disturbed>> /\ Recount
      /\ worker[r].at = "batch" /\ m \in worker[r].batch /\ worker[r].msg = 0
      /\ s0 \in worker[r].seen /\ s0 \in Shifts /\ queue[m].at # "unsent"
      /\ queue' = Archived(m) /\ worker' = [worker EXCEPT ![r] = w]
  BY HoldsOf DEF ArchiveDuplicate, InHandOf, Hands, Workers
<1>2. /\ w \in Workers /\ w.at = "batch" /\ w.batch = worker[r].batch \ {m}
      /\ w.seen = worker[r].seen /\ w.msg = 0 /\ w.answers = worker[r].answers
  BY <1>1 DEF Workers
<1>3. Hands(r) = worker[r].batch \cup {m} /\ m \in Hands(r)
  BY <1>1 DEF Hands
<1> HIDE DEF w
<1>4. \A s \in Shifts : ~Handles(r, s)
  BY <1>1 DEF Handles, ReplanPoints
<1>6. Promises'
  <2>1. s0 \in Shifts /\ queue[m].subject = s0 /\ settled \subseteq settled'
    BY <1>1
  <2> HIDE DEF s0
  <2> QED BY <1>1, <1>2, <1>3, <1>4, <2>1, ArchivePromises
<1>7. Standing' /\ RunStands'
  <2>1. /\ \A k \in Ids : queue[k].subject = OnDemand => worker[r].msg # k
        /\ settled' \subseteq Ids /\ \A k \in settled' : k \in settled
        /\ held' \in [Shifts -> Replicas \cup {Nobody}]
        /\ \A s \in Shifts, x \in Replicas \ {r} : held[s] = x => held'[s] = x
    BY <1>1, ZeroIsNoId DEF QueueTyped
  <2> QED BY <1>1, <1>2, <1>3, <2>1, ArchiveStands
<1> QED BY <1>6, <1>7 DEF QueueIInv

(* A request that is not settled, and not in this worker's hands, waits, or*)
(* is in another's.                                                        *)
LEMMA LeftToAnother ==
  ASSUME QueueIInv, NEW r \in Replicas, NEW s \in Shifts, NEW j \in Queued(s),
         j \notin Hands(r), Hands(r) \cap Queued(s) # {}
  PROVE  Twice(s) \/ Waiting(s)
<1>1. TwoHands
  BY HoldsOf
<1>2. CASE \E x \in Replicas : j \in Hands(x)
  <2>1. PICK x \in Replicas \ {r} : j \in Hands(x)
    BY <1>2
  <2>2. Hands(x) \cap Queued(s) # {}
    BY <2>1
  <2> QED BY <1>1, <2>2 DEF TwoHands
<1>3. CASE ~\E x \in Replicas : j \in Hands(x)
  BY <1>3 DEF Waiting
<1> QED BY <1>2, <1>3

(* What is left of a shift's messages to a worker that failed with one.    *)
LEMMA FailedOnce ==
  ASSUME QueueIInv, NEW r \in Replicas, NEW s \in Shifts, NEW m \in Hands(r) \cap Requested(s),
         Hands(r) \cap Queued(s) # {}
  PROVE  /\ m \notin Queued(s) => Twice(s)
         /\ m \in Queued(s) /\ (\E x \in Replicas \ {r} : m \in Hands(x)) => Twice(s)
<1>1. TwoHands
  BY HoldsOf
<1>2. PICK k \in Hands(r) \cap Queued(s) : TRUE
  OBVIOUS
<1>3. /\ \A x \in Replicas \ {r} : Hands(x) \cap Queued(s) # {} => Twice(s)
      /\ (Hands(r) \cap Requested(s)) \ Queued(s) # {} => Twice(s)
  BY <1>1, <1>2 DEF TwoHands
<1> QED BY <1>3

LEMMA SkipLockedHolds ==
  ASSUME QueueIInv, NEW r \in Replicas, NEW m \in Ids, SkipLocked(r, m)
  PROVE  QueueIInv'
<1> DEFINE w == Begun(r, m)
           s0 == queue[m].subject
<1>1. /\ QueueTyped /\ worker[r] \in Workers /\ InHandOf(r)
      /\ UNCHANGED <<held, run, disturbed>> /\ Recount
      /\ worker[r].at = "batch" /\ m \in worker[r].batch /\ worker[r].msg = 0
      /\ s0 \notin worker[r].seen /\ s0 \in Shifts /\ queue[m].at # "unsent"
      /\ queue' = Archived(m) /\ worker' = [worker EXCEPT ![r] = w]
      /\ settled' = settled \cup {k \in Requested(s0) : ~Live(k) \/ k \in worker[r].batch}
  BY HoldsOf DEF SkipLocked, Unhandled, InHandOf, Hands, Workers
<1>2. /\ w \in Workers /\ w.at = "batch" /\ w.batch = worker[r].batch \ {m}
      /\ w.seen = worker[r].seen \cup {s0} /\ w.msg = 0 /\ w.answers = worker[r].answers
  BY <1>1 DEF Workers, Begun
<1>3. Hands(r) = worker[r].batch \cup {m} /\ m \in Hands(r) /\ m \in Requested(s0)
  BY <1>1 DEF Hands, Requested
<1> HIDE DEF w
<1>4. \A s \in Shifts : ~Handles(r, s)
  BY <1>1 DEF Handles, ReplanPoints
<1>5. /\ m \in settled' /\ settled \subseteq settled'
      /\ worker[r].batch \cap Requested(s0) \subseteq settled'
  BY <1>1, <1>3
<1>6. ASSUME w.batch \cap Queued(s0) # {}, ~(Requested(s0) \subseteq settled')
      PROVE  Twice(s0) \/ Waiting(s0)
  <2>1. PICK j \in Requested(s0) : j \notin settled'
    BY <1>6
  <2>2. j \in Queued(s0) /\ j \notin worker[r].batch
    BY <1>1, <2>1 DEF Queued
  <2>3. j \notin Hands(r) /\ Hands(r) \cap Queued(s0) # {}
    BY <1>2, <1>3, <1>6, <1>1, <2>2
  <2>4. s0 \in Shifts
    BY <1>1
  <2> HIDE DEF s0
  <2> QED BY <2>2, <2>3, <2>4, LeftToAnother
<1>7. Promises'
  <2>1. s0 \in Shifts /\ queue[m].subject = s0
    BY <1>1
  <2>2. /\ w.seen \subseteq worker[r].seen \cup {s0}
        /\ \A s \in Shifts : Handles(r, s) => s = s0
    BY <1>2, <1>4
  <2>3. /\ Handles(r, s0) \/ s0 \notin worker[r].seen
        /\ w.batch \cap Queued(s0) # {}
        /\ ~(Requested(s0) \subseteq settled')
        => Twice(s0) \/ Waiting(s0)
    BY <1>6
  <2>4. queue' = Archived(m) /\ worker' = [worker EXCEPT ![r] = w] /\ Recount
    BY <1>1
  <2> HIDE DEF s0
  <2> QED BY <1>2, <1>3, <1>5, <2>1, <2>2, <2>3, <2>4, ArchivePromises
<1>8. Standing' /\ RunStands'
  <2>1. /\ \A k \in Ids : queue[k].subject = OnDemand => worker[r].msg # k
        /\ settled' \subseteq Ids /\ \A k \in settled' : k \in settled \/ queue[k].at # "unsent"
        /\ held' \in [Shifts -> Replicas \cup {Nobody}]
        /\ \A s \in Shifts, x \in Replicas \ {r} : held[s] = x => held'[s] = x
    BY <1>1, ZeroIsNoId DEF QueueTyped, Requested
  <2> QED BY ZenonT(60), <1>1, <1>2, <1>3, <2>1, ArchiveStands
<1> QED BY <1>7, <1>8 DEF QueueIInv

(* A worker that is done with a replan.                                    *)
LEMMA DoneWith ==
  ASSUME QueueIInv, NEW r \in Replicas, worker[r].at \in ReplanPoints,
         NEW m, m = worker[r].msg, NEW w, w = NextMessage(r), Unlock(r)
  PROVE  /\ QueueTyped /\ worker[r] \in Workers /\ InHandOf(r) /\ Counted
         /\ TwoHands /\ Answering
         /\ m \in Ids /\ m \in Hands(r) /\ m # 0 /\ m \notin worker[r].batch
         /\ queue[m].at # "unsent" /\ queue[m].subject \in Shifts
         /\ Subject(r) = queue[m].subject /\ m \in Requested(queue[m].subject)
         /\ Hands(r) = worker[r].batch \cup {m}
         /\ w \in Workers /\ w.at = "batch" /\ w.batch = worker[r].batch
         /\ w.seen = worker[r].seen /\ w.msg = 0 /\ w.answers = {}
         /\ \A s \in Shifts : Handles(r, s) <=> s = queue[m].subject
         /\ \A y \in Replicas \ {r} : ~Solves(y, queue[m].subject)
         /\ \A k \in Ids : queue[k].subject = OnDemand => worker[r].msg # k
         /\ held' \in [Shifts -> Replicas \cup {Nobody}]
         /\ \A s \in Shifts, x \in Replicas \ {r} : held[s] = x => held'[s] = x
<1>1. /\ QueueTyped /\ worker[r] \in Workers /\ InHandOf(r) /\ Counted /\ InHand
      /\ TwoHands /\ Answering
      /\ m \in Ids /\ m \in Hands(r) /\ m # 0
  BY HoldsOf, HandsTyped DEF InHandOf
<1>2. /\ m \notin worker[r].batch /\ queue[m].at # "unsent" /\ queue[m].subject \in Shifts
      /\ Subject(r) = queue[m].subject /\ held[queue[m].subject] = r
      /\ m \in Requested(queue[m].subject)
  BY <1>1 DEF InHandOf, Subject, Requested
<1>3. Hands(r) = worker[r].batch \cup {m}
  BY <1>1 DEF Hands
<1>4. /\ w \in Workers /\ w.at = "batch" /\ w.batch = worker[r].batch
      /\ w.seen = worker[r].seen /\ w.msg = 0 /\ w.answers = {}
  BY <1>1 DEF Workers, NextMessage
<1>5. \A s \in Shifts : Handles(r, s) <=> s = queue[m].subject
  BY <1>2 DEF Handles
<1>6. \A y \in Replicas \ {r} : ~Solves(y, queue[m].subject)
  BY <1>1, <1>2 DEF Solves, InHand, InHandOf, ReplanPoints
<1>7. \A k \in Ids : queue[k].subject = OnDemand => worker[r].msg # k
  BY <1>2, QueueAssumption
<1>8. /\ held' \in [Shifts -> Replicas \cup {Nobody}]
      /\ \A s \in Shifts, x \in Replicas \ {r} : held[s] = x => held'[s] = x
  BY <1>1, <1>2, UnlockLeaves
<1> QED BY <1>1, <1>2, <1>3, <1>4, <1>5, <1>6, <1>7, <1>8

LEMMA ArchiveReplanHolds ==
  ASSUME QueueIInv, NEW r \in Replicas, ArchiveReplan(r)
  PROVE  QueueIInv'
<1>1. PICK m : m = worker[r].msg
  OBVIOUS
<1>2. PICK w : w = NextMessage(r)
  OBVIOUS
<1>3. PICK s0 : s0 = queue[m].subject
  OBVIOUS
<1>4. /\ UNCHANGED <<run, settled, disturbed>> /\ Recount /\ Unlock(r)
      /\ worker[r].at = "solved" /\ worker[r].at \in ReplanPoints
      /\ queue' = Archived(m) /\ worker' = [worker EXCEPT ![r] = w]
  BY <1>1, <1>2 DEF ArchiveReplan, ReplanPoints
<1>5. /\ QueueTyped /\ Answering
      /\ m \in Ids /\ m \in Hands(r) /\ m \notin worker[r].batch
      /\ s0 \in Shifts /\ Subject(r) = s0 /\ m \in Requested(s0)
      /\ Hands(r) = worker[r].batch \cup {m}
      /\ w \in Workers /\ w.at = "batch" /\ w.batch = worker[r].batch
      /\ w.seen = worker[r].seen /\ w.msg = 0 /\ w.answers = {}
      /\ \A s \in Shifts : Handles(r, s) <=> s = s0
      /\ \A y \in Replicas \ {r} : ~Solves(y, s0)
      /\ \A k \in Ids : queue[k].subject = OnDemand => worker[r].msg # k
      /\ held' \in [Shifts -> Replicas \cup {Nobody}]
      /\ \A s \in Shifts, x \in Replicas \ {r} : held[s] = x => held'[s] = x
  BY <1>1, <1>2, <1>3, <1>4, DoneWith
<1>6. w.batch = worker[r].batch \ {m}
  BY <1>5
<1>7. ASSUME w.batch \cap Queued(s0) # {}, ~(Requested(s0) \subseteq settled')
      PROVE  Twice(s0) \/ Waiting(s0)
  <2>1. PICK j \in Requested(s0) : j \notin settled
    BY <1>4, <1>7
  <2>2. Solves(r, s0)
    BY <1>4, <1>5 DEF Solves
  <2>3. /\ \/ Requested(s0) \ (worker[r].answers \cup settled) \subseteq Queued(s0)
           \/ Twice(s0)
           \/ m \notin Queued(s0)
        /\ Hands(r) \cap Requested(s0) \subseteq worker[r].answers
        /\ worker[r].answers \subseteq settled
    BY <1>1, <1>4, <1>5, <2>2 DEF Answering
  <2>4. CASE m \notin Queued(s0)
    <3>1. Hands(r) \cap Queued(s0) # {}
      BY <1>5, <1>7
    <3> QED BY <1>5, <2>4, <3>1, FailedOnce
  <2>5. CASE Requested(s0) \ (worker[r].answers \cup settled) \subseteq Queued(s0)
    <3>1. j \in Queued(s0) /\ j \notin Hands(r) /\ Hands(r) \cap Queued(s0) # {}
      BY <1>5, <1>7, <2>1, <2>3, <2>5
    <3> QED BY <1>5, <3>1, LeftToAnother
  <2> QED BY <2>3, <2>4, <2>5
<1>8. Promises'
  <2>1. settled \subseteq settled' /\ queue[m].subject = s0 /\ s0 \in Shifts
    BY <1>3, <1>4, <1>5
  <2>2. /\ w.seen \subseteq worker[r].seen \cup {s0}
        /\ \A s \in Shifts : Handles(r, s) => s = s0
    BY <1>5
  <2>3. /\ Handles(r, s0) \/ s0 \notin worker[r].seen
        /\ w.batch \cap Queued(s0) # {}
        /\ ~(Requested(s0) \subseteq settled')
        => Twice(s0) \/ Waiting(s0)
    BY <1>7
  <2> QED BY ZenonT(60), <1>4, <1>5, <1>6, <2>1, <2>2, <2>3, ArchivePromises
<1>9. Standing' /\ RunStands'
  <2>1. settled' \subseteq Ids /\ \A k \in settled' : k \in settled
    BY <1>4, <1>5 DEF QueueTyped
  <2>2. w.answers \subseteq worker[r].answers /\ queue[m].subject \in Shifts
    BY <1>3, <1>5
  <2> QED BY <1>4, <1>5, <1>6, <2>1, <2>2, ArchiveStands
<1> QED BY <1>8, <1>9 DEF QueueIInv

LEMMA FailHolds ==
  ASSUME QueueIInv, NEW r \in Replicas, Fail(r)
  PROVE  QueueIInv'
<1>1. PICK m : m = worker[r].msg
  OBVIOUS
<1>2. PICK w : w = NextMessage(r)
  OBVIOUS
<1>3. PICK s0 : s0 = queue[m].subject
  OBVIOUS
<1>4. /\ UNCHANGED <<run, settled, disturbed>> /\ Recount /\ Unlock(r)
      /\ worker[r].at \in ReplanPoints
      /\ queue' = IF queue[m].reads >= MaxRetries THEN Archived(m) ELSE queue
      /\ worker' = [worker EXCEPT ![r] = w]
  BY <1>1, <1>2 DEF Fail, ReplanPoints
<1>5. /\ QueueTyped /\ Counted
      /\ m \in Ids /\ m \in Hands(r) /\ m \notin worker[r].batch
      /\ s0 \in Shifts /\ Subject(r) = s0 /\ m \in Requested(s0)
      /\ Hands(r) = worker[r].batch \cup {m}
      /\ w \in Workers /\ w.at = "batch" /\ w.batch = worker[r].batch
      /\ w.seen = worker[r].seen /\ w.msg = 0 /\ w.answers = {}
      /\ \A s \in Shifts : Handles(r, s) <=> s = s0
      /\ \A y \in Replicas \ {r} : ~Solves(y, s0)
      /\ \A k \in Ids : queue[k].subject = OnDemand => worker[r].msg # k
      /\ held' \in [Shifts -> Replicas \cup {Nobody}]
      /\ \A s \in Shifts, x \in Replicas \ {r} : held[s] = x => held'[s] = x
      /\ Standing /\ worker[r] \in Workers /\ InHandOf(r)
  BY <1>1, <1>2, <1>3, <1>4, DoneWith, HoldsOf
<1>6. CASE queue[m].reads >= MaxRetries
  <2>1. /\ w.batch = worker[r].batch \ {m} /\ queue' = Archived(m)
        /\ settled \subseteq settled' /\ queue[m].subject = s0
    BY <1>3, <1>4, <1>5, <1>6
  <2>2. Promises'
    <3>1. /\ w.seen \subseteq worker[r].seen \cup {s0}
          /\ \A s \in Shifts : Handles(r, s) => s = s0
      BY <1>5
    <3>2. ASSUME w.batch \cap Queued(s0) # {}
          PROVE  Twice(s0)
      <4>1. CASE m \in Queued(s0)
        <5>1. queue[m].reads <= tries[s0] /\ queue[m].reads \in Nat /\ tries[s0] \in Nat
          BY <1>5, <4>1 DEF Counted, QueueTyped, Messages
        <5> QED BY <1>6, <5>1, QueueAssumption DEF Twice
      <4>2. CASE m \notin Queued(s0)
        <5>1. Hands(r) \cap Queued(s0) # {}
          BY <1>5, <3>2
        <5> QED BY <1>5, <4>2, <5>1, FailedOnce
      <4> QED BY <4>1, <4>2
    <3>3. /\ Handles(r, s0) \/ s0 \notin worker[r].seen
          /\ w.batch \cap Queued(s0) # {}
          /\ ~(Requested(s0) \subseteq settled')
          => Twice(s0) \/ Waiting(s0)
      BY <3>2
    <3>4. /\ worker' = [worker EXCEPT ![r] = w] /\ Recount
          /\ w \in Workers /\ m \in Hands(r) /\ s0 \in Shifts
          /\ w.at = "batch" /\ w.msg = 0 /\ Hands(r) = worker[r].batch \cup {m}
      BY <1>4, <1>5
    <3> QED BY <2>1, <3>1, <3>3, <3>4, ArchivePromises
  <2>3. Standing' /\ RunStands'
    <3>1. settled' \subseteq Ids /\ \A k \in settled' : k \in settled
      BY <1>4, <1>5 DEF QueueTyped
    <3>2. w.answers \subseteq worker[r].answers /\ queue[m].subject \in Shifts
      BY <1>5, <2>1
    <3> QED BY <1>4, <1>5, <2>1, <3>1, <3>2, ArchiveStands
  <2> QED BY <2>2, <2>3 DEF QueueIInv
<1>7. CASE ~(queue[m].reads >= MaxRetries)
  <2>1. queue' = queue /\ Kept /\ SameRequests
    BY <1>4, <1>7, SameQueue DEF SameRequests
  <2>2. UNCHANGED tries
    <3>1. /\ tries' \in [Shifts -> 0..MaxRetries]
          /\ \A s \in Shifts : tries'[s] = IF Queued(s)' = {} THEN 0 ELSE tries[s]
      BY <1>4, <1>5, RecountKeeps
    <3>2. \A s \in Shifts : tries'[s] = tries[s]
      BY <1>5, <2>1, <3>1 DEF SameRequests, Counted
    <3> QED BY <1>5, <3>1, <3>2 DEF QueueTyped
  <2>3. /\ worker'[r] = w /\ Hands(r)' = worker[r].batch
        /\ \A x \in Replicas \ {r} : worker'[x] = worker[x] /\ Hands(x)' = Hands(x)
    <3>1. /\ worker'[r] = w /\ Hands(r)' = w.batch \cup ({w.msg} \ {0})
          /\ \A x \in Replicas \ {r} : worker'[x] = worker[x]
          /\ \A x \in Replicas \ {r} : Hands(x)' = Hands(x)
      BY <1>4, <1>5, WorkerMoves
    <3>2. w.batch \cup ({w.msg} \ {0}) = worker[r].batch
      BY <1>5
    <3> QED BY <3>1, <3>2
  <2>4. Standing'
    <3>1. /\ queue' \in [Ids -> Messages] /\ settled' \subseteq Ids /\ run' \in Runs
          /\ tries' \in [Shifts -> 0..MaxRetries] /\ disturbed' \in BOOLEAN
          /\ \A k \in settled' : k \in settled
      BY <1>4, <1>5, <2>1, <2>2 DEF QueueTyped
    <3>2. /\ \A k \in w.batch \cup ({w.msg} \ {0}) : k \in Hands(r)
          /\ w.msg \notin w.batch /\ \A k \in w.answers : queue[k].at # "unsent"
      BY <1>5, ZeroIsNoId, HandsTyped
    <3>3. /\ w.at \notin ReplanPoints /\ w.at \notin RunPoints /\ w.at \notin {"idle", "read"}
          /\ w.at \notin {"archive", "report"}
      BY <1>5 DEF ReplanPoints, RunPoints
    <3> QED BY <1>4, <1>5, <2>1, <3>1, <3>2, <3>3, StandingStep
  <2>5. Steady(r)
    <3>1. Handles(r, s0) /\ worker'[r].batch \cap Queued(s0) # {} => Twice(s0) \/ Waiting(s0)'
      <4>1. SUFFICES ASSUME worker[r].batch \cap Queued(s0) # {}, m \in Queued(s0),
                            ~\E x \in Replicas \ {r} : m \in Hands(x)
                     PROVE  Waiting(s0)'
        <5>1. worker[r].batch \cap Queued(s0) # {} => Hands(r) \cap Queued(s0) # {}
          BY <1>5
        <5> QED BY <1>5, <2>3, <5>1, FailedOnce
      <4>2. m \in Queued(s0)' /\ \A x \in Replicas : m \notin Hands(x)'
        BY <1>5, <2>1, <2>3, <4>1 DEF SameRequests
      <4> QED BY <4>2 DEF Waiting
    <3>2. \A s \in Shifts : ~Solves(r, s)'
      BY <1>5, <2>3 DEF Solves
    <3> QED BY <1>5, <2>3, <3>1, <3>2 DEF Steady
  <2>6. Aside(r)
    <3>1. worker[r].at # "insert" /\ worker'[r].at # "insert"
      BY <1>4, <1>5, <2>3 DEF ReplanPoints
    <3> QED BY <1>1, <1>5, <2>3, <3>1, ZeroIsNoId DEF Aside
  <2> QED BY <1>4, <2>1, <2>2, <2>3, <2>4, <2>5, <2>6, QuietMove, AsideMove DEF QueueIInv
<1> QED BY <1>6, <1>7

LEMMA FailEarlyHolds ==
  ASSUME QueueIInv, NEW r \in Replicas, NEW m \in Ids, FailEarly(r, m)
  PROVE  QueueIInv'
<1>1. PICK w : w = [worker[r] EXCEPT !.batch = @ \ {m},
                                     !.seen = @ \cup ({queue[m].subject} \cap Shifts)]
  OBVIOUS
<1>2. /\ QueueTyped /\ Standing /\ worker[r] \in Workers /\ InHandOf(r) /\ Counted
      /\ UNCHANGED <<held, run, settled, disturbed>> /\ Recount
      /\ worker[r].at = "batch" /\ m \in worker[r].batch /\ worker[r].msg = 0
      /\ queue[m].at # "unsent" /\ queue[m].subject \notin worker[r].seen
      /\ queue' = IF queue[m].reads >= MaxRetries THEN Archived(m) ELSE queue
  BY HoldsOf DEF FailEarly, InHandOf, Hands
<1>3. worker' = [worker EXCEPT ![r] = w]
  BY <1>1, <1>2 DEF FailEarly, QueueTyped, Workers
<1>4. /\ w \in Workers /\ w.at = "batch" /\ w.batch = worker[r].batch \ {m}
      /\ w.seen = worker[r].seen \cup ({queue[m].subject} \cap Shifts)
      /\ w.msg = 0 /\ w.answers = worker[r].answers /\ w.outcome = worker[r].outcome
  BY <1>1, <1>2 DEF Workers
<1>5. /\ Hands(r) = worker[r].batch \cup {m} /\ m \in Hands(r)
      /\ \A k \in Ids : queue[k].subject = OnDemand => worker[r].msg # k
      /\ \A s \in Shifts : ~Handles(r, s)
  BY <1>2, ZeroIsNoId DEF Hands, Handles, ReplanPoints
<1>6. /\ worker'[r] = w /\ Hands(r)' = Hands(r) \ {m}
      /\ \A x \in Replicas \ {r} : worker'[x] = worker[x] /\ Hands(x)' = Hands(x)
  <2>1. Hands(r)' = w.batch \cup ({w.msg} \ {0})
    BY <1>2, <1>3, <1>4, WorkerMoves
  <2>2. Hands(r) = worker[r].batch
    BY <1>2 DEF Hands
  <2> QED BY <1>2, <1>3, <1>4, <2>1, <2>2, WorkerMoves
<1>7. /\ settled' \subseteq Ids /\ \A k \in settled' : k \in settled
      /\ held' \in [Shifts -> Replicas \cup {Nobody}]
      /\ \A s \in Shifts, x \in Replicas \ {r} : held[s] = x => held'[s] = x
      /\ run' \in Runs /\ disturbed' \in BOOLEAN /\ settled \subseteq settled'
  BY <1>2 DEF QueueTyped
<1>8. CASE queue[m].reads >= MaxRetries /\ queue[m].subject \in Shifts
  <2>1. PICK s0 \in Shifts : s0 = queue[m].subject
    BY <1>8
  <2>2. queue' = Archived(m)
    BY <1>2, <1>8
  <2>3. ASSUME w.batch \cap Queued(s0) # {}
        PROVE  Twice(s0)
    <3>1. CASE m \in Queued(s0)
      <4>1. queue[m].reads <= tries[s0] /\ queue[m].reads \in Nat /\ tries[s0] \in Nat
        BY <1>2, <3>1 DEF Counted, QueueTyped, Messages
      <4> QED BY <1>8, <4>1, QueueAssumption DEF Twice
    <3>2. CASE m \notin Queued(s0)
      <4>1. m \in Requested(s0) /\ Hands(r) \cap Queued(s0) # {}
        BY <1>2, <1>4, <1>5, <2>1, <2>3 DEF Requested
      <4> QED BY <1>5, <3>2, <4>1, FailedOnce
    <3> QED BY <3>1, <3>2
  <2>4. Promises'
    <3>1. /\ w.seen \subseteq worker[r].seen \cup {s0}
          /\ \A s \in Shifts : Handles(r, s) => s = s0
      BY <1>4, <1>5, <2>1
    <3>2. Recount /\ settled \subseteq settled' /\ queue[m].subject = s0
      BY <1>2, <1>7, <2>1
    <3>3. /\ w \in Workers /\ w.at = "batch" /\ w.msg = 0 /\ w.batch = worker[r].batch \ {m}
          /\ m \in Hands(r) /\ Hands(r) = worker[r].batch \cup {m}
      BY <1>4, <1>5
    <3>4. /\ Handles(r, s0) \/ s0 \notin worker[r].seen
          /\ w.batch \cap Queued(s0) # {}
          /\ ~(Requested(s0) \subseteq settled')
          => Twice(s0) \/ Waiting(s0)
      BY <2>3
    <3> QED BY <1>3, <2>2, <3>1, <3>2, <3>3, <3>4, ArchivePromises
  <2>5. Standing' /\ RunStands'
    <3>1. /\ w \in Workers /\ w.at = "batch" /\ w.msg = 0 /\ w.batch = worker[r].batch \ {m}
          /\ m \in Hands(r) /\ Hands(r) = worker[r].batch \cup {m}
          /\ w.answers \subseteq worker[r].answers /\ queue[m].subject \in Shifts
      BY <1>4, <1>5, <1>8
    <3>2. Recount /\ UNCHANGED <<run, disturbed>>
      BY <1>2
    <3>3. \A k \in settled' : k \in settled \/ queue[k].at # "unsent"
      BY <1>7
    <3>4. \A k \in Ids : queue[k].subject = OnDemand => worker[r].msg # k
      BY <1>5
    <3> QED BY <1>3, <1>7, <2>2, <3>1, <3>2, <3>3, <3>4, ArchiveStands
  <2> QED BY <2>4, <2>5 DEF QueueIInv
<1>9. CASE ~(queue[m].reads >= MaxRetries /\ queue[m].subject \in Shifts)
  <2>1. /\ queue' \in [Ids -> Messages] /\ Kept
        /\ \A k \in Ids : queue'[k].at # queue[k].at => k = m /\ queue'[k].at = "gone"
        /\ \A s \in Shifts : Requested(s)' = Requested(s) /\ Queued(s)' = Queued(s)
    <3>1. CASE queue' = queue
      BY <1>2, <3>1, SameQueue DEF QueueTyped
    <3>2. CASE queue' = Archived(m) /\ queue[m].subject \notin Shifts
      BY <1>2, <3>2, ArchivedQueue, ArchivedOther DEF QueueTyped
    <3> QED BY <1>2, <1>9, <3>1, <3>2
  <2>2. SameRequests
    BY <2>1 DEF SameRequests, Kept, Queued, Requested
  <2>3. UNCHANGED tries
    <3>1. /\ tries' \in [Shifts -> 0..MaxRetries]
          /\ \A s \in Shifts : tries'[s] = IF Queued(s)' = {} THEN 0 ELSE tries[s]
      BY <1>2, RecountKeeps
    <3>2. \A s \in Shifts : tries'[s] = tries[s]
      BY <1>2, <2>1, <3>1 DEF Counted
    <3> QED BY <1>2, <3>1, <3>2 DEF QueueTyped
  <2>4. Standing'
    <3>1. tries' \in [Shifts -> 0..MaxRetries]
      BY <1>2, <2>3 DEF QueueTyped
    <3>2. /\ \A k \in w.batch \cup ({w.msg} \ {0}) : k \in Hands(r)
          /\ w.msg \notin w.batch /\ \A k \in w.answers : queue[k].at # "unsent"
      BY <1>2, <1>4, <1>5, ZeroIsNoId DEF InHandOf
    <3> QED BY <1>2, <1>3, <1>4, <1>7, <2>1, <3>1, <3>2, StandingStep DEF ReplanPoints, RunPoints
  <2>5. Steady(r)
    <3>1. ASSUME NEW s \in Shifts, s \in worker'[r].seen, s \notin worker[r].seen,
                 worker'[r].batch \cap Queued(s) # {}
          PROVE  Twice(s) \/ Waiting(s)'
      <4>1. s = queue[m].subject /\ m \in Requested(s)
        BY <1>2, <1>4, <1>6, <3>1 DEF Requested
      <4>2. Hands(r) \cap Queued(s) # {}
        BY <1>4, <1>5, <1>6, <3>1
      <4>3. SUFFICES ASSUME m \in Queued(s), ~\E x \in Replicas \ {r} : m \in Hands(x)
                     PROVE  Waiting(s)'
        BY <1>5, <4>1, <4>2, FailedOnce
      <4>4. m \in Queued(s)' /\ \A x \in Replicas : m \notin Hands(x)'
        BY <1>6, <2>1, <4>3
      <4> QED BY <4>4 DEF Waiting
    <3>2. \A s \in Shifts : ~Solves(r, s)'
      BY <1>4, <1>6 DEF Solves
    <3>3. Hands(r)' \subseteq Hands(r) /\ worker'[r].batch \subseteq worker[r].batch
      BY <1>4, <1>6
    <3> QED BY <1>5, <3>1, <3>2, <3>3 DEF Steady
  <2>6. RunStands'
    <3>1. Aside(r)
      BY <1>2, <1>4, <1>5, <1>6, ZeroIsNoId DEF Aside
    <3>2. ASSUME NEW k \in Ids, queue[k].subject = OnDemand, queue'[k].at # queue[k].at
          PROVE  queue'[k].at = "gone" /\ (~disturbed' => \A x \in Replicas : k \notin Hands(x)')
      <4>1. k = m /\ queue'[k].at = "gone"
        BY <2>1, <3>2
      <4>2. ~disturbed => \A x \in Replicas \ {r} : m \notin Hands(x)
        <5>1. OneHandler
          BY HoldsOf
        <5> QED BY <1>5, <3>2, <4>1, <5>1 DEF OneHandler
      <4> QED BY <1>2, <1>6, <4>1, <4>2
    <3>3. \A x \in Replicas : Aside(x)
      BY <1>6, <3>1, AsideOther
    <3> QED BY <1>2, <2>1, <3>2, <3>3, RunUntouched DEF Kept, QueueIInv
  <2> QED BY <1>6, <1>7, <2>1, <2>2, <2>3, <2>4, <2>5, <2>6, QuietMove DEF QueueIInv
<1> QED BY <1>8, <1>9

LEMMA AbandonHolds ==
  ASSUME QueueIInv, NEW r \in Replicas, Abandon(r)
  PROVE  QueueIInv'
<1>1. /\ QueueTyped /\ Standing /\ worker[r] \in Workers /\ InHandOf(r)
      /\ UNCHANGED <<queue, held, run, settled, tries, disturbed>>
      /\ worker[r].at = "batch" /\ worker[r].msg = 0
      /\ worker' = [worker EXCEPT ![r] = NoDrain]
  BY HoldsOf DEF Abandon, histVars, InHandOf
<1>2. /\ NoDrain \in Workers /\ NoDrain.at = "idle" /\ NoDrain.batch = {} /\ NoDrain.seen = {}
      /\ NoDrain.msg = 0 /\ NoDrain.answers = {}
  BY DEF Workers, NoDrain
<1>3. Standing' /\ Kept
  BY <1>1, <1>2, SameQueue, StandingStep
     DEF Standing, QueueTyped, ReplanPoints, RunPoints
<1>4. /\ worker'[r] = NoDrain /\ Hands(r)' = {}
      /\ \A x \in Replicas \ {r} : worker'[x] = worker[x]
  BY <1>1, <1>2, WorkerMoves
<1>5. Steady(r)
  BY <1>2, <1>4 DEF Steady, Solves
<1>6. SameRequests
  BY <1>1, SameQueue DEF SameRequests
<1>7. Aside(r)
  BY <1>1, <1>2, <1>4, ZeroIsNoId DEF Aside
<1> QED BY <1>1, <1>3, <1>4, <1>5, <1>6, <1>7, QuietMove, AsideMove DEF QueueIInv

LEMMA ReadBatchHolds ==
  ASSUME QueueIInv, NEW r \in Replicas, ReadBatch(r)
  PROVE  QueueIInv'
<1> DEFINE visible == {m \in Ids : queue[m].at = "visible"}
           B0 == {m \in visible : Cardinality({k \in visible : k < m}) < BatchSize}
           Read(q) == [q EXCEPT !.at = "hidden", !.reads = IF @ < MaxRetries THEN @ + 1 ELSE @]
<1>1. PICK B : B = B0
  OBVIOUS
<1>2. /\ worker[r].at = "read" /\ B # {} /\ B \subseteq visible
      /\ queue' = [m \in Ids |-> IF m \in B THEN Read(queue[m]) ELSE queue[m]]
      /\ worker' = [worker EXCEPT ![r].at = "batch", ![r].batch = B]
      /\ tries' = [s \in Shifts |->
                     IF (\E m \in B : queue[m].subject = s) /\ tries[s] < MaxRetries
                     THEN tries[s] + 1 ELSE tries[s]]
      /\ UNCHANGED <<held, run, settled, disturbed>>
  BY <1>1 DEF ReadBatch
<1> DEFINE w == [worker[r] EXCEPT !.at = "batch", !.batch = B]
<1>3. /\ QueueTyped /\ Standing /\ worker[r] \in Workers /\ InHand /\ InHandOf(r) /\ Settlement
      /\ Counted /\ TwoHands /\ Answering /\ Deferred /\ Promises
      /\ OneTransaction /\ OneLeftover /\ OneHandler
      /\ worker[r].batch = {} /\ worker[r].seen = {} /\ worker[r].msg = 0 /\ Hands(r) = {}
      /\ B \subseteq Ids /\ \A m \in B : queue[m].at = "visible"
  BY <1>2, HoldsOf DEF InHandOf, Hands
<1>4. /\ w \in Workers /\ w.at = "batch" /\ w.batch = B
      /\ w.seen = {} /\ w.msg = 0 /\ w.answers = worker[r].answers
  BY <1>3 DEF Workers
<1>5. worker' = [worker EXCEPT ![r] = w]
  BY <1>2, <1>3 DEF QueueTyped
<1> HIDE DEF w
<1>6. /\ worker'[r] = w /\ Hands(r)' = B /\ worker' \in [Replicas -> Workers]
      /\ \A x \in Replicas \ {r} : worker'[x] = worker[x] /\ Hands(x)' = Hands(x)
  <2>1. /\ worker'[r] = w /\ Hands(r)' = w.batch \cup ({w.msg} \ {0})
        /\ \A x \in Replicas \ {r} : worker'[x] = worker[x]
        /\ \A x \in Replicas \ {r} : Hands(x)' = Hands(x)
        /\ worker' \in [Replicas -> Workers]
    BY <1>3, <1>4, <1>5, WorkerMoves
  <2>2. w.batch \cup ({w.msg} \ {0}) = B
    BY <1>4
  <2> QED BY <2>1, <2>2
<1>7. /\ queue' \in [Ids -> Messages]
      /\ \A m \in Ids : /\ queue'[m].subject = queue[m].subject
                        /\ queue[m].at = "unsent" <=> queue'[m].at = "unsent"
                        /\ queue'[m].at \in {"visible", "hidden"} <=> Live(m)
                        /\ queue'[m].reads \in Nat /\ queue[m].reads \in Nat
                        /\ queue'[m].reads >= queue[m].reads
                        /\ m \in B => /\ queue'[m].at = "hidden" /\ queue'[m].reads >= 1
                                      /\ queue'[m].reads <= MaxRetries
                                      /\ queue'[m].reads <= queue[m].reads + 1
                        /\ m \notin B => queue'[m] = queue[m]
  <2>1. ASSUME NEW m \in Ids
        PROVE  /\ queue'[m] \in Messages
               /\ queue'[m].subject = queue[m].subject
               /\ queue[m].at = "unsent" <=> queue'[m].at = "unsent"
               /\ queue'[m].at \in {"visible", "hidden"} <=> Live(m)
               /\ queue'[m].reads \in Nat /\ queue[m].reads \in Nat
               /\ queue'[m].reads >= queue[m].reads
               /\ m \in B => /\ queue'[m].at = "hidden" /\ queue'[m].reads >= 1
                             /\ queue'[m].reads <= MaxRetries
                             /\ queue'[m].reads <= queue[m].reads + 1
               /\ m \notin B => queue'[m] = queue[m]
    <3>1. queue[m] \in Messages /\ MaxRetries \in Nat /\ MaxRetries >= 1
      BY <1>3, QueueAssumption DEF QueueTyped
    <3>2. CASE m \notin B
      <4>1. queue'[m] = queue[m]
        BY <1>2, <3>2
      <4> QED BY <3>1, <3>2, <4>1 DEF Messages, Live
    <3>3. CASE m \in B
      <4>1. queue'[m] = Read(queue[m]) /\ queue[m].at = "visible"
        BY <1>2, <1>3, <3>3
      <4>2. PICK n : n = IF queue[m].reads < MaxRetries THEN queue[m].reads + 1 ELSE queue[m].reads
        OBVIOUS
      <4>3. queue'[m] = [queue[m] EXCEPT !.at = "hidden", !.reads = n]
        BY <4>1, <4>2
      <4>4. /\ queue[m].reads \in Nat /\ queue[m].reads <= MaxRetries
            /\ n \in 0..MaxRetries /\ n \in Nat /\ n >= 1 /\ n >= queue[m].reads
            /\ n <= queue[m].reads + 1
        BY <3>1, <4>2 DEF Messages
      <4>5. /\ queue'[m] \in Messages /\ queue'[m].subject = queue[m].subject
            /\ queue'[m].at = "hidden" /\ queue'[m].reads = n
        BY <3>1, <4>3, <4>4 DEF Messages
      <4> QED BY <3>1, <3>3, <4>1, <4>4, <4>5 DEF Live
    <3> QED BY <3>2, <3>3
  <2> QED BY <1>2, <2>1
<1> HIDE DEF Read, B0, visible
<1>8. \A s \in Shifts : /\ Requested(s)' = Requested(s) /\ Queued(s)' = Queued(s)
                        /\ \A m \in B : queue[m].subject = s => m \in Queued(s)
  <2>1. \A s \in Shifts : Requested(s)' = Requested(s)
    BY <1>7 DEF Requested
  <2>2. \A m \in Ids : Live(m)' <=> Live(m)
    BY <1>7 DEF Live
  <2>3. \A s \in Shifts : Queued(s)' = Queued(s)
    BY <2>1, <2>2 DEF Queued, Requested
  <2>4. \A s \in Shifts : \A m \in B : queue[m].subject = s => m \in Queued(s)
    BY <1>3 DEF Queued, Requested, Live
  <2> QED BY <2>1, <2>3, <2>4
<1>9. /\ tries' \in [Shifts -> 0..MaxRetries]
      /\ \A s \in Shifts : /\ tries[s] \in Nat /\ tries'[s] \in Nat /\ tries'[s] >= tries[s]
                           /\ \A m \in B : queue[m].subject = s =>
                                tries'[s] = tries[s] + 1 \/ tries'[s] >= MaxRetries
                           /\ (\A m \in B : queue[m].subject # s) => tries'[s] = tries[s]
  BY <1>2, <1>3, QueueAssumption DEF QueueTyped
<1>10. \A s \in Shifts : Twice(s) => Twice(s)'
  BY <1>9, QueueAssumption DEF Twice
<1>11. Standing'
  <2>1. QueueTyped'
    BY <1>2, <1>3, <1>6, <1>7, <1>9 DEF QueueTyped
  <2>2. InHandOf(r)'
    <3>1. \A m \in B : queue'[m].at # "unsent" /\ queue'[m].reads >= 1
      BY <1>3, <1>7
    <3>2. \A m \in w.answers : queue'[m].at # "unsent"
      BY <1>3, <1>4, <1>7 DEF InHandOf, Workers
    <3>3. 0 \notin B
      BY <1>3, ZeroIsNoId
    <3> QED BY <1>4, <1>6, <3>1, <3>2, <3>3 DEF InHandOf, ReplanPoints, RunPoints
  <2>3. InHand'
    <3>1. \A s \in Shifts, x \in Replicas \ {r} : held[s] = x => held'[s] = x
      BY <1>2
    <3>2. \A m \in Ids : queue[m].at # "unsent" =>
            /\ queue'[m].at # "unsent" /\ queue'[m].subject = queue[m].subject
            /\ queue'[m].reads \in Nat /\ queue'[m].reads >= queue[m].reads
      BY <1>7
    <3> QED BY <1>3, <1>6, <2>2, <3>1, <3>2, OthersInHand
  <2>4. Settlement'
    BY <1>2, <1>3, <1>7 DEF Settlement, QueueTyped
  <2> QED BY <2>1, <2>3, <2>4 DEF Standing
<1>12. \A x \in Replicas \ {r}, s \in Shifts : /\ Handles(x, s)' <=> Handles(x, s)
                                               /\ Solves(x, s)' <=> Solves(x, s)
  BY <1>2, <1>3, <1>6, <1>7, SteadyOther
<1>13. Counted'
  <2>1. ASSUME NEW s \in Shifts
        PROVE  /\ Queued(s)' = {} => tries'[s] = 0
               /\ \A m \in Queued(s)' : queue'[m].reads <= tries'[s]
    <3>1. Queued(s)' = {} => tries'[s] = 0
      <4>1. Queued(s)' = {} => tries[s] = 0 /\ \A m \in B : queue[m].subject # s
        BY <1>3, <1>8 DEF Counted
      <4> QED BY <1>9, <4>1
    <3>2. ASSUME NEW m \in Queued(s)'
          PROVE  queue'[m].reads <= tries'[s]
      <4>1. m \in Queued(s) /\ m \in Ids /\ queue[m].subject = s /\ queue[m].reads <= tries[s]
        BY <1>3, <1>8, <3>2 DEF Counted, Queued, Requested
      <4>2. CASE m \in B
        BY <1>7, <1>9, <4>1, <4>2, QueueAssumption
      <4>3. CASE m \notin B
        BY <1>7, <1>9, <4>1, <4>3
      <4> QED BY <4>2, <4>3
    <3> QED BY <3>1, <3>2
  <2> QED BY <2>1 DEF Counted
<1>14. TwoHands'
  (* Whoever had a message of the shift has had it read before.            *)
  <2>1. ASSUME NEW s \in Shifts, NEW k \in B, queue[k].subject = s,
               NEW x \in Replicas \ {r}, NEW j \in Hands(x) \cap Queued(s)
        PROVE  Twice(s)'
    <3>1. j \in Ids /\ queue[j].reads >= 1 /\ queue[j].reads <= tries[s]
      BY <1>3, <2>1, HandsTyped DEF InHand, InHandOf, Counted
    <3>2. tries[s] >= 1
      BY <1>7, <1>9, <3>1
    <3> QED BY <1>9, <2>1, <3>2 DEF Twice
  <2>2. ASSUME NEW s \in Shifts, NEW x \in Replicas, NEW k \in Hands(x)' \cap Queued(s)'
        PROVE  /\ \A y \in Replicas \ {x} : Hands(y)' \cap Queued(s)' # {} => Twice(s)'
               /\ (Hands(x)' \cap Requested(s)') \ Queued(s)' # {} => Twice(s)'
    <3>1. k \in Queued(s) /\ queue[k].subject = s
      BY <1>8, <2>2 DEF Queued, Requested
    <3>2. CASE x = r
      <4>1. k \in B
        BY <1>6, <2>2, <3>2
      <4>2. \A y \in Replicas \ {x} : Hands(y)' \cap Queued(s)' # {} => Twice(s)'
        BY <1>6, <1>8, <2>1, <3>1, <3>2, <4>1
      <4>3. B \cap Requested(s) \subseteq Queued(s)
        BY <1>8 DEF Requested
      <4> QED BY <1>6, <1>8, <3>2, <4>2, <4>3
    <3>3. CASE x # r
      <4>1. k \in Hands(x)
        BY <1>6, <2>2, <3>3
      <4>2. /\ \A y \in Replicas \ {x} : Hands(y) \cap Queued(s) # {} => Twice(s)
            /\ (Hands(x) \cap Requested(s)) \ Queued(s) # {} => Twice(s)
        BY <1>3, <3>1, <4>1 DEF TwoHands
      <4>3. Hands(r)' \cap Queued(s)' # {} => Twice(s)'
        <5>1. ASSUME NEW j \in B \cap Queued(s) PROVE Twice(s)'
          BY <2>1, <3>1, <3>3, <4>1, <5>1 DEF Queued, Requested
        <5> QED BY <1>6, <1>8, <5>1
      <4> QED BY <1>6, <1>8, <1>10, <3>3, <4>2, <4>3
    <3> QED BY <3>2, <3>3
  <2> QED BY <2>2 DEF TwoHands
<1>15. Answering'
  <2>1. ASSUME NEW s \in Shifts, NEW y \in Replicas, Solves(y, s)'
        PROVE  /\ \/ Requested(s)' \ (worker'[y].answers \cup settled') \subseteq Queued(s)'
                  \/ Twice(s)'
                  \/ worker'[y].msg \notin Queued(s)'
               /\ Hands(y)' \cap Requested(s)' \subseteq worker'[y].answers
               /\ worker'[y].at = "solved" => worker'[y].answers \subseteq settled'
    <3>1. y # r
      BY <1>4, <1>6, <2>1 DEF Solves
    <3>2. Solves(y, s) /\ worker'[y] = worker[y] /\ Hands(y)' = Hands(y)
      BY <1>6, <1>12, <2>1, <3>1
    <3>3. /\ \/ Requested(s) \ (worker[y].answers \cup settled) \subseteq Queued(s)
             \/ Twice(s)
             \/ worker[y].msg \notin Queued(s)
          /\ Hands(y) \cap Requested(s) \subseteq worker[y].answers
          /\ worker[y].at = "solved" => worker[y].answers \subseteq settled
      BY <1>3, <3>2 DEF Answering
    <3>4. /\ settled' = settled /\ Requested(s)' = Requested(s) /\ Queued(s)' = Queued(s)
          /\ Twice(s) => Twice(s)'
      BY <1>2, <1>8, <1>10
    <3> QED BY <3>2, <3>3, <3>4
  <2> QED BY <2>1 DEF Answering
<1>16. Deferred'
  <2>1. ASSUME NEW s \in Shifts, NEW x \in Replicas, s \in worker'[x].seen,
               worker'[x].batch \cap Queued(s)' # {}, ~(Requested(s)' \subseteq settled')
        PROVE  Twice(s)' \/ Handles(x, s)' \/ Waiting(s)'
    <3>1. x # r /\ worker'[x] = worker[x]
      BY <1>4, <1>6, <2>1
    <3>2. Twice(s) \/ Handles(x, s) \/ Waiting(s)
      BY <1>2, <1>3, <1>8, <2>1, <3>1 DEF Deferred
    <3>3. Waiting(s) => Twice(s)' \/ Waiting(s)'
      <4>1. SUFFICES ASSUME NEW k \in Queued(s), \A z \in Replicas : k \notin Hands(z)
                     PROVE  Twice(s)' \/ Waiting(s)'
        BY DEF Waiting
      <4>2. CASE k \notin B
        BY <1>6, <1>8, <4>1, <4>2 DEF Waiting
      <4>3. CASE k \in B
        <5>1. Hands(x)' \cap Queued(s)' # {}
          BY <2>1, <3>1, <1>6, <1>3, HandsTyped
        <5>2. k \in Hands(r)' \cap Queued(s)'
          BY <1>6, <1>8, <4>1, <4>3
        <5> QED BY <1>14, <3>1, <5>1, <5>2 DEF TwoHands
      <4> QED BY <4>2, <4>3
    <3> QED BY <1>10, <1>12, <3>1, <3>2, <3>3
  <2> QED BY <2>1 DEF Deferred
<1>17. OneTransaction' /\ OneLeftover'
  BY <1>2, <1>3, <1>4, <1>6, <1>7 DEF OneTransaction, OneLeftover
<1>18. OneHandler'
  <2>1. SUFFICES ASSUME ~disturbed
                 PROVE  OneHandler'
    BY <1>2 DEF OneHandler
  <2>2. ASSUME NEW m \in Ids, queue[m].subject = OnDemand, m \in B
        PROVE  /\ \A x \in Replicas : m \notin Hands(x) /\ worker[x].msg # m
               /\ run.status = "queued" /\ run.packages = "pending"
    <3>1. \A x \in Replicas : m \notin Hands(x) /\ worker[x].msg # m
      BY <1>3, <2>1, <2>2, ZeroIsNoId DEF OneHandler, Hands
    <3> QED BY <1>3, <2>1, <2>2, <3>1 DEF OneHandler
  <2>3. 0 \notin Ids
    BY ZeroIsNoId
  <2>4. ASSUME NEW m \in Ids, queue[m].subject = OnDemand, m \notin B
        PROVE  /\ queue'[m] = queue[m]
               /\ \A x \in Replicas : /\ m \in Hands(x)' <=> m \in Hands(x)
                                      /\ worker'[x].msg = m <=> worker[x].msg = m
                                      /\ worker[x].msg = m => worker'[x] = worker[x]
    BY <1>3, <1>4, <1>6, <1>7, <2>3, <2>4
  <2> QED BY <1>2, <1>3, <1>4, <1>6, <1>7, <2>1, <2>2, <2>3, <2>4 DEF OneHandler
<1> QED BY <1>11, <1>13, <1>14, <1>15, <1>16, <1>17, <1>18 DEF QueueIInv, Promises, RunStands

LEMMA EnqueueHolds ==
  ASSUME QueueIInv, EnqueueReplans
  PROVE  QueueIInv'
<1>1. /\ QueueTyped /\ Standing /\ InHand /\ Settlement /\ Promises
      /\ Counted /\ TwoHands /\ Answering /\ Deferred
      /\ RunStands /\ OneTransaction /\ OneLeftover /\ OneHandler
      /\ UNCHANGED <<worker, held, run, settled, tries, disturbed>>
  BY DEF QueueIInv, Standing, Promises, RunStands, EnqueueReplans, histVars
<1>2. PICK new, f : /\ new \subseteq {m \in Ids : queue[m].at = "unsent"}
                    /\ \A m \in new : f[m] \in Shifts
                    /\ queue' = [m \in Ids |-> IF m \in new THEN Sent(f[m]) ELSE queue[m]]
  <2>1. PICK shifts \in SUBSET Shifts : Enqueue(shifts)
    BY DEF EnqueueReplans
  <2> DEFINE unused == {m \in Ids : queue[m].at = "unsent"}
             fresh == {m \in unused : Cardinality({k \in unused : k < m}) < Cardinality(shifts)}
  <2>2. PICK f \in Bijection(fresh, shifts) :
          queue' = [m \in Ids |-> IF m \in fresh THEN Sent(f[m]) ELSE queue[m]]
    BY <2>1 DEF Enqueue
  <2>3. f \in [fresh -> shifts]
    BY <2>2 DEF Bijection, Injection
  <2>4. fresh \subseteq unused /\ \A m \in fresh : f[m] \in Shifts
    BY <2>3
  <2> QED BY <2>2, <2>4
<1>3. /\ queue' \in [Ids -> Messages] /\ new \subseteq Ids
      /\ \A m \in Ids \ new : queue'[m] = queue[m]
      /\ \A m \in new : /\ queue[m].at = "unsent" /\ queue'[m].subject \in Shifts
                        /\ queue'[m].at = "visible" /\ queue'[m].reads = 0
  <2>1. ASSUME NEW m \in Ids
        PROVE  /\ queue'[m] \in Messages
               /\ m \notin new => queue'[m] = queue[m]
               /\ m \in new => /\ queue'[m].subject \in Shifts
                               /\ queue'[m].at = "visible" /\ queue'[m].reads = 0
    <3>1. CASE m \in new
      <4>1. queue'[m] = Sent(f[m]) /\ f[m] \in Shifts
        BY <1>2, <3>1
      <4>2. Sent(f[m]) \in Messages
        BY <4>1, NothingSent DEF Subjects
      <4> QED BY <3>1, <4>1, <4>2 DEF Sent
    <3>2. CASE m \notin new
      BY <1>1, <1>2, <3>2 DEF QueueTyped
    <3> QED BY <3>1, <3>2
  <2> QED BY <1>2, <2>1
<1>4. \A x \in Replicas : /\ worker[x] \in Workers /\ InHandOf(x)
                          /\ Hands(x) \subseteq Ids /\ Hands(x)' = Hands(x)
                          /\ \A m \in Hands(x) : m \notin new
                          /\ \A m \in worker[x].answers : m \notin new
                          /\ worker[x].batch \subseteq Hands(x)
                          /\ worker[x].msg # 0 => worker[x].msg \in Hands(x)
  <2>1. ASSUME NEW x \in Replicas
        PROVE  /\ worker[x] \in Workers /\ InHandOf(x)
               /\ Hands(x) \subseteq Ids /\ Hands(x)' = Hands(x)
               /\ worker[x].batch \subseteq Hands(x)
               /\ worker[x].msg # 0 => worker[x].msg \in Hands(x)
    BY <1>1, HandsTyped DEF InHand, Hands
  <2> QED BY <1>3, <2>1 DEF InHandOf
<1>5. \A s \in Shifts : /\ Requested(s) \subseteq Requested(s)' /\ Queued(s) \subseteq Queued(s)'
                        /\ Requested(s)' \ Requested(s) \subseteq new
                        /\ Requested(s)' \cap new \subseteq Queued(s)'
                        /\ Queued(s)' \ new = Queued(s)
                        /\ \A m \in Queued(s) : queue'[m] = queue[m]
  <2>1. ASSUME NEW s \in Shifts
        PROVE  /\ Requested(s) \subseteq Requested(s)' /\ Queued(s) \subseteq Queued(s)'
               /\ Requested(s)' \ Requested(s) \subseteq new
               /\ Requested(s)' \cap new \subseteq Queued(s)'
               /\ Queued(s)' \ new = Queued(s)
               /\ \A m \in Queued(s) : queue'[m] = queue[m]
    <3>1. Requested(s) \cap new = {}
      BY <1>3 DEF Requested
    <3>2. \A m \in Ids \ new : /\ m \in Requested(s)' <=> m \in Requested(s)
                               /\ m \in Queued(s)' <=> m \in Queued(s)
      BY <1>3 DEF Requested, Queued, Live
    <3>3. \A m \in new : m \in Requested(s)' => m \in Queued(s)'
      BY <1>3 DEF Queued, Live
    <3>4. Requested(s) \subseteq Ids /\ Requested(s)' \subseteq Ids
          /\ Queued(s) \subseteq Requested(s) /\ Queued(s)' \subseteq Requested(s)'
      BY DEF Requested, Queued
    <3> QED BY <1>3, <3>1, <3>2, <3>3, <3>4
  <2> QED BY <2>1
<1>6. Standing'
  <2>1. QueueTyped'
    BY <1>1, <1>3 DEF QueueTyped
  <2>2. ASSUME NEW x \in Replicas PROVE InHandOf(x)'
    <3>1. /\ \A m \in Hands(x) : queue'[m] = queue[m]
          /\ \A m \in worker[x].answers : queue'[m] = queue[m]
      BY <1>3, <1>4 DEF Workers
    <3>2. worker[x].msg # 0 => Subject(x)' = Subject(x)
      BY <1>1, <1>4, <3>1 DEF Subject
    <3> QED BY <1>1, <1>4, <3>1, <3>2 DEF InHandOf, ReplanPoints, RunPoints
  <2>3. Settlement'
    BY <1>1, <1>3 DEF Settlement, QueueTyped
  <2> QED BY <2>1, <2>2, <2>3 DEF Standing, InHand
<1>7. \A s \in Shifts : Twice(s)' <=> Twice(s)
  BY <1>1 DEF Twice
<1>8. \A x \in Replicas, s \in Shifts : /\ Handles(x, s)' <=> Handles(x, s)
                                        /\ Solves(x, s)' <=> Solves(x, s)
  <2>1. \A m \in Ids : queue[m].at # "unsent" => queue'[m].subject = queue[m].subject
    BY <1>3
  <2> QED BY <1>1, <2>1, SteadyOther
<1>9. Counted'
  <2>1. ASSUME NEW s \in Shifts
        PROVE  /\ Queued(s)' = {} => tries'[s] = 0
               /\ \A m \in Queued(s)' : queue'[m].reads <= tries'[s]
    <3>1. tries'[s] = tries[s] /\ tries[s] \in Nat
      BY <1>1 DEF QueueTyped
    <3> QED BY <1>1, <1>3, <1>5, <3>1 DEF Counted
  <2> QED BY <2>1 DEF Counted
<1>10. \A x \in Replicas, s \in Shifts :
         /\ Hands(x)' \cap Queued(s)' = Hands(x) \cap Queued(s)
         /\ Hands(x)' \cap Requested(s)' = Hands(x) \cap Requested(s)
         /\ worker'[x].batch \cap Queued(s)' = worker[x].batch \cap Queued(s)
         /\ worker'[x].batch \cap Requested(s)' = worker[x].batch \cap Requested(s)
  BY <1>1, <1>4, <1>5
<1>11. TwoHands'
  <2>1. ASSUME NEW s \in Shifts, NEW x \in Replicas, NEW k \in Hands(x)' \cap Queued(s)'
        PROVE  /\ \A y \in Replicas \ {x} : Hands(y)' \cap Queued(s)' # {} => Twice(s)'
               /\ (Hands(x)' \cap Requested(s)') \ Queued(s)' # {} => Twice(s)'
    <3>1. k \in Hands(x) \cap Queued(s)
      BY <1>10, <2>1
    <3>2. /\ \A y \in Replicas \ {x} : Hands(y) \cap Queued(s) # {} => Twice(s)
          /\ (Hands(x) \cap Requested(s)) \ Queued(s) # {} => Twice(s)
      BY <1>1, <3>1 DEF TwoHands
    <3> QED BY <1>5, <1>7, <1>10, <3>2
  <2> QED BY <2>1 DEF TwoHands
<1>12. Answering'
  <2>1. ASSUME NEW s \in Shifts, NEW y \in Replicas, Solves(y, s)'
        PROVE  /\ \/ Requested(s)' \ (worker'[y].answers \cup settled') \subseteq Queued(s)'
                  \/ Twice(s)'
                  \/ worker'[y].msg \notin Queued(s)'
               /\ Hands(y)' \cap Requested(s)' \subseteq worker'[y].answers
               /\ worker'[y].at = "solved" => worker'[y].answers \subseteq settled'
    <3>1. Solves(y, s)
      BY <1>8, <2>1
    <3>2. /\ \/ Requested(s) \ (worker[y].answers \cup settled) \subseteq Queued(s)
             \/ Twice(s)
             \/ worker[y].msg \notin Queued(s)
          /\ Hands(y) \cap Requested(s) \subseteq worker[y].answers
          /\ worker[y].at = "solved" => worker[y].answers \subseteq settled
      BY <1>1, <3>1 DEF Answering
    <3>3. CASE Requested(s) \ (worker[y].answers \cup settled) \subseteq Queued(s)
      <4>1. Requested(s)' \ (worker[y].answers \cup settled) \subseteq Queued(s)'
        BY <1>5, <3>3
      <4> QED BY <1>1, <1>10, <3>2, <4>1
    <3>4. CASE Twice(s)
      BY <1>1, <1>7, <1>10, <3>2, <3>4
    <3>5. CASE worker[y].msg \notin Queued(s)
      <4>1. worker[y].msg \notin Queued(s)'
        <5>1. worker[y].msg # 0 => worker[y].msg \notin new
          BY <1>4
        <5> QED BY <1>5, <3>5, <5>1, ZeroIsNoId DEF Queued, Requested
      <4> QED BY <1>1, <1>10, <3>2, <4>1
    <3> QED BY <3>2, <3>3, <3>4, <3>5
  <2> QED BY <2>1 DEF Answering
<1>13. Deferred'
  <2>1. ASSUME NEW s \in Shifts, NEW x \in Replicas, s \in worker'[x].seen,
               worker'[x].batch \cap Queued(s)' # {}, ~(Requested(s)' \subseteq settled')
        PROVE  Twice(s)' \/ Handles(x, s)' \/ Waiting(s)'
    <3>1. Waiting(s) => Waiting(s)'
      BY <1>4, <1>5 DEF Waiting
    <3>2. CASE Requested(s) \subseteq settled
      <4>1. PICK k \in Requested(s)' : k \notin settled'
        BY <2>1
      <4>2. k \in new /\ k \in Queued(s)'
        BY <1>1, <1>5, <3>2, <4>1
      <4>3. \A z \in Replicas : k \notin Hands(z)'
        BY <1>4, <4>2
      <4> QED BY <4>2, <4>3 DEF Waiting
    <3>3. CASE ~(Requested(s) \subseteq settled)
      <4>1. Twice(s) \/ Handles(x, s) \/ Waiting(s)
        BY <1>1, <1>10, <2>1, <3>3 DEF Deferred
      <4> QED BY <1>7, <1>8, <3>1, <4>1
    <3> QED BY <3>2, <3>3
  <2> QED BY <2>1 DEF Deferred
<1>14. RunStands'
  <2>1. \A m \in Ids : queue[m].subject = OnDemand => m \notin new
    BY <1>1, <1>3 DEF OneLeftover
  <2>2. \A m \in new : queue'[m].subject # OnDemand
    BY <1>3, QueueAssumption
  <2>3. \A m \in Ids : /\ queue'[m].subject = OnDemand <=> queue[m].subject = OnDemand
                       /\ queue[m].subject = OnDemand => queue'[m].at = queue[m].at
    BY <1>3, <2>1, <2>2
  <2>4. \A x \in Replicas : Aside(x)
    BY <1>1, AsideOther
  <2> QED BY <1>1, <2>3, <2>4, RunUntouched
<1> QED BY <1>6, <1>9, <1>11, <1>12, <1>13, <1>14 DEF QueueIInv, Promises

-----------------------------------------------------------------------------
(* The invariant.                                                          *)

LEMMA QueueInitHolds == QueueInit => QueueIInv
<1> SUFFICES ASSUME QueueInit
             PROVE  QueueIInv
  OBVIOUS
<1>1. PICK l \in Leftovers :
        queue = [m \in Ids |-> IF m <= Len(l) THEN Sent(l[m]) ELSE Unsent]
  BY DEF QueueInit
<1>2. /\ l \in Seq({OnDemand, Nightly}) /\ Len(l) \in Nat
      /\ \A i, j \in 1..Len(l) : l[i] = OnDemand /\ l[j] = OnDemand => i = j
      /\ \A i \in 1..Len(l) : l[i] \in {OnDemand, Nightly}
  BY <1>1, QueueAssumption
<1>3. ASSUME NEW m \in Ids
      PROVE  /\ queue[m] \in Messages /\ queue[m].reads = 0
             /\ queue[m].subject \in {OnDemand, Nightly}
             /\ queue[m].at \in {"visible", "unsent"}
             /\ queue[m].subject = OnDemand =>
                  m \in 1..Len(l) /\ l[m] = OnDemand /\ queue[m].at # "unsent"
  <2>1. CASE m <= Len(l)
    <3>1. m \in 1..Len(l) /\ l[m] \in {OnDemand, Nightly} /\ queue[m] = Sent(l[m])
      BY <1>1, <1>2, <2>1 DEF Ids
    <3>2. Sent(l[m]) \in Messages
      BY <3>1, NothingSent DEF Subjects
    <3> QED BY <3>1, <3>2 DEF Sent
  <2>2. CASE ~(m <= Len(l))
    <3>1. queue[m] = Unsent
      BY <1>1, <2>2
    <3> QED BY <3>1, NothingSent, QueueAssumption DEF Unsent
  <2> QED BY <2>1, <2>2
<1>4. \A r \in Replicas : /\ worker[r] = NoDrain /\ Hands(r) = {}
                          /\ \A s \in Shifts : ~Solves(r, s)
  BY DEF QueueInit, NoDrain, Hands, Solves
<1>5. \A s \in Shifts : Requested(s) = {} /\ Queued(s) = {}
  BY <1>3, QueueAssumption DEF Requested, Queued
<1>6. Standing
  <2>1. NoDrain \in Workers
    BY DEF NoDrain, Workers
  <2>2. /\ run \in Runs /\ tries \in [Shifts -> 0..MaxRetries]
        /\ held \in [Shifts -> Replicas \cup {Nobody}]
        /\ settled = {} /\ disturbed = FALSE /\ worker \in [Replicas -> Workers]
    BY <2>1, QueueAssumption DEF QueueInit, Runs
  <2>3. queue \in [Ids -> Messages]
    BY <1>1, <1>3
  <2>4. InHand
    BY <1>4 DEF InHand, InHandOf, NoDrain, ReplanPoints, RunPoints
  <2> QED BY <2>2, <2>3, <2>4 DEF Standing, QueueTyped, Settlement
<1>7. Promises
  <2>1. Counted
    BY <1>5 DEF QueueInit, Counted
  <2>2. TwoHands /\ Answering /\ Deferred
    BY <1>4, <1>5 DEF TwoHands, Answering, Deferred
  <2> QED BY <2>1, <2>2 DEF Promises
<1>8. RunStands
  <2>1. OneTransaction
    BY <1>4 DEF QueueInit, OneTransaction, NoDrain
  <2>2. OneLeftover
    BY <1>2, <1>3 DEF QueueInit, OneLeftover
  <2>3. OneHandler
    BY <1>4, ZeroIsNoId DEF QueueInit, OneHandler, NoDrain
  <2> QED BY <2>1, <2>2, <2>3 DEF RunStands
<1> QED BY <1>6, <1>7, <1>8 DEF QueueIInv

LEMMA QueueStepHolds ==
  ASSUME QueueIInv, [QueueNext]_queueVars
  PROVE  QueueIInv'
<1>1. CASE EnqueueReplans
  BY <1>1, EnqueueHolds
<1>2. ASSUME NEW s \in Shifts, CloseIdle(s)
      PROVE  QueueIInv'
  BY <1>2, CloseIdleHolds
<1>3. ASSUME NEW m \in Ids, TimeoutExpires(m)
      PROVE  QueueIInv'
  BY <1>3, TimeoutHolds
<1>4. ASSUME NEW r \in Replicas, Handle(r)
      PROVE  QueueIInv'
  <2>1. ASSUME NEW m \in Ids, \/ ArchiveDuplicate(r, m) \/ TryLock(r, m) \/ SkipLocked(r, m)
                              \/ ArchiveUnknown(r, m) \/ StartRun(r, m)
        PROVE  QueueIInv'
    BY <2>1, ArchiveDuplicateHolds, TryLockHolds, SkipLockedHolds, ArchiveUnknownHolds,
       StartRunHolds
  <2>2. CASE ReadBatch(r) \/ ReadNothing(r) \/ LoadShift(r) \/ Answer(r) \/ ArchiveReplan(r)
    BY <2>2, ReadBatchHolds, ReadNothingHolds, LoadShiftHolds, AnswerHolds, ArchiveReplanHolds
  <2>3. CASE BuildRun(r) \/ InsertRun(r) \/ ArchiveRun(r) \/ ReportRun(r)
    BY <2>3, BuildRunHolds, InsertRunHolds, ArchiveRunHolds, ReportRunHolds
  <2> QED BY <1>4, <2>1, <2>2, <2>3 DEF Handle
<1>5. ASSUME NEW r \in Replicas,
             \/ Drain(r) \/ Fail(r) \/ RollBackRun(r) \/ ReportFails(r) \/ Crash(r)
             \/ Abandon(r) \/ \E m \in Ids : FailEarly(r, m)
      PROVE  QueueIInv'
  BY <1>5, DrainHolds, FailHolds, RollBackRunHolds, ReportFailsHolds, CrashHolds, AbandonHolds,
     FailEarlyHolds
<1>6. CASE UNCHANGED queueVars
  <2>1. UNCHANGED <<queue, worker, held, run, settled, tries, disturbed>>
    BY <1>6 DEF queueVars, histVars
  <2>2. Standing /\ InHand /\ RunStands /\ Promises
    BY DEF QueueIInv, Standing
  <2>3. Standing'
    BY <2>1, <2>2 DEF Standing, QueueTyped, InHand, InHandOf, Settlement, Hands, Subject
  <2>4. Promises' /\ RunStands'
    <3>1. \A x \in Replicas : Steady(x)
      BY <2>1, <2>2, SteadyOther DEF Standing
    <3>2. SameRequests
      BY <2>1, SameQueue DEF SameRequests
    <3>3. \A x \in Replicas : Aside(x)
      BY <2>1, AsideOther
    <3> QED BY <2>1, <2>2, <3>1, <3>2, <3>3, QuietStep, RunUntouched
  <2> QED BY <2>3, <2>4 DEF QueueIInv
<1> QED BY <1>1, <1>2, <1>3, <1>4, <1>5, <1>6 DEF QueueNext

LEMMA QueueInvariant == QueueSpec => []QueueIInv
<1>1. QueueInit => QueueIInv
  BY QueueInitHolds
<1>2. QueueIInv /\ [QueueNext]_queueVars => QueueIInv'
  BY QueueStepHolds
<1> QED BY <1>1, <1>2, PTL DEF QueueSpec

(* What replicas, messages, locks and the leftover run can be.             *)
THEOREM QueueTypeCorrect == QueueSpec => []QueueTypeOK
<1>1. QueueIInv => QueueTypeOK
  <2>1. 0..1 \subseteq 0..2
    OBVIOUS
  <2>2. run \in Runs => run \in [status   : {"queued", "running", "completed", "skipped", "failed"},
                                 packages : {"pending", "locked", "planned"},
                                 plans    : 0..2]
    BY <2>1 DEF Runs, Ended
  <2> QED BY <2>2 DEF QueueIInv, Standing, QueueTyped, QueueTypeOK
<1> QED BY <1>1, QueueInvariant, PTL

(* However often the leftover message comes back, to however many replicas,*)
(* its packages are planned once: the transaction that locked them is the  *)
(* only one that can plan them.                                            *)
THEOREM LeftoverIsPlannedOnce == QueueSpec => []PlannedOnce
<1>1. QueueIInv => PlannedOnce
  BY DEF QueueIInv, Standing, QueueTyped, Runs, PlannedOnce
<1> QED BY <1>1, QueueInvariant, PTL

(* Undisturbed, the dispatcher is told of the leftover run what happened.  *)
THEOREM LeftoverIsReported == QueueSpec => []RunTellsOutcome
<1>1. QueueIInv => RunTellsOutcome
  <2>1. SUFFICES ASSUME QueueIInv, ~disturbed, run.status \in Ended
                 PROVE  run.status = "completed" <=> run.plans = 1
    BY DEF RunTellsOutcome, Ended
  <2>2. OneTransaction /\ OneLeftover /\ OneHandler
    BY <2>1 DEF QueueIInv, RunStands
  <2>3. run.status \notin {"queued", "running"}
    BY <2>1 DEF Ended
  <2>4. PICK m \in Ids : queue[m].subject = OnDemand
    BY <2>2, <2>3 DEF OneLeftover
  <2>5. \A r \in Replicas : worker[r].msg # m
    BY <2>1, <2>2, <2>3, <2>4 DEF OneHandler
  <2>6. run.status = "completed" <=> run.packages = "planned"
    BY <2>1, <2>2, <2>3, <2>4, <2>5 DEF OneHandler
  <2> QED BY <2>2, <2>6 DEF OneTransaction
<1> QED BY <1>1, QueueInvariant, PTL

-----------------------------------------------------------------------------
(* The promise of ReplanRequests.                                          *)

Busy == {s \in Shifts : held[s] # Nobody}

ReqStep == Requests!ReqNext \/ UNCHANGED <<Asked, tries, Busy>>

(* Nothing the promise is about.                                           *)
LEMMA NothingPromised ==
  ASSUME SameRequests, UNCHANGED <<held, settled, tries>>
  PROVE  ReqStep
<1>1. Asked' = Asked /\ Busy' = Busy
  BY DEF Asked, Busy, SameRequests
<1> QED BY <1>1 DEF ReqStep

(* Some locks go free.                                                     *)
LEMMA LocksFreed ==
  ASSUME UNCHANGED <<Asked, tries>>, Busy' \subseteq Busy
  PROVE  ReqStep
<1>1. CASE Busy' = Busy
  BY <1>1 DEF ReqStep
<1>2. CASE Busy' # Busy
  <2>1. PICK set : set = Busy \ Busy'
    OBVIOUS
  <2>2. set \in SUBSET Shifts /\ set # {} /\ Busy' = Busy \ set
    BY <1>2, <2>1 DEF Busy
  <2>3. Requests!Unlock(set)
    BY <2>2 DEF Requests!Unlock, Busy
  <2> QED BY <2>2, <2>3 DEF ReqStep, Requests!ReqNext
<1> QED BY <1>1, <1>2

(* A message of a shift is archived.                                       *)
LEMMA ArchiveIsPromised ==
  ASSUME QueueIInv, NEW m \in Ids, queue[m].at # "unsent", NEW s0 \in Shifts,
         queue[m].subject = s0, queue' = Archived(m), Recount, settled \subseteq settled',
         \A k \in settled' : k \in settled \/ k \in Requested(s0),
         Busy' \subseteq Busy,
         s0 \in Asked /\ s0 \notin Asked' =>
           \/ tries[s0] >= MaxRetries
           \/ tries[s0] >= 2
           \/ s0 \in Busy /\ Busy' = Busy
  PROVE  ReqStep
<1>1. QueueTyped /\ Counted
  BY DEF QueueIInv, Standing, Promises
<1>2. \A s \in Shifts : Requested(s)' = Requested(s) /\ Queued(s)' = Queued(s) \ {m}
  BY <1>1, ArchivedQueue DEF QueueTyped
<1>3. /\ tries' \in [Shifts -> 0..MaxRetries] /\ tries \in [Shifts -> 0..MaxRetries]
      /\ \A s \in Shifts : tries'[s] = IF Queued(s)' = {} THEN 0 ELSE tries[s]
  BY <1>1, RecountKeeps DEF QueueTyped
<1>4. \A s \in Shifts \ {s0} : /\ Queued(s)' = Queued(s) /\ tries'[s] = tries[s]
                               /\ s \in Asked' <=> s \in Asked
  <2>1. ASSUME NEW s \in Shifts \ {s0}
        PROVE  /\ Queued(s)' = Queued(s) /\ tries'[s] = tries[s]
               /\ s \in Asked' <=> s \in Asked
    <3>1. Queued(s)' = Queued(s) /\ Requested(s) \cap Requested(s0) = {}
      BY <1>2, <2>1 DEF Queued, Requested
    <3>2. tries'[s] = tries[s]
      BY <1>1, <1>3, <3>1 DEF Counted
    <3>3. Requested(s) \subseteq settled' <=> Requested(s) \subseteq settled
      BY <3>1
    <3> QED BY <1>2, <3>1, <3>2, <3>3 DEF Asked
  <2> QED BY <2>1
<1>5. /\ Asked \subseteq Shifts /\ Asked' \subseteq Shifts
      /\ s0 \notin Asked => s0 \notin Asked'
  BY <1>2 DEF Asked
<1>6. tries' \in {tries, [tries EXCEPT ![s0] = 0]}
  <2>1. CASE Queued(s0)' = {}
    <3>1. tries' = [tries EXCEPT ![s0] = 0]
      BY <1>3, <1>4, <2>1
    <3> QED BY <3>1
  <2>2. CASE Queued(s0)' # {}
    <3>1. \A s \in Shifts : tries'[s] = tries[s]
      BY <1>3, <1>4, <2>2
    <3>2. tries' = tries
      BY <1>3, <3>1
    <3> QED BY <3>2
  <2> QED BY <2>1, <2>2
<1>7. CASE s0 \notin Asked
  <2>1. Asked' = Asked
    BY <1>4, <1>5, <1>7
  <2>2. CASE tries' = tries
    BY <2>1, <2>2, LocksFreed
  <2>3. CASE tries' = [tries EXCEPT ![s0] = 0]
    <3>1. Requests!Forget(s0)
      BY <1>7, <2>1, <2>3 DEF Requests!Forget, Busy
    <3> QED BY <3>1 DEF ReqStep, Requests!ReqNext
  <2> QED BY <1>6, <2>2, <2>3
<1>8. CASE s0 \in Asked /\ s0 \in Asked'
  <2>1. Queued(s0)' # {}
    BY <1>8 DEF Asked
  <2>2. \A s \in Shifts : tries'[s] = tries[s]
    BY <1>3, <1>4, <2>1
  <2>3. Asked' = Asked
    BY <1>4, <1>5, <1>8
  <2>4. tries' = tries
    BY <1>3, <2>2
  <2> QED BY <2>3, <2>4, LocksFreed
<1>9. CASE s0 \in Asked /\ s0 \notin Asked'
  <2>1. Asked' = Asked \ {s0}
    BY <1>4, <1>5, <1>9
  <2>2. Requests!Settled(s0)
    BY <1>6, <2>1 DEF Requests!Settled
  <2>3. CASE tries[s0] >= MaxRetries
    <3>1. Requests!GiveUp(s0)
      BY <1>9, <2>2, <2>3 DEF Requests!GiveUp, Busy
    <3> QED BY <3>1 DEF ReqStep, Requests!ReqNext
  <2>4. CASE tries[s0] >= 2
    <3>1. Requests!Overlook(s0)
      BY <1>9, <2>2, <2>4 DEF Requests!Overlook, Busy
    <3> QED BY <3>1 DEF ReqStep, Requests!ReqNext
  <2>5. CASE s0 \in Busy /\ Busy' = Busy
    <3>1. Requests!Skip(s0)
      BY <1>9, <2>2, <2>5 DEF Requests!Skip, Busy
    <3> QED BY <3>1 DEF ReqStep, Requests!ReqNext
  <2> QED BY <1>9, <2>3, <2>4, <2>5
<1> QED BY <1>7, <1>8, <1>9

(* Several shifts may be asked for in one transaction.                     *)
LEMMA EnqueueIsPromised ==
  ASSUME QueueIInv, EnqueueReplans
  PROVE  ReqStep
<1>1. /\ QueueTyped /\ Settlement
      /\ UNCHANGED <<worker, held, run, settled, tries, disturbed>>
  BY DEF QueueIInv, Standing, EnqueueReplans, histVars
<1>2. PICK shifts \in SUBSET Shifts : Enqueue(shifts)
  BY DEF EnqueueReplans
<1> DEFINE unused == {m \in Ids : queue[m].at = "unsent"}
           fresh == {m \in unused : Cardinality({k \in unused : k < m}) < Cardinality(shifts)}
<1>3. PICK new : new = fresh
  OBVIOUS
<1>4. shifts # {} /\ new \subseteq Ids /\ \A m \in new : queue[m].at = "unsent"
  BY <1>2, <1>3 DEF Enqueue
<1>5. PICK f \in Bijection(new, shifts) :
        queue' = [m \in Ids |-> IF m \in new THEN Sent(f[m]) ELSE queue[m]]
  BY <1>2, <1>3 DEF Enqueue
<1> HIDE DEF fresh, unused
<1>6. f \in [new -> shifts] /\ \A s \in shifts : \E m \in new : f[m] = s
  BY <1>5 DEF Bijection, Injection, Surjection
<1>7. /\ \A m \in new : f[m] \in shifts /\ queue'[m].subject = f[m] /\ queue'[m].at = "visible"
      /\ \A m \in Ids \ new : queue'[m] = queue[m]
  BY <1>4, <1>5, <1>6 DEF Sent
<1>8. ASSUME NEW s \in shifts
      PROVE  s \in Asked'
  <2>1. PICK m \in new : f[m] = s
    BY <1>6, <1>8
  <2>2. m \in Queued(s)' /\ m \in Requested(s)'
    BY <1>4, <1>7, <2>1 DEF Queued, Requested, Live
  <2>3. m \notin settled'
    BY <1>1, <1>4 DEF Settlement
  <2> QED BY <1>2, <1>8, <2>2, <2>3 DEF Asked
<1>9. ASSUME NEW s \in Shifts \ shifts
      PROVE  s \in Asked' <=> s \in Asked
  <2>1. \A m \in Ids : m \in Requested(s)' <=> m \in Requested(s)
    BY <1>4, <1>7, <1>9 DEF Requested
  <2>2. \A m \in Requested(s) : m \notin new /\ m \in Ids
    BY <1>4 DEF Requested
  <2>3. Requested(s)' = Requested(s)
    BY <2>1 DEF Requested
  <2>4. Queued(s)' = Queued(s)
    BY <1>7, <2>2, <2>3 DEF Queued, Live
  <2> QED BY <1>1, <2>3, <2>4 DEF Asked
<1>10. Asked' = Asked \cup shifts
  <2>1. ASSUME NEW s \in shifts PROVE s \in Shifts
    BY <1>2
  <2>2. Asked \subseteq Shifts /\ Asked' \subseteq Shifts
    BY DEF Asked
  <2> QED BY <1>8, <1>9, <2>1, <2>2
<1>11. Requests!Ask(shifts)
  BY <1>1, <1>4, <1>10 DEF Requests!Ask, Busy
<1> QED BY <1>2, <1>11 DEF ReqStep, Requests!ReqNext

LEMMA ReadIsPromised ==
  ASSUME QueueIInv, NEW r \in Replicas, ReadBatch(r)
  PROVE  ReqStep
<1> DEFINE visible == {m \in Ids : queue[m].at = "visible"}
           B0 == {m \in visible : Cardinality({k \in visible : k < m}) < BatchSize}
           Read(q) == [q EXCEPT !.at = "hidden", !.reads = IF @ < MaxRetries THEN @ + 1 ELSE @]
<1>1. PICK B : B = B0
  OBVIOUS
<1>2. PICK taken : taken = {s \in Shifts : \E m \in B : queue[m].subject = s}
  OBVIOUS
<1>3. /\ \A m \in B : m \in Ids /\ queue[m].at = "visible"
      /\ queue' = [m \in Ids |-> IF m \in B THEN Read(queue[m]) ELSE queue[m]]
      /\ tries' = [s \in Shifts |-> IF s \in taken /\ tries[s] < MaxRetries
                                    THEN tries[s] + 1 ELSE tries[s]]
      /\ UNCHANGED <<held, settled>>
  BY <1>1, <1>2 DEF ReadBatch
<1>4. QueueTyped
  BY DEF QueueIInv, Standing
<1>5. \A m \in Ids : /\ queue'[m].subject = queue[m].subject
                     /\ queue[m].at = "unsent" <=> queue'[m].at = "unsent"
                     /\ Live(m)' <=> Live(m)
  BY <1>3, <1>4 DEF QueueTyped, Messages, Live
<1>6. \A s \in Shifts : Requested(s)' = Requested(s)
  BY <1>5 DEF Requested
<1>7. \A s \in Shifts : Queued(s)' = Queued(s)
  BY <1>5, <1>6 DEF Queued, Requested
<1>8. Asked' = Asked /\ Busy' = Busy
  BY <1>3, <1>6, <1>7 DEF Asked, Busy
<1>9. CASE taken = {}
  <2>1. tries' = tries
    BY <1>3, <1>4, <1>9 DEF QueueTyped
  <2> QED BY <1>8, <2>1 DEF ReqStep
<1>10. CASE taken # {}
  <2>1. Requests!TakeUp(taken)
    BY <1>3, <1>8, <1>10 DEF Requests!TakeUp, Busy
  <2>2. taken \in SUBSET Shifts
    BY <1>2
  <2> QED BY <2>1, <2>2 DEF ReqStep, Requests!ReqNext
<1> QED BY <1>9, <1>10

LEMMA LockIsPromised ==
  ASSUME QueueIInv, NEW r \in Replicas, NEW m \in Ids, TryLock(r, m)
  PROVE  ReqStep
<1>1. PICK s : s = queue[m].subject
  OBVIOUS
<1>2. /\ s \in Shifts /\ held[s] \in {Nobody, r} /\ held' = [held EXCEPT ![s] = r]
      /\ UNCHANGED <<queue, settled, tries>> /\ held \in [Shifts -> Replicas \cup {Nobody}]
  BY <1>1 DEF TryLock, Unhandled, histVars, QueueIInv, Standing, QueueTyped
<1>3. Asked' = Asked
  BY <1>2, SameQueue DEF Asked
<1>4. Busy' = Busy \cup {s}
  BY <1>2, QueueAssumption DEF Busy
<1>5. CASE s \in Busy
  BY <1>2, <1>3, <1>4, <1>5 DEF ReqStep
<1>6. CASE s \notin Busy
  <2>1. Requests!Lock(s)
    BY <1>2, <1>3, <1>4, <1>6 DEF Requests!Lock, Busy
  <2> QED BY <1>2, <2>1 DEF ReqStep, Requests!ReqNext
<1> QED BY <1>5, <1>6

LEMMA AnswerIsPromised ==
  ASSUME QueueIInv, NEW r \in Replicas, Answer(r)
  PROVE  ReqStep
<1>1. /\ QueueTyped /\ InHandOf(r) /\ Counted
      /\ UNCHANGED <<queue, held>> /\ Recount
      /\ worker[r].at = "solve" /\ settled' = settled \cup worker[r].answers
  BY HoldsOf DEF Answer
<1>2. PICK s0 : s0 = Subject(r)
  OBVIOUS
<1>3. /\ s0 \in Shifts /\ held[s0] = r
      /\ \A k \in worker[r].answers : queue[k].subject = s0
  BY <1>1, <1>2 DEF InHandOf, ReplanPoints
<1>4. \A s \in Shifts : Requested(s)' = Requested(s) /\ Queued(s)' = Queued(s)
  BY <1>1, SameQueue
<1>5. tries' = tries
  <2>1. /\ tries' \in [Shifts -> 0..MaxRetries] /\ tries \in [Shifts -> 0..MaxRetries]
        /\ \A s \in Shifts : tries'[s] = IF Queued(s)' = {} THEN 0 ELSE tries[s]
    BY <1>1, RecountKeeps DEF QueueTyped
  <2>2. \A s \in Shifts : tries'[s] = tries[s]
    BY <1>1, <1>4, <2>1 DEF Counted
  <2> QED BY <2>1, <2>2
<1>6. Busy' = Busy /\ s0 \in Busy
  BY <1>1, <1>3, QueueAssumption DEF Busy
<1>7. \A s \in Shifts \ {s0} : s \in Asked' <=> s \in Asked
  <2>1. \A s \in Shifts \ {s0} : Requested(s) \cap worker[r].answers = {}
    BY <1>3 DEF Requested
  <2> QED BY <1>1, <1>4, <2>1 DEF Asked
<1>8. /\ Asked \subseteq Shifts /\ Asked' \subseteq Shifts
      /\ s0 \in Asked' => s0 \in Asked
  BY <1>1, <1>4 DEF Asked
<1>9. CASE s0 \in Asked /\ s0 \notin Asked'
  <2>1. Asked' = Asked \ {s0}
    BY <1>7, <1>8, <1>9
  <2>2. Requests!Answer(s0)
    BY <1>5, <1>6, <1>9, <2>1 DEF Requests!Answer, Requests!Settled, Busy
  <2> QED BY <1>3, <2>2 DEF ReqStep, Requests!ReqNext
<1>10. CASE ~(s0 \in Asked /\ s0 \notin Asked')
  <2>1. Asked' = Asked
    BY <1>7, <1>8, <1>10
  <2> QED BY <1>5, <1>6, <2>1 DEF ReqStep
<1> QED BY <1>9, <1>10

LEMMA SkipIsPromised ==
  ASSUME QueueIInv, NEW r \in Replicas, NEW m \in Ids, SkipLocked(r, m)
  PROVE  ReqStep
<1>1. PICK s0 : s0 = queue[m].subject
  OBVIOUS
<1>2. /\ InHandOf(r) /\ m \in worker[r].batch /\ s0 \in Shifts /\ held[s0] # Nobody
      /\ queue' = Archived(m) /\ Recount /\ UNCHANGED held
      /\ settled' = settled \cup {k \in Requested(s0) : ~Live(k) \/ k \in worker[r].batch}
  BY <1>1, HoldsOf DEF SkipLocked, Unhandled
<1>3. queue[m].at # "unsent"
  BY <1>2 DEF InHandOf, Hands
<1>4. s0 \in Busy /\ Busy' = Busy
  BY <1>2 DEF Busy
<1>5. settled \subseteq settled' /\ \A k \in settled' : k \in settled \/ k \in Requested(s0)
  BY <1>2
<1>6. queue' = Archived(m) /\ Recount /\ s0 \in Shifts
  BY <1>2
<1> QED BY <1>1, <1>3, <1>4, <1>5, <1>6, ArchiveIsPromised

(* An oversight takes two readings.                                        *)
LEMMA DuplicateIsPromised ==
  ASSUME QueueIInv, NEW r \in Replicas, NEW m \in Ids, ArchiveDuplicate(r, m)
  PROVE  ReqStep
<1>1. PICK s0 : s0 = queue[m].subject
  OBVIOUS
<1>2. /\ InHandOf(r) /\ QueueTyped /\ Deferred /\ worker[r] \in Workers
      /\ m \in worker[r].batch /\ s0 \in worker[r].seen /\ worker[r].at = "batch"
      /\ queue' = Archived(m) /\ Recount /\ UNCHANGED <<held, settled>>
  BY <1>1, HoldsOf DEF ArchiveDuplicate
<1>3. /\ queue[m].at # "unsent" /\ s0 \in Shifts /\ m \in Hands(r) /\ Busy' = Busy
  BY <1>2 DEF InHandOf, Hands, Workers, Busy
<1>4. /\ Requested(s0)' = Requested(s0) /\ Queued(s0)' = Queued(s0) \ {m}
  BY <1>2, <1>3, ArchivedQueue DEF QueueTyped
<1>5. ASSUME s0 \in Asked, s0 \notin Asked'
      PROVE  tries[s0] >= 2 \/ tries[s0] >= MaxRetries
  <2>1. Queued(s0) = {m} /\ ~(Requested(s0) \subseteq settled)
    BY <1>2, <1>3, <1>4, <1>5 DEF Asked
  <2>2. worker[r].batch \cap Queued(s0) # {}
    BY <1>2, <2>1
  <2>3. Twice(s0) \/ Handles(r, s0) \/ Waiting(s0)
    BY <1>2, <1>3, <2>1, <2>2 DEF Deferred
  <2>4. ~Handles(r, s0) /\ ~Waiting(s0)
    BY <1>2, <1>3, <2>1 DEF Handles, ReplanPoints, Waiting
  <2> QED BY <2>3, <2>4 DEF Twice
<1>6. /\ queue' = Archived(m) /\ Recount
      /\ settled \subseteq settled' /\ \A k \in settled' : k \in settled
  BY <1>2
<1> QED BY <1>1, <1>3, <1>5, <1>6, ArchiveIsPromised

LEMMA FreesOnly ==
  ASSUME QueueTyped, NEW r \in Replicas, Unlock(r), Subject(r) \in Shifts
  PROVE  Busy' \subseteq Busy
BY DEF Unlock, Busy, QueueTyped

(* What a solve leaves unanswered is on the queue.                         *)
LEMMA ReplanIsPromised ==
  ASSUME QueueIInv, NEW r \in Replicas, ArchiveReplan(r)
  PROVE  ReqStep
<1>1. PICK m : m = worker[r].msg
  OBVIOUS
<1>2. PICK s0 : s0 = queue[m].subject
  OBVIOUS
<1>3. /\ UNCHANGED settled /\ Recount /\ Unlock(r)
      /\ worker[r].at = "solved" /\ worker[r].at \in ReplanPoints
      /\ queue' = Archived(m)
  BY <1>1 DEF ArchiveReplan, ReplanPoints
<1>4. /\ QueueTyped /\ Answering
      /\ m \in Ids /\ m \in Hands(r) /\ queue[m].at # "unsent"
      /\ s0 \in Shifts /\ Subject(r) = s0 /\ m \in Requested(s0)
  <2>1. PICK w : w = NextMessage(r)
    OBVIOUS
  <2> QED BY <1>1, <1>2, <1>3, <2>1, DoneWith
<1>5. /\ Requested(s0)' = Requested(s0) /\ Queued(s0)' = Queued(s0) \ {m}
  BY <1>3, <1>4, ArchivedQueue DEF QueueTyped
<1>6. ASSUME s0 \in Asked, s0 \notin Asked'
      PROVE  tries[s0] >= 2 \/ tries[s0] >= MaxRetries
  <2>1. Solves(r, s0)
    BY <1>3, <1>4 DEF Solves
  <2>2. /\ \/ Requested(s0) \ (worker[r].answers \cup settled) \subseteq Queued(s0)
           \/ Twice(s0)
           \/ m \notin Queued(s0)
        /\ Hands(r) \cap Requested(s0) \subseteq worker[r].answers
        /\ worker[r].answers \subseteq settled
    BY <1>1, <1>3, <1>4, <2>1 DEF Answering
  <2>3. Queued(s0) = {m}
    BY <1>3, <1>4, <1>5, <1>6 DEF Asked
  <2>4. PICK j \in Requested(s0) : j \notin settled
    BY <1>6 DEF Asked
  <2>5. m \in settled
    BY <1>4, <2>2
  <2> QED BY <2>2, <2>3, <2>4, <2>5 DEF Twice
<1>7. Busy' \subseteq Busy
  BY <1>3, <1>4, FreesOnly
<1>8. settled \subseteq settled' /\ \A k \in settled' : k \in settled
  BY <1>3
<1> QED BY <1>2, <1>3, <1>4, <1>6, <1>7, <1>8, ArchiveIsPromised

(* A message that has failed for the last time has been read as often.     *)
LEMMA FailureIsPromised ==
  ASSUME QueueIInv, NEW m \in Ids, queue[m].at # "unsent", NEW s0 \in Shifts,
         queue[m].subject = s0, UNCHANGED settled, Recount, Busy' \subseteq Busy,
         queue' = IF queue[m].reads >= MaxRetries THEN Archived(m) ELSE queue
  PROVE  ReqStep
<1>1. QueueTyped /\ Counted /\ m \in Requested(s0)
  BY DEF QueueIInv, Standing, Promises, Requested
<1>2. CASE queue[m].reads >= MaxRetries
  <2>1. queue' = Archived(m)
    BY <1>2
  <2>2. /\ Requested(s0)' = Requested(s0) /\ Queued(s0)' = Queued(s0) \ {m}
    BY <1>1, <2>1, ArchivedQueue DEF QueueTyped
  <2>3. ASSUME s0 \in Asked, s0 \notin Asked'
        PROVE  tries[s0] >= MaxRetries
    <3>1. m \in Queued(s0)
      BY <1>1, <2>2, <2>3 DEF Asked
    <3>2. /\ queue[m].reads <= tries[s0] /\ queue[m].reads \in Nat /\ tries[s0] \in Nat
      BY <1>1, <3>1 DEF Counted, QueueTyped, Messages
    <3> QED BY <1>2, <3>2, QueueAssumption
  <2>4. settled \subseteq settled' /\ \A k \in settled' : k \in settled
    OBVIOUS
  <2> QED BY <2>1, <2>3, <2>4, ArchiveIsPromised
<1>3. CASE ~(queue[m].reads >= MaxRetries)
  <2>1. \A s \in Shifts : Requested(s)' = Requested(s) /\ Queued(s)' = Queued(s)
    BY <1>3, SameQueue
  <2>2. Asked' = Asked
    BY <2>1 DEF Asked
  <2>3. tries' = tries
    <3>1. /\ tries' \in [Shifts -> 0..MaxRetries] /\ tries \in [Shifts -> 0..MaxRetries]
          /\ \A s \in Shifts : tries'[s] = IF Queued(s)' = {} THEN 0 ELSE tries[s]
      BY <1>1, RecountKeeps DEF QueueTyped
    <3>2. \A s \in Shifts : tries'[s] = tries[s]
      BY <1>1, <2>1, <3>1 DEF Counted
    <3> QED BY <3>1, <3>2
  <2> QED BY <2>2, <2>3, LocksFreed
<1> QED BY <1>2, <1>3

LEMMA FailIsPromised ==
  ASSUME QueueIInv, NEW r \in Replicas, Fail(r)
  PROVE  ReqStep
<1>1. PICK m : m = worker[r].msg
  OBVIOUS
<1>2. PICK s0 : s0 = queue[m].subject
  OBVIOUS
<1>3. /\ UNCHANGED settled /\ Recount /\ Unlock(r) /\ worker[r].at \in ReplanPoints
      /\ queue' = IF queue[m].reads >= MaxRetries THEN Archived(m) ELSE queue
  BY <1>1 DEF Fail, ReplanPoints
<1>4. /\ QueueTyped /\ m \in Ids /\ queue[m].at # "unsent"
      /\ s0 \in Shifts /\ Subject(r) = s0
  <2>1. PICK w : w = NextMessage(r)
    OBVIOUS
  <2> QED BY <1>1, <1>2, <1>3, <2>1, DoneWith
<1>5. Busy' \subseteq Busy
  BY <1>3, <1>4, FreesOnly
<1> QED BY <1>2, <1>3, <1>4, <1>5, FailureIsPromised

LEMMA FailEarlyIsPromised ==
  ASSUME QueueIInv, NEW r \in Replicas, NEW m \in Ids, FailEarly(r, m)
  PROVE  ReqStep
<1>1. /\ QueueTyped /\ Counted /\ InHandOf(r) /\ m \in worker[r].batch
      /\ UNCHANGED <<held, settled>> /\ Recount
      /\ queue' = IF queue[m].reads >= MaxRetries THEN Archived(m) ELSE queue
  BY HoldsOf DEF FailEarly
<1>2. queue[m].at # "unsent" /\ Busy' \subseteq Busy
  BY <1>1 DEF InHandOf, Hands, Busy
<1>3. CASE queue[m].subject \in Shifts
  <2>1. PICK s0 \in Shifts : queue[m].subject = s0
    BY <1>3
  <2> QED BY <1>1, <1>2, <2>1, FailureIsPromised
<1>4. CASE queue[m].subject \notin Shifts
  <2>1. \A s \in Shifts : Requested(s)' = Requested(s) /\ Queued(s)' = Queued(s)
    BY <1>1, <1>2, <1>4, SameQueue, ArchivedOther DEF QueueTyped
  <2>2. Asked' = Asked
    BY <1>1, <2>1 DEF Asked
  <2>3. tries' = tries
    <3>1. /\ tries' \in [Shifts -> 0..MaxRetries] /\ tries \in [Shifts -> 0..MaxRetries]
          /\ \A s \in Shifts : tries'[s] = IF Queued(s)' = {} THEN 0 ELSE tries[s]
      BY <1>1, RecountKeeps DEF QueueTyped
    <3>2. \A s \in Shifts : tries'[s] = tries[s]
      BY <1>1, <2>1, <3>1 DEF Counted
    <3> QED BY <3>1, <3>2
  <2> QED BY <1>2, <2>2, <2>3, LocksFreed
<1> QED BY <1>3, <1>4

(* The sessions that close with a process, or for want of work.            *)
LEMMA ClosingIsPromised ==
  ASSUME QueueIInv, UNCHANGED <<queue, settled, tries>>, Busy' \subseteq Busy
  PROVE  ReqStep
<1>1. Asked' = Asked
  BY SameQueue DEF Asked
<1> QED BY <1>1, LocksFreed

(* Only what concerns a shift is promised.                                 *)
LEMMA LeftoverIsNotPromised ==
  ASSUME QueueIInv, UNCHANGED <<held, settled, tries>>, queue' \in [Ids -> Messages], Kept,
         \A k \in Ids : queue[k].subject \in Shifts => queue'[k].at = queue[k].at
  PROVE  ReqStep
<1>1. SameRequests
  BY DEF SameRequests, Kept, Requested, Queued, Live
<1> QED BY <1>1, NothingPromised

LEMMA RunIsNotPromised ==
  ASSUME QueueIInv, NEW r \in Replicas,
         BuildRun(r) \/ InsertRun(r) \/ RollBackRun(r) \/ ArchiveRun(r) \/ ReportRun(r)
           \/ ReportFails(r)
  PROVE  ReqStep
<1>1. PICK m : m = worker[r].msg
  OBVIOUS
<1>2. /\ worker[r].at \in RunPoints /\ UNCHANGED <<held, settled, tries>>
      /\ queue' = queue \/ queue' = Archived(m)
  BY <1>1 DEF BuildRun, InsertRun, RollBackRun, ArchiveRun, ReportRun, ReportFails, RunStep,
              RunPoints, histVars
<1>3. /\ QueueTyped /\ m \in Ids /\ queue[m].at # "unsent" /\ queue[m].subject = OnDemand
  BY <1>1, <1>2, AtTheRun, HoldsOf
<1>4. CASE queue' = queue
  BY <1>2, <1>3, <1>4, SameQueue, LeftoverIsNotPromised DEF QueueTyped
<1>5. CASE queue' = Archived(m)
  <2>1. /\ queue' \in [Ids -> Messages] /\ Kept
        /\ \A k \in Ids \ {m} : queue'[k] = queue[k]
    BY <1>3, <1>5, ArchivedQueue DEF QueueTyped
  <2>2. \A k \in Ids : queue[k].subject \in Shifts => queue'[k].at = queue[k].at
    BY <1>3, <2>1, QueueAssumption
  <2> QED BY <1>2, <2>1, <2>2, LeftoverIsNotPromised
<1> QED BY <1>2, <1>4, <1>5

LEMMA QueueStepIsPromised ==
  ASSUME QueueIInv, [QueueNext]_queueVars
  PROVE  ReqStep
<1>1. CASE EnqueueReplans
  BY <1>1, EnqueueIsPromised
<1>2. ASSUME NEW s \in Shifts, CloseIdle(s)
      PROVE  ReqStep
  <2>1. UNCHANGED <<queue, settled, tries>> /\ held' = [held EXCEPT ![s] = Nobody]
    BY <1>2 DEF CloseIdle, histVars
  <2>2. Busy' \subseteq Busy
    BY <2>1 DEF Busy, QueueIInv, Standing, QueueTyped
  <2> QED BY <2>1, <2>2, ClosingIsPromised
<1>3. ASSUME NEW m \in Ids, TimeoutExpires(m)
      PROVE  ReqStep
  <2>1. /\ queue[m].at = "hidden" /\ queue' = [queue EXCEPT ![m].at = "visible"]
        /\ UNCHANGED <<held, settled, tries>> /\ QueueTyped
    BY <1>3 DEF TimeoutExpires, QueueIInv, Standing
  <2>2. SameRequests
    BY <2>1 DEF SameRequests, Requested, Queued, Live, QueueTyped, Messages
  <2> QED BY <2>1, <2>2, NothingPromised
<1>4. ASSUME NEW r \in Replicas, Drain(r) \/ ReadNothing(r) \/ LoadShift(r) \/ Abandon(r)
      PROVE  ReqStep
  <2>1. UNCHANGED <<queue, held, settled, tries>>
    BY <1>4 DEF Drain, ReadNothing, LoadShift, Abandon, histVars
  <2>2. Busy' = Busy
    BY <2>1 DEF Busy
  <2> QED BY <2>1, <2>2, ClosingIsPromised
<1>5. ASSUME NEW r \in Replicas, NEW m \in Ids,
             \/ ArchiveDuplicate(r, m) \/ TryLock(r, m) \/ SkipLocked(r, m)
             \/ ArchiveUnknown(r, m) \/ StartRun(r, m)
      PROVE  ReqStep
  <2>1. CASE ArchiveUnknown(r, m)
    <3>1. /\ m \in worker[r].batch /\ queue[m].subject = Nightly /\ queue' = Archived(m)
          /\ UNCHANGED <<held, settled, tries>> /\ QueueTyped /\ InHandOf(r)
      BY <2>1, HoldsOf DEF ArchiveUnknown, histVars
    <3>2. queue[m].at # "unsent"
      BY <3>1 DEF InHandOf, Hands
    <3>3. /\ queue' \in [Ids -> Messages] /\ Kept
          /\ \A k \in Ids \ {m} : queue'[k] = queue[k]
      BY <3>1, <3>2, ArchivedQueue DEF QueueTyped
    <3>4. \A k \in Ids : queue[k].subject \in Shifts => queue'[k].at = queue[k].at
      BY <3>1, <3>3, QueueAssumption
    <3> QED BY <3>1, <3>3, <3>4, LeftoverIsNotPromised
  <2>2. CASE StartRun(r, m)
    <3>1. UNCHANGED <<queue, held, settled, tries>>
      BY <2>2 DEF StartRun, histVars
    <3>2. Busy' = Busy
      BY <3>1 DEF Busy
    <3> QED BY <3>1, <3>2, ClosingIsPromised
  <2> QED BY <1>5, <2>1, <2>2, DuplicateIsPromised, LockIsPromised, SkipIsPromised
<1>6. ASSUME NEW r \in Replicas,
             ReadBatch(r) \/ Answer(r) \/ ArchiveReplan(r) \/ Fail(r)
      PROVE  ReqStep
  BY <1>6, ReadIsPromised, AnswerIsPromised, ReplanIsPromised, FailIsPromised
<1>7. ASSUME NEW r \in Replicas,
             BuildRun(r) \/ InsertRun(r) \/ RollBackRun(r) \/ ArchiveRun(r) \/ ReportRun(r)
               \/ ReportFails(r)
      PROVE  ReqStep
  BY <1>7, RunIsNotPromised
<1>8. ASSUME NEW r \in Replicas, Crash(r)
      PROVE  ReqStep
  <2>1. /\ UNCHANGED <<queue, settled, tries>>
        /\ held' = [s \in Shifts |-> IF held[s] = r THEN Nobody ELSE held[s]]
    BY <1>8 DEF Crash
  <2>2. Busy' \subseteq Busy
    BY <2>1 DEF Busy
  <2> QED BY <2>1, <2>2, ClosingIsPromised
<1>9. CASE UNCHANGED queueVars
  <2>1. UNCHANGED <<queue, held, settled, tries>>
    BY <1>9 DEF queueVars, histVars
  <2>2. Busy' = Busy
    BY <2>1 DEF Busy
  <2> QED BY <2>1, <2>2, ClosingIsPromised
<1>10. ASSUME NEW r \in Replicas, Handle(r)
       PROVE  ReqStep
  BY <1>10, <1>4, <1>5, <1>6, <1>7 DEF Handle
<1>11. ASSUME NEW r \in Replicas, NEW m \in Ids, FailEarly(r, m)
       PROVE  ReqStep
  BY <1>11, FailEarlyIsPromised
<1> QED BY <1>1, <1>2, <1>3, <1>4, <1>6, <1>7, <1>8, <1>9, <1>10, <1>11 DEF QueueNext

(* The queue with its workers keeps the safety part of the promise: no     *)
(* request is dropped but by a solve that read the shift after it, by a    *)
(* skip while the shift is locked, or after readings in vain.              *)
THEOREM QueueKeepsRequests ==
  QueueSpec => Requests!ReqInit /\ [][Requests!ReqNext]_(Requests!reqVars)
<1>1. QueueInit => Requests!ReqInit
  <2>1. SUFFICES ASSUME QueueInit
                 PROVE  Requests!ReqInit
    OBVIOUS
  <2>2. QueueIInv
    BY <2>1, QueueInitHolds
  <2>3. tries = [s \in Shifts |-> 0] /\ \A s \in Shifts : held[s] = Nobody
    BY <2>1 DEF QueueInit
  <2>4. Asked = {}
    <3>1. PICK l \in Leftovers :
            queue = [m \in Ids |-> IF m <= Len(l) THEN Sent(l[m]) ELSE Unsent]
      BY <2>1 DEF QueueInit
    <3>2. ASSUME NEW m \in Ids PROVE queue[m].subject \notin Shifts
      <4>1. CASE m <= Len(l)
        <5>1. m \in 1..Len(l) /\ l \in Seq({OnDemand, Nightly})
          BY <3>1, <4>1, QueueAssumption DEF Ids
        <5>2. l[m] \in {OnDemand, Nightly}
          BY <5>1
        <5>3. queue[m].subject = l[m]
          BY <3>1, <4>1 DEF Sent
        <5> QED BY <5>2, <5>3, QueueAssumption
      <4>2. CASE ~(m <= Len(l))
        BY <3>1, <4>2, QueueAssumption DEF Unsent
      <4> QED BY <4>1, <4>2
    <3> QED BY <3>2 DEF Asked, Queued, Requested
  <2> QED BY <2>3, <2>4 DEF Requests!ReqInit
<1>2. QueueIInv /\ [QueueNext]_queueVars => [Requests!ReqNext]_(Requests!reqVars)
  <2>1. SUFFICES ASSUME QueueIInv, [QueueNext]_queueVars
                 PROVE  [Requests!ReqNext]_(Requests!reqVars)
    OBVIOUS
  <2>2. ReqStep
    BY <2>1, QueueStepIsPromised
  <2> QED BY <2>2 DEF ReqStep, Requests!reqVars, Busy
<1> QED BY <1>1, <1>2, QueueInvariant, PTL DEF QueueSpec
=============================================================================
