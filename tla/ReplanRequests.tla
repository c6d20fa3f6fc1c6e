--------------------------- MODULE ReplanRequests ---------------------------
(***************************************************************************)
(* What the replan queue and its workers promise about the shifts somebody *)
(* asked to have solved again.  A request stays wanted until a solve that  *)
(* read the shift after the request has ended, or it is dropped: because   *)
(* somebody else is at work on that shift, because it has been taken up    *)
(* MaxRetries times in vain, or, when the shift has several messages, in   *)
(* an oversight that takes two readings.                                   *)
(***************************************************************************)
EXTENDS Naturals

CONSTANTS Shifts, MaxRetries

VARIABLES want,   \* shifts asked for and not answered since
          tries,  \* how often the shift has been taken up since it was first asked for
          busy    \* shifts whose lock somebody holds

reqVars == <<want, tries, busy>>

ReqInit ==
  /\ want = {}
  /\ tries = [s \in Shifts |-> 0]
  /\ busy = {}

(* Several shifts may be asked for in one transaction.                     *)
Ask(asked) ==
  /\ asked # {}
  /\ want' = want \cup asked
  /\ UNCHANGED <<tries, busy>>

(* One reading of the queue takes up the requests of several shifts, some  *)
(* of them answered before.                                                *)
TakeUp(taken) ==
  /\ taken # {}
  /\ tries' = [s \in Shifts |-> IF s \in taken /\ tries[s] < MaxRetries
                                THEN tries[s] + 1 ELSE tries[s]]
  /\ UNCHANGED <<want, busy>>

(* Nothing is left to do for the shift.                                    *)
Forget(s) ==
  /\ s \notin want
  /\ tries' = [tries EXCEPT ![s] = 0]
  /\ UNCHANGED want /\ busy' \subseteq busy

Lock(s) == s \notin busy /\ busy' = busy \cup {s} /\ UNCHANGED <<want, tries>>

Unlock(freed) == freed # {} /\ busy' = busy \ freed /\ UNCHANGED <<want, tries>>

Settled(s) == /\ want' = want \ {s}
              /\ tries' \in {tries, [tries EXCEPT ![s] = 0]}

(* A solve answers the request: only under the shift's lock.               *)
Answer(s) == s \in want \cap busy /\ Settled(s) /\ UNCHANGED busy

(* The worker believes the one who holds the lock will answer it.          *)
Skip(s) == s \in want \cap busy /\ Settled(s) /\ UNCHANGED busy

GiveUp(s) ==
  /\ s \in want /\ tries[s] >= MaxRetries
  /\ Settled(s)
  /\ busy' \subseteq busy

(* Two readings each left the request to the other's message.              *)
Overlook(s) == s \in want /\ tries[s] >= 2 /\ Settled(s) /\ busy' \subseteq busy

ReqNext ==
  \/ \E set \in SUBSET Shifts : Ask(set) \/ TakeUp(set) \/ Unlock(set)
  \/ \E s \in Shifts : Lock(s) \/ Answer(s) \/ Skip(s) \/ GiveUp(s) \/ Overlook(s)
                        \/ Forget(s)

ReqSpec ==
  /\ ReqInit /\ [][ReqNext]_reqVars
  /\ \A s \in Shifts : (s \in want) ~> (s \notin want)
=============================================================================
